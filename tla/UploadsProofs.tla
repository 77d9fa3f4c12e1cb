---------------------------- MODULE UploadsProofs ----------------------------
(***************************************************************************)
(* Proofs about Uploads, for every set of transfers, paths, directories    *)
(* and contents.  The inductive invariant ties the phase of a commit to    *)
(* the state of its row (Tasks), says when a file may still be created     *)
(* (Links), whose file is where (Files) and which staging files there are  *)
(* (Stages).                                                               *)
(*                                                                         *)
(* The second half proves what MCDeviceSave checks: a save to a device and *)
(* a Library upload are written once, for every set of runners, calls and  *)
(* batches.  SaveInv ties the journal of a save to the transfer it is      *)
(* about, LibraryInv a row of the Library to the call that holds it.       *)
(*                                                                         *)
(* The last part proves what the file tools keep (FileTools, a part of     *)
(* MCUploads), for every set of calls, names and lines, from ToolsInv.     *)
(***************************************************************************)
EXTENDS MCDeviceSave, TLAPS, FiniteSetTheorems, SequenceTheorems

Early == {"opened", "naming", "staging", "staged"}
Late  == {"publishing", "linking", "linked", "checked", "confirming"}

\* a phase of commit or resolve needs its row in the state it was found or put in
Tasks ==
    \A t \in Transfer :
       /\ task[t] \in Early => In(t, "receiving")
       /\ task[t] \in Late => In(t, "publishing")
       /\ task[t] = "naming" => row[t].temporary > 0

\* no file is there before the link, and the link comes once
Links ==
    \A t \in Transfer :
       /\ links[t] \in {0, 1}
       /\ (~Known(t) \/ In(t, "receiving") \/ task[t] \in {"publishing", "linking"})
             => links[t] = 0

\* a file an upload made is at its destination
Files ==
    \A w \in Dir \X Path, t \in Transfer, c \in Content \cup {Other} :
       file[w] = <<c, t>> => Known(t) /\ w = At(t)

\* so long as the parent stays, an upload has one staging file, and names it
Stages ==
    moved \/ /\ \A t \in Transfer : Known(t) => row[t].parent = current
             /\ \A n \in staging : Known(n[1]) /\ n = Name(n[1])

\* what is about to be recorded as complete has stood
Stood ==
    \A t \in Transfer :
       In(t, "complete") \/ task[t] \in {"checked", "confirming"} => t \in stood

IInv == TypeOK /\ Tasks /\ Links /\ Files /\ Stages /\ Stood /\ Reserved

\* A known transfer has a row with typed fields.
LEMMA RowFields ==
    ASSUME TypeOK, NEW t \in Transfer, Known(t)
    PROVE  /\ row[t] \in Row /\ row[t].state \in State
           /\ row[t].path \in Path /\ row[t].parent \in Dir
           /\ row[t].content \in Content /\ row[t].chunks \in Seq(Block)
           /\ row[t].temporary \in 0..MaxTries /\ At(t) \in Dir \X Path
  <1>1. row[t] \in Row
    BY DEF TypeOK, Known
  <1> QED BY <1>1 DEF Row, At

\* What a row is made into is a row.
LEMMA RowUpdates ==
    ASSUME NEW q \in Row
    PROVE  /\ \A s \in State : [q EXCEPT !.state = s] \in Row
           /\ \A s \in State : [q EXCEPT !.state = s, !.chunks = << >>] \in Row
           /\ \A s \in Seq(Block) : [q EXCEPT !.chunks = s] \in Row
           /\ \A n \in 0..MaxTries : [q EXCEPT !.temporary = n] \in Row
  <1>1. ASSUME NEW s \in State PROVE [q EXCEPT !.state = s] \in Row
    BY DEF Row
  <1>2. ASSUME NEW s \in State PROVE [q EXCEPT !.state = s, !.chunks = << >>] \in Row
    <2>1. << >> \in Seq(Block) OBVIOUS
    <2> QED BY <2>1 DEF Row
  <1>3. ASSUME NEW s \in Seq(Block) PROVE [q EXCEPT !.chunks = s] \in Row
    BY DEF Row
  <1>4. ASSUME NEW n \in 0..MaxTries PROVE [q EXCEPT !.temporary = n] \in Row
    BY DEF Row
  <1> QED BY <1>1, <1>2, <1>3, <1>4

\* Changing one row to another row keeps the table typed.
LEMMA RowChanged ==
    ASSUME TypeOK, NEW t \in Transfer, NEW r \in Row, row' = [row EXCEPT ![t] = r]
    PROVE  row' \in [Transfer -> Row \cup {None}]
  BY DEF TypeOK

\* A change of state keeps the table typed, chunks freed or not.
LEMMA SettleTypes ==
    ASSUME TypeOK, NEW t \in Transfer, Known(t), NEW s \in State,
           Settle(t, s) \/ SetState(t, s)
    PROVE  row' \in [Transfer -> Row \cup {None}]
  <1>1. row[t] \in Row BY RowFields
  <1>2. CASE Settle(t, s)
    <2> DEFINE r == [row[t] EXCEPT !.state = s, !.chunks = << >>]
    <2>1. r \in Row BY <1>1, RowUpdates
    <2>2. row' = [row EXCEPT ![t] = r] BY <1>2, <1>1 DEF Settle, TypeOK, Row
    <2> QED BY <2>1, <2>2, RowChanged
  <1>3. CASE SetState(t, s)
    <2> DEFINE r == [row[t] EXCEPT !.state = s]
    <2>1. r \in Row BY <1>1, RowUpdates
    <2>2. row' = [row EXCEPT ![t] = r] BY <1>3, <1>1 DEF SetState, TypeOK, Row
    <2> QED BY <2>1, <2>2, RowChanged
  <1> QED BY <1>2, <1>3

\* Every step of the rows keeps them typed.
LEMMA RowTypes ==
    ASSUME TypeOK, Tasks, Next
    PROVE  row' \in [Transfer -> Row \cup {None}]
  <1> USE DEF TypeOK
  <1>1. ASSUME NEW t \in Transfer, NEW p \in Path, NEW c \in Content, Begin(t, p, c)
        PROVE  row' \in [Transfer -> Row \cup {None}]
    <2> DEFINE r == [state |-> "receiving", path |-> p, parent |-> current,
                     content |-> c, chunks |-> << >>, temporary |-> 0]
    <2>1. r \in Row BY UploadAssumption DEF Row, State
    <2>2. row' = [row EXCEPT ![t] = r] BY <1>1 DEF Begin
    <2> QED BY <2>1, <2>2, RowChanged
  <1>2. ASSUME NEW t \in Transfer, NEW b \in Block, Chunk(t, b)
        PROVE  row' \in [Transfer -> Row \cup {None}]
    <2> DEFINE r == [row[t] EXCEPT !.chunks = Append(@, b)]
    <2>1. row[t] \in Row BY <1>2, RowFields DEF Chunk, In
    <2>2. r \in Row
      <3>1. Append(row[t].chunks, b) \in Seq(Block) BY <2>1 DEF Row
      <3> QED BY <2>1, <3>1, RowUpdates
    <2>3. row' = [row EXCEPT ![t] = r] BY <1>2, <2>1 DEF Chunk, Row
    <2> QED BY <2>2, <2>3, RowChanged
  <1>3. ASSUME NEW t \in Transfer, NameStaging(t)
        PROVE  row' \in [Transfer -> Row \cup {None}]
    <2> DEFINE r == [row[t] EXCEPT !.temporary = @ + 1]
    <2>1. row[t] \in Row BY <1>3, RowFields DEF NameStaging, Tasks, Early, In
    <2>2. r \in Row
      <3>1. row[t].temporary + 1 \in 0..MaxTries
        BY <1>3, <2>1, UploadAssumption DEF Row, NameStaging
      <3> QED BY <2>1, <3>1, RowUpdates
    <2>3. row' = [row EXCEPT ![t] = r] BY <1>3, <2>1 DEF NameStaging, Row
    <2> QED BY <2>2, <2>3, RowChanged
  <1>4. ASSUME NEW t \in Transfer, Abort(t) \/ Discard(t)
        PROVE  row' \in [Transfer -> Row \cup {None}]
    BY <1>4, SettleTypes DEF Abort, Discard, In, State
  <1>5. ASSUME NEW t \in Transfer, Finish(t) \/ ConfirmSave(t) \/ SaveIntent(t)
        PROVE  row' \in [Transfer -> Row \cup {None}]
    <2>1. Known(t)
      BY <1>5 DEF Finish, ConfirmSave, SaveIntent, Tasks, Early, Late, In
    <2> QED BY <1>5, <2>1, SettleTypes DEF Finish, ConfirmSave, SaveIntent, State
  <1>6. ASSUME UNCHANGED row
        PROVE  row' \in [Transfer -> Row \cup {None}]
    BY <1>6
  <1> QED
    BY <1>1, <1>2, <1>3, <1>4, <1>5, <1>6
    DEF Next, Call, FileSystem, CommitStart, OpenStaging, WriteStaging, ParentStays,
        Link, VerifyPublication, Stop, ConfirmCheck, WriteFile, CreateFile, RemoveFile,
        MoveParent, ReplaceStaging, RemoveStaging

-----------------------------------------------------------------------------
(* What a step does to the rows. *)

\* A row with its destination, its content and its staging name, in state s.
Stays(u, s) ==
    /\ Known(u)' /\ row'[u].state = s /\ At(u)' = At(u)
    /\ row'[u].path = row[u].path /\ row'[u].parent = row[u].parent
    /\ row'[u].content = row[u].content

\* begin makes a row and changes no other.
LEMMA BeginRows ==
    ASSUME TypeOK, NEW t \in Transfer, NEW p \in Path, NEW c \in Content, Begin(t, p, c)
    PROVE  /\ Known(t)' /\ In(t, "receiving")' /\ ~Known(t)
           /\ row'[t].path = p /\ row'[t].parent = current /\ row'[t].content = c
           /\ row'[t].temporary = 0
           /\ \A u \in Transfer \ {t} : row'[u] = row[u]
  <1> DEFINE r == [state |-> "receiving", path |-> p, parent |-> current,
                   content |-> c, chunks |-> << >>, temporary |-> 0]
  <1>1. r \in Row
    <2>1. << >> \in Seq(Block) OBVIOUS
    <2> QED BY <2>1, UploadAssumption DEF Row, State, TypeOK
  <1>2. row' = [row EXCEPT ![t] = r] /\ ~Known(t) BY DEF Begin
  <1>3. row'[t] = r /\ \A u \in Transfer \ {t} : row'[u] = row[u]
    BY <1>2 DEF TypeOK
  <1> QED BY <1>1, <1>2, <1>3, RowAssumption DEF Known, In

\* chunk changes neither a state nor a staging name.
LEMMA ChunkRows ==
    ASSUME TypeOK, NEW t \in Transfer, NEW b \in Block, Chunk(t, b),
           NEW u \in Transfer, Known(u)
    PROVE  Stays(u, row[u].state) /\ row'[u].temporary = row[u].temporary
  <1>1. row[u] \in Row BY RowFields
  <1> DEFINE r == [row[u] EXCEPT !.chunks = Append(@, b)]
  <1>2. /\ r.state = row[u].state /\ r.path = row[u].path /\ r.parent = row[u].parent
        /\ r.content = row[u].content /\ r.temporary = row[u].temporary
    BY <1>1 DEF Row
  <1>3. row'[u] = row[u] \/ row'[u] = r
    BY DEF Chunk, TypeOK
  <1>4. row'[u] # None
    <2>1. Append(row[u].chunks, b) \in Seq(Block) BY <1>1 DEF Row
    <2> QED BY <1>1, <1>3, <2>1, RowUpdates, RowAssumption
  <1>5. /\ row'[u].state = row[u].state /\ row'[u].path = row[u].path
        /\ row'[u].parent = row[u].parent /\ row'[u].content = row[u].content
        /\ row'[u].temporary = row[u].temporary
    <2> HIDE DEF r
    <2> QED BY <1>2, <1>3
  <1> QED BY <1>4, <1>5 DEF Stays, Known, In, At

\* A new staging name changes no state, and no other name.
LEMMA NameRows ==
    ASSUME TypeOK, NEW t \in Transfer, NameStaging(t), NEW u \in Transfer, Known(u)
    PROVE  /\ Stays(u, row[u].state)
           /\ row'[u].temporary = IF u = t THEN row[u].temporary + 1
                                           ELSE row[u].temporary
  <1>1. row[u] \in Row BY RowFields
  <1> DEFINE r == [row[u] EXCEPT !.temporary = @ + 1]
  <1>2. /\ r.state = row[u].state /\ r.path = row[u].path /\ r.parent = row[u].parent
        /\ r.content = row[u].content /\ r.temporary = row[u].temporary + 1
    BY <1>1 DEF Row
  <1>3. row'[u] = IF u = t THEN r ELSE row[u]
    BY DEF NameStaging, TypeOK
  <1>4. row'[u] # None
    <2>1. u = t => row[u].temporary + 1 \in 0..MaxTries
      BY <1>1, UploadAssumption DEF Row, NameStaging
    <2> QED BY <1>1, <1>3, <2>1, RowUpdates, RowAssumption
  <1>5. /\ row'[u].state = row[u].state /\ row'[u].path = row[u].path
        /\ row'[u].parent = row[u].parent /\ row'[u].content = row[u].content
        /\ row'[u].temporary = IF u = t THEN row[u].temporary + 1 ELSE row[u].temporary
    <2> HIDE DEF r
    <2> QED BY <1>2, <1>3
  <1> QED BY <1>4, <1>5 DEF Stays, Known, In, At

\* A change of state changes nothing else that matters here.
LEMMA SettleRows ==
    ASSUME TypeOK, NEW t \in Transfer, NEW s \in State, Settle(t, s) \/ SetState(t, s),
           NEW u \in Transfer, Known(u)
    PROVE  /\ Stays(u, IF u = t THEN s ELSE row[u].state)
           /\ row'[u].temporary = row[u].temporary
  <1>1. row[u] \in Row BY RowFields
  <1> DEFINE k1 == [row[u] EXCEPT !.state = s]
             k2 == [row[u] EXCEPT !.state = s, !.chunks = << >>]
  <1>2. /\ k1.state = s /\ k1.path = row[u].path /\ k1.parent = row[u].parent
        /\ k1.content = row[u].content /\ k1.temporary = row[u].temporary
    BY <1>1 DEF Row
  <1>3. /\ k2.state = s /\ k2.path = row[u].path /\ k2.parent = row[u].parent
        /\ k2.content = row[u].content /\ k2.temporary = row[u].temporary
    BY <1>1 DEF Row
  <1>4. IF u = t THEN row'[u] = k1 \/ row'[u] = k2
                 ELSE row'[u] = row[u]
    BY DEF Settle, SetState, TypeOK
  <1>5. row'[u] # None BY <1>1, <1>4, RowUpdates, RowAssumption
  <1>6. /\ row'[u].state = (IF u = t THEN s ELSE row[u].state)
        /\ row'[u].path = row[u].path
        /\ row'[u].parent = row[u].parent /\ row'[u].content = row[u].content
        /\ row'[u].temporary = row[u].temporary
    <2> HIDE DEF k1, k2
    <2> QED BY <1>2, <1>3, <1>4
  <1> QED BY <1>5, <1>6 DEF Stays, Known, In, At

\* The steps that change the state of a row.
Settles(t, s) ==
    \/ s = "aborted" /\ Abort(t)
    \/ s = "publishing" /\ SaveIntent(t)
    \/ s = "complete" /\ (Finish(t) \/ ConfirmSave(t))
    \/ s = "discarded" /\ Discard(t)

\* The steps that leave the rows alone.
Aside ==
    \/ \E t \in Transfer :
          \/ CommitStart(t) \/ OpenStaging(t) \/ WriteStaging(t) \/ ParentStays(t)
          \/ Link(t) \/ VerifyPublication(t) \/ Stop(t) \/ ConfirmCheck(t)
    \/ FileSystem

\* A step makes a row, changes one, or none.
LEMMA Steps ==
    ASSUME Next
    PROVE  \/ \E t \in Transfer, p \in Path, c \in Content : Begin(t, p, c)
           \/ \E t \in Transfer, b \in Block : Chunk(t, b)
           \/ \E t \in Transfer : NameStaging(t)
           \/ \E t \in Transfer, s \in State : Settles(t, s)
           \/ Aside /\ UNCHANGED row
  <1>1. ASSUME NEW t \in Transfer, Call(t)
        PROVE  \/ \E p \in Path, c \in Content : Begin(t, p, c)
               \/ \E b \in Block : Chunk(t, b)
               \/ NameStaging(t)
               \/ \E s \in State : Settles(t, s)
               \/ Aside /\ UNCHANGED row
    BY <1>1
    DEF Call, Settles, State, Aside, CommitStart, OpenStaging, WriteStaging, ParentStays,
        Link, VerifyPublication, Stop, ConfirmCheck
  <1>2. FileSystem => Aside /\ UNCHANGED row
    BY DEF Aside, FileSystem, WriteFile, CreateFile, RemoveFile, MoveParent,
           ReplaceStaging, RemoveStaging
  <1> QED BY <1>1, <1>2 DEF Next

\* What the steps that change a state do to the rows.
LEMMA SettlesRows ==
    ASSUME TypeOK, Tasks, NEW t \in Transfer, NEW s \in State, Settles(t, s),
           NEW u \in Transfer, Known(u)
    PROVE  /\ Stays(u, IF u = t THEN s ELSE row[u].state)
           /\ row'[u].temporary = row[u].temporary
  <1>1. Settle(t, s) \/ SetState(t, s)
    BY DEF Settles, Abort, SaveIntent, Finish, ConfirmSave, Discard
  <1> QED BY <1>1, SettleRows

\* A transfer that has a row keeps it, with its destination and content.
LEMMA RowsStay ==
    ASSUME TypeOK, Tasks, Next, NEW u \in Transfer, Known(u)
    PROVE  /\ \E s \in State : Stays(u, s)
           /\ row'[u].temporary = row[u].temporary \/ NameStaging(u)
  <1>1. row[u].state \in State BY RowFields
  <1>2. ASSUME NEW t \in Transfer, NEW p \in Path, NEW c \in Content, Begin(t, p, c)
        PROVE  Stays(u, row[u].state) /\ row'[u] = row[u]
    BY <1>2, BeginRows DEF Stays, Known, In, At
  <1>3. UNCHANGED row => Stays(u, row[u].state) /\ row'[u] = row[u]
    BY DEF Stays, Known, In, At
  <1>4. ASSUME NEW t \in Transfer, NameStaging(t)
        PROVE  /\ Stays(u, row[u].state)
               /\ row'[u].temporary = row[u].temporary \/ NameStaging(u)
    BY <1>4, NameRows
  <1> QED BY <1>1, <1>2, <1>3, <1>4, Steps, ChunkRows, SettlesRows

\* A transfer that has no row gets one from begin only.
LEMMA RowsNew ==
    ASSUME TypeOK, Tasks, Next, NEW t \in Transfer, ~Known(t), Known(t)'
    PROVE  \E p \in Path, c \in Content : Begin(t, p, c)
  <1>1. ASSUME NEW u \in Transfer, NEW s \in State, Settles(u, s)
        PROVE  row'[t] = row[t]
    <2>1. Known(u)
      BY <1>1 DEF Settles, Abort, SaveIntent, Finish, ConfirmSave, Discard,
                  Tasks, Early, Late, In
    <2>2. \E z : row' = [row EXCEPT ![u] = z]
      BY <1>1 DEF Settles, Abort, SaveIntent, Finish, ConfirmSave, Discard,
                  Settle, SetState
    <2> QED BY <2>1, <2>2 DEF TypeOK
  <1>2. ASSUME NEW u \in Transfer, NEW b \in Block, Chunk(u, b)
        PROVE  row'[t] = row[t]
    <2>1. Known(u) BY <1>2 DEF Chunk, In
    <2> QED BY <1>2, <2>1 DEF TypeOK, Chunk
  <1>3. ASSUME NEW u \in Transfer, NameStaging(u)
        PROVE  row'[t] = row[t]
    <2>1. Known(u) BY <1>3 DEF NameStaging, Tasks, Early, In
    <2> QED BY <1>3, <2>1 DEF TypeOK, NameStaging
  <1>4. PICK u \in Transfer, p \in Path, c \in Content : Begin(u, p, c)
    BY <1>1, <1>2, <1>3, Steps DEF Known
  <1>5. u = t BY <1>4, BeginRows DEF Known
  <1> QED BY <1>4, <1>5

-----------------------------------------------------------------------------
(* The parts of the invariant, one by one. *)

\* Every step keeps the types.
LEMMA TypeStep ==
    ASSUME IInv, Next
    PROVE  TypeOK'
  <1> USE DEF IInv
  <1>1. row' \in [Transfer -> Row \cup {None}] BY RowTypes
  <1>2. task' \in [Transfer -> Phase]
    <2>1. ASSUME NEW t \in Transfer, NEW p \in Phase, Step(t, p)
          PROVE  task' \in [Transfer -> Phase]
      BY <2>1 DEF TypeOK, Step
    <2>2. task' = task \/ \E t \in Transfer, p \in Phase : Step(t, p)
      BY DEF Next, Call, FileSystem, Begin, Chunk, Abort, CommitStart, NameStaging,
             OpenStaging, WriteStaging, SaveIntent, ParentStays, Link,
             VerifyPublication, Finish, Stop, ConfirmCheck, ConfirmSave, Discard,
             WriteFile, CreateFile, RemoveFile, MoveParent, ReplaceStaging,
             RemoveStaging, Phase
    <2> QED BY <2>1, <2>2 DEF TypeOK
  <1>3. current' \in Dir /\ moved' \in BOOLEAN
    BY DEF TypeOK, Next, Call, FileSystem, Begin, Chunk, Abort, CommitStart, NameStaging,
           OpenStaging, WriteStaging, SaveIntent, ParentStays, Link,
           VerifyPublication, Finish, Stop, ConfirmCheck, ConfirmSave, Discard,
           WriteFile, CreateFile, RemoveFile, MoveParent, ReplaceStaging,
           RemoveStaging, disk
  <1>4. file' \in [Dir \X Path -> File \cup {None}]
    <2>1. ASSUME NEW t \in Transfer, Link(t)
          PROVE  file' \in [Dir \X Path -> File \cup {None}]
      <3>1. Known(t) BY <2>1 DEF Link, Tasks, Late, In
      <3>2. <<Other, t>> \in File /\ <<row[t].content, t>> \in File
        BY <3>1, RowFields DEF File
      <3> QED BY <2>1, <3>2 DEF Link, TypeOK
    <2>2. ASSUME NEW q \in Path, NEW c \in Content, CreateFile(q, c)
          PROVE  file' \in [Dir \X Path -> File \cup {None}]
      <3>1. <<c, None>> \in File BY DEF File
      <3>2. <<current, q>> \in Dir \X Path BY DEF TypeOK
      <3> QED BY <2>2, <3>1, <3>2 DEF CreateFile, TypeOK
    <2>3. ASSUME NEW q \in Path, WriteFile(q) \/ RemoveFile(q)
          PROVE  file' \in [Dir \X Path -> File \cup {None}]
      <3>1. <<Other, None>> \in File BY DEF File
      <3>2. <<current, q>> \in Dir \X Path BY DEF TypeOK
      <3> QED BY <2>3, <3>1, <3>2 DEF WriteFile, RemoveFile, TypeOK
    <2>4. CASE UNCHANGED file BY <2>4 DEF TypeOK
    <2>5. \/ UNCHANGED file
          \/ \E t \in Transfer : Link(t)
          \/ \E q \in Path : WriteFile(q) \/ RemoveFile(q)
          \/ \E q \in Path, c \in Content : CreateFile(q, c)
      BY DEF Next, Call, FileSystem, Begin, Chunk, Abort, CommitStart, NameStaging,
             OpenStaging, WriteStaging, SaveIntent, ParentStays,
             VerifyPublication, Finish, Stop, ConfirmCheck, ConfirmSave, Discard,
             MoveParent, ReplaceStaging, RemoveStaging, disk
    <2> QED BY <2>1, <2>2, <2>3, <2>4, <2>5
  <1>5. staging' \subseteq Transfer \X (1..MaxTries) /\ altered' \subseteq staging'
    <2>1. ASSUME NEW t \in Transfer, OpenStaging(t)
          PROVE  Name(t) \in Transfer \X (1..MaxTries)
      <3>1. Known(t) /\ row[t].temporary > 0
        BY <2>1 DEF OpenStaging, Tasks, Early, In
      <3>2. row[t].temporary \in 1..MaxTries
        BY <3>1, RowFields, UploadAssumption
      <3> QED BY <3>2 DEF Name
    <2>2. ASSUME NEW z, z \subseteq Transfer \X (1..MaxTries), Staged(z)
          PROVE  staging' \subseteq Transfer \X (1..MaxTries) /\ altered' \subseteq staging'
      BY <2>2 DEF Staged
    <2>3. ASSUME NEW t \in Transfer, ReplaceStaging(t)
          PROVE  staging' \subseteq Transfer \X (1..MaxTries) /\ altered' \subseteq staging'
      BY <2>3 DEF ReplaceStaging, TypeOK
    <2>4. CASE UNCHANGED <<staging, altered>> BY <2>4 DEF TypeOK
    <2>5. \/ UNCHANGED <<staging, altered>>
          \/ \E t \in Transfer : OpenStaging(t) /\ Staged(staging \cup {Name(t)})
          \/ \E n : Staged(staging) \/ Staged(staging \ {n})
          \/ \E t \in Transfer : ReplaceStaging(t)
      BY DEF Next, Call, FileSystem, Begin, Chunk, Abort, CommitStart, NameStaging,
             OpenStaging, WriteStaging, SaveIntent, ParentStays, Link,
             VerifyPublication, Finish, Stop, ConfirmCheck, ConfirmSave, Discard,
             WriteFile, CreateFile, RemoveFile, MoveParent, RemoveStaging, disk
    <2>6. staging \subseteq Transfer \X (1..MaxTries) BY DEF TypeOK
    <2>7. \A n : staging \ {n} \subseteq Transfer \X (1..MaxTries) BY <2>6
    <2>8. ASSUME NEW t \in Transfer, OpenStaging(t)
          PROVE  staging \cup {Name(t)} \subseteq Transfer \X (1..MaxTries)
      BY <2>1, <2>6, <2>8
    <2> QED BY <2>2, <2>3, <2>4, <2>5, <2>6, <2>7, <2>8
  <1>6. links' \in [Transfer -> Nat]
    <2>1. links' = links \/ \E t \in Transfer : links' = [links EXCEPT ![t] = @ + 1]
      BY DEF Next, Call, FileSystem, Begin, Chunk, Abort, CommitStart, NameStaging,
             OpenStaging, WriteStaging, SaveIntent, ParentStays, Link,
             VerifyPublication, Finish, Stop, ConfirmCheck, ConfirmSave, Discard,
             WriteFile, CreateFile, RemoveFile, MoveParent, ReplaceStaging, RemoveStaging
    <2> QED BY <2>1 DEF TypeOK
  <1>7. stood' \subseteq Transfer BY DEF TypeOK, Next, Witness
  <1> QED BY <1>1, <1>2, <1>3, <1>4, <1>5, <1>6, <1>7 DEF TypeOK
\* A phase keeps its row in the state it needs.
LEMMA TasksStep ==
    ASSUME IInv, Next
    PROVE  Tasks'
  <1> USE DEF IInv
  <1> SUFFICES ASSUME NEW u \in Transfer
               PROVE  /\ task'[u] \in Early => In(u, "receiving")'
                      /\ task'[u] \in Late => In(u, "publishing")'
                      /\ task'[u] = "naming" => row'[u].temporary > 0
    BY DEF Tasks
  <1>0. task \in [Transfer -> Phase] BY DEF TypeOK
  <1>1. ASSUME NEW t \in Transfer, NEW p \in Path, NEW c \in Content, Begin(t, p, c)
        PROVE  /\ task'[u] \in Early => In(u, "receiving")'
               /\ task'[u] \in Late => In(u, "publishing")'
               /\ task'[u] = "naming" => row'[u].temporary > 0
    <2>1. task' = task BY <1>1 DEF Begin
    <2>2. CASE u = t
      BY <1>1, <2>1, <2>2, BeginRows DEF Tasks, In, Early, Late
    <2>3. CASE u # t
      <3>1. row'[u] = row[u] BY <1>1, <2>3, BeginRows
      <3> QED BY <2>1, <3>1 DEF Tasks, In, Known
    <2> QED BY <2>2, <2>3
  <1>2. ASSUME NEW t \in Transfer, NEW b \in Block, Chunk(t, b)
        PROVE  /\ task'[u] \in Early => In(u, "receiving")'
               /\ task'[u] \in Late => In(u, "publishing")'
               /\ task'[u] = "naming" => row'[u].temporary > 0
    <2>1. task' = task BY <1>2 DEF Chunk
    <2>2. Known(u) => Stays(u, row[u].state) /\ row'[u].temporary = row[u].temporary
      BY <1>2, ChunkRows
    <2> QED BY <2>1, <2>2 DEF Tasks, In, Early, Late, Stays
  <1>3. ASSUME NEW t \in Transfer, NameStaging(t)
        PROVE  /\ task'[u] \in Early => In(u, "receiving")'
               /\ task'[u] \in Late => In(u, "publishing")'
               /\ task'[u] = "naming" => row'[u].temporary > 0
    <2>1. task' = [task EXCEPT ![t] = "naming"] /\ task[t] = "opened"
      BY <1>3 DEF NameStaging, Step
    <2>2. Known(u) => /\ Stays(u, row[u].state)
                      /\ row'[u].temporary = IF u = t THEN row[u].temporary + 1
                                                      ELSE row[u].temporary
      BY <1>3, NameRows
    <2>3. Known(u) => row[u].temporary \in Nat BY RowFields, UploadAssumption
    <2> QED BY <1>0, <2>1, <2>2, <2>3 DEF Tasks, In, Early, Late, Stays
  <1>4. ASSUME NEW t \in Transfer, NEW s \in State, Settles(t, s)
        PROVE  /\ task'[u] \in Early => In(u, "receiving")'
               /\ task'[u] \in Late => In(u, "publishing")'
               /\ task'[u] = "naming" => row'[u].temporary > 0
    <2>1. Known(u) => /\ Stays(u, IF u = t THEN s ELSE row[u].state)
                      /\ row'[u].temporary = row[u].temporary
      BY <1>4, SettlesRows
    <2>2. \/ task' = [task EXCEPT ![t] = "none"]
          \/ s = "publishing" /\ task[t] = "staged" /\ task' = [task EXCEPT ![t] = "publishing"]
          \/ task' = task /\ task[t] = "none"
      BY <1>4 DEF Settles, Abort, SaveIntent, Finish, ConfirmSave, Discard, Step, Free
    <2> QED BY <1>0, <2>1, <2>2 DEF Tasks, In, Early, Late, Stays
  <1>5. CASE Aside /\ UNCHANGED row
    <2>1. \/ task' = task
          \/ \E t \in Transfer :
                \/ task' = [task EXCEPT ![t] = "none"]
                \/ In(t, "receiving") /\ task' = [task EXCEPT ![t] = "opened"]
                \/ task[t] = "naming" /\ task' = [task EXCEPT ![t] = "staging"]
                \/ task[t] = "staging" /\ task' = [task EXCEPT ![t] = "staged"]
                \/ task[t] = "publishing" /\ task' = [task EXCEPT ![t] = "linking"]
                \/ task[t] = "linking" /\ task' = [task EXCEPT ![t] = "linked"]
                \/ task[t] = "linked" /\ task' = [task EXCEPT ![t] = "checked"]
                \/ In(t, "publishing") /\ task' = [task EXCEPT ![t] = "confirming"]
      BY <1>5
      DEF Aside, FileSystem, CommitStart, OpenStaging, WriteStaging, ParentStays, Link,
          VerifyPublication, Stop, ConfirmCheck, WriteFile, CreateFile, RemoveFile,
          MoveParent, ReplaceStaging, RemoveStaging, Step
    <2> QED BY <1>0, <1>5, <2>1 DEF Tasks, In, Known, Early, Late
  <1> QED BY <1>1, <1>2, <1>3, <1>4, <1>5, Steps
\* An upload links once, and not before it may.
LEMMA LinksStep ==
    ASSUME IInv, Next
    PROVE  Links'
  <1> USE DEF IInv
  <1> DEFINE Before(u) == ~Known(u) \/ In(u, "receiving") \/ task[u] \in {"publishing", "linking"}
  <1>0. task \in [Transfer -> Phase] /\ links \in [Transfer -> Nat] BY DEF TypeOK
  <1>1. ASSUME NEW u \in Transfer, Before(u)', ~Link(u)
        PROVE  Before(u)
    <2>1. CASE ~Known(u) BY <2>1
    <2>2. CASE Known(u)
      <3>1. Known(u)' BY <2>2, RowsStay DEF Stays
      <3>2. ASSUME NEW t \in Transfer, NEW p \in Path, NEW c \in Content, Begin(t, p, c)
            PROVE  Before(u)
        <4>1. row'[u] = row[u] /\ task' = task BY <2>2, <3>2, BeginRows DEF Begin
        <4> QED BY <1>1, <4>1 DEF Known, In
      <3>3. ASSUME NEW t \in Transfer, NEW b \in Block, Chunk(t, b)
            PROVE  Before(u)
        <4>1. task' = task BY <3>3 DEF Chunk
        <4>2. row'[u].state = row[u].state BY <2>2, <3>3, ChunkRows DEF Stays
        <4> QED BY <1>1, <2>2, <3>1, <4>1, <4>2 DEF In
      <3>4. ASSUME NEW t \in Transfer, NameStaging(t)
            PROVE  Before(u)
        <4>1. task' = [task EXCEPT ![t] = "naming"] BY <3>4 DEF NameStaging, Step
        <4>2. row'[u].state = row[u].state BY <2>2, <3>4, NameRows DEF Stays
        <4> QED BY <1>0, <1>1, <2>2, <3>1, <4>1, <4>2 DEF In
      <3>5. ASSUME NEW t \in Transfer, NEW s \in State, Settles(t, s)
            PROVE  Before(u)
        <4>1. row'[u].state = IF u = t THEN s ELSE row[u].state
          BY <2>2, <3>5, SettlesRows DEF Stays
        <4>2. \/ task' = [task EXCEPT ![t] = "none"]
              \/ task[t] = "staged" /\ task' = [task EXCEPT ![t] = "publishing"]
              \/ task' = task
          BY <3>5 DEF Settles, Abort, SaveIntent, Finish, ConfirmSave, Discard, Step
        <4>3. s # "receiving" BY <3>5 DEF Settles
        <4> QED BY <1>0, <1>1, <2>2, <3>1, <4>1, <4>2, <4>3 DEF In, Tasks, Early
      <3>6. CASE Aside /\ UNCHANGED row
        <4>1. task'[u] \in {"publishing", "linking"} => task[u] \in {"publishing", "linking"}
          BY <1>0, <3>6
          DEF Aside, FileSystem, CommitStart, OpenStaging, WriteStaging, ParentStays, Link,
              VerifyPublication, Stop, ConfirmCheck, WriteFile, CreateFile, RemoveFile,
              MoveParent, ReplaceStaging, RemoveStaging, Step
        <4> QED BY <1>1, <3>6, <4>1 DEF Known, In
      <3> QED BY <3>2, <3>3, <3>4, <3>5, <3>6, Steps
    <2> QED BY <2>1, <2>2
  <1>2. ASSUME NEW t \in Transfer, Link(t)
        PROVE  /\ links[t] = 0 /\ links' = [links EXCEPT ![t] = @ + 1]
               /\ ~Before(t)' /\ \A u \in Transfer \ {t} : ~Link(u)
    <2>1. In(t, "publishing") /\ row' = row /\ task' = [task EXCEPT ![t] = "linked"]
      BY <1>2 DEF Link, Tasks, Late, Step
    <2>2. task[t] = "linking" /\ links' = [links EXCEPT ![t] = @ + 1]
      BY <1>2 DEF Link
    <2>3. \A u \in Transfer \ {t} : ~Link(u)
      BY <1>0, <2>1 DEF Link, Step
    <2> QED BY <1>0, <2>1, <2>2, <2>3 DEF Links, In, Known
  <1>3. (\A t \in Transfer : ~Link(t)) => links' = links
    BY DEF Next, Call, FileSystem, Begin, Chunk, Abort, CommitStart, NameStaging,
           OpenStaging, WriteStaging, SaveIntent, ParentStays, VerifyPublication,
           Finish, Stop, ConfirmCheck, ConfirmSave, Discard,
           WriteFile, CreateFile, RemoveFile, MoveParent, ReplaceStaging, RemoveStaging
  <1>4. \A u \in Transfer : links[u] \in {0, 1} /\ (Before(u) => links[u] = 0)
    BY DEF Links
  <1>5. ASSUME NEW u \in Transfer
        PROVE  links'[u] \in {0, 1} /\ (Before(u)' => links'[u] = 0)
    <2> HIDE DEF Before
    <2>1. CASE Link(u) BY <1>0, <1>2, <2>1
    <2>2. CASE ~Link(u)
      <3>1. links'[u] = links[u] BY <1>0, <1>2, <1>3, <2>2
      <3> QED BY <1>1, <1>4, <2>2, <3>1
    <2> QED BY <2>1, <2>2
  <1> QED BY <1>5 DEF Links

\* A file an upload made is where its row says.
LEMMA FilesStep ==
    ASSUME IInv, Next
    PROVE  Files'
  <1> USE DEF IInv
  <1> SUFFICES ASSUME NEW w \in Dir \X Path, NEW t \in Transfer, NEW c \in Content \cup {Other},
                      file'[w] = <<c, t>>
               PROVE  Known(t)' /\ w = At(t)'
    BY DEF Files
  <1>0. file \in [Dir \X Path -> File \cup {None}] /\ None \notin Transfer
    BY UploadAssumption DEF TypeOK
  <1>1. file[w] = <<c, t>> => Known(t)' /\ w = At(t)'
    BY RowsStay DEF Files, Stays
  <1>2. ASSUME NEW u \in Transfer, Link(u)
        PROVE  Known(t)' /\ w = At(t)'
    <2>1. Known(u) /\ At(u) \in Dir \X Path
      BY <1>2, RowFields DEF Link, Tasks, Late, In
    <2>2. CASE w = At(u)
      <3>1. t = u BY <1>0, <1>2, <2>1, <2>2 DEF Link
      <3> QED BY <2>1, <2>2, <3>1, RowsStay DEF Stays
    <2>3. CASE w # At(u)
      <3>1. file'[w] = file[w] BY <1>0, <1>2, <2>1, <2>3 DEF Link
      <3> QED BY <1>1, <3>1
    <2> QED BY <2>2, <2>3
  <1>3. ASSUME NEW q \in Path, WriteFile(q) \/ RemoveFile(q)
        PROVE  Known(t)' /\ w = At(t)'
    <2>1. file'[w] \in {file[w], <<Other, None>>, None}
      BY <1>0, <1>3 DEF WriteFile, RemoveFile
    <2>2. None # <<c, t>> BY UploadAssumption
    <2> QED BY <1>0, <1>1, <2>1, <2>2
  <1>4. ASSUME NEW q \in Path, NEW d \in Content, CreateFile(q, d)
        PROVE  Known(t)' /\ w = At(t)'
    <2>1. file'[w] \in {file[w], <<d, None>>}
      BY <1>0, <1>4 DEF CreateFile
    <2> QED BY <1>0, <1>1, <2>1
  <1>5. \/ UNCHANGED file
        \/ \E u \in Transfer : Link(u)
        \/ \E q \in Path : WriteFile(q) \/ RemoveFile(q)
        \/ \E q \in Path, d \in Content : CreateFile(q, d)
    BY DEF Next, Call, FileSystem, Begin, Chunk, Abort, CommitStart, NameStaging,
           OpenStaging, WriteStaging, SaveIntent, ParentStays,
           VerifyPublication, Finish, Stop, ConfirmCheck, ConfirmSave, Discard,
           MoveParent, ReplaceStaging, RemoveStaging, disk
  <1> QED BY <1>1, <1>2, <1>3, <1>4, <1>5
\* The staging files on disk keep the names their rows say.
LEMMA StagesStep ==
    ASSUME IInv, Next
    PROVE  Stages'
  <1> USE DEF IInv
  <1>1. (moved' = moved /\ current' = current) \/ moved'
    BY DEF Next, Call, FileSystem, Begin, Chunk, Abort, CommitStart, NameStaging,
           OpenStaging, WriteStaging, SaveIntent, ParentStays, Link,
           VerifyPublication, Finish, Stop, ConfirmCheck, ConfirmSave, Discard,
           WriteFile, CreateFile, RemoveFile, MoveParent, ReplaceStaging,
           RemoveStaging, disk
  <1>2. CASE moved' BY <1>2 DEF Stages
  <1>3. CASE ~moved'
    <2>1. ~moved /\ current' = current
      <3>1. moved => moved'
        BY DEF Next, Call, FileSystem, Begin, Chunk, Abort, CommitStart, NameStaging,
               OpenStaging, WriteStaging, SaveIntent, ParentStays, Link,
               VerifyPublication, Finish, Stop, ConfirmCheck, ConfirmSave, Discard,
               WriteFile, CreateFile, RemoveFile, MoveParent, ReplaceStaging,
               RemoveStaging, disk
      <3> QED BY <1>1, <1>3, <3>1
    <2>2. /\ \A t \in Transfer : Known(t) => row[t].parent = current
          /\ \A n \in staging : Known(n[1]) /\ n = Name(n[1])
      BY <2>1 DEF Stages
    <2>3. ASSUME NEW t \in Transfer, Known(t)'
          PROVE  row'[t].parent = current'
      <3>1. CASE Known(t) BY <2>1, <2>2, <3>1, RowsStay DEF Stays
      <3>2. CASE ~Known(t)
        <4>1. PICK p \in Path, c \in Content : Begin(t, p, c)
          BY <2>3, <3>2, RowsNew
        <4> QED BY <2>1, <4>1, BeginRows
      <3> QED BY <3>1, <3>2
    <2>4. ASSUME NEW t \in Transfer, NEW n \in staging, n[1] = t
          PROVE  Known(t)' /\ n = Name(t)'
      <3>1. Known(t) /\ n = Name(t) BY <2>2, <2>4
      <3>2. ~NameStaging(t)
        <4>1. SameParent(t) BY <2>2, <3>1 DEF SameParent
        <4> QED BY <3>1, <4>1 DEF NameStaging, StagingGone
      <3>3. Known(t)' /\ row'[t].temporary = row[t].temporary
        BY <3>1, <3>2, RowsStay DEF Stays
      <3> QED BY <3>1, <3>3 DEF Name
    <2>5. ASSUME NEW n \in staging'
          PROVE  Known(n[1])' /\ n = Name(n[1])'
      <3>1. CASE n \in staging
        <4>1. PICK t \in Transfer : n[1] = t BY <3>1 DEF TypeOK
        <4>2. Known(t)' /\ n = Name(t)' BY <2>4, <3>1, <4>1
        <4> QED BY <4>1, <4>2
      <3>2. ASSUME NEW t \in Transfer, OpenStaging(t), n = Name(t)
            PROVE  Known(n[1])' /\ n = Name(n[1])'
        <4>1. n[1] = t /\ Known(t) /\ row' = row
          BY <3>2 DEF OpenStaging, Name, Tasks, Early, In
        <4>2. Known(t)' /\ n = Name(t)'
          BY <3>2, <4>1 DEF Known, Name
        <4> QED BY <4>1, <4>2
      <3>3. n \in staging \/ \E t \in Transfer : OpenStaging(t) /\ n = Name(t)
        BY <2>5
        DEF Next, Call, FileSystem, Begin, Chunk, Abort, CommitStart, NameStaging,
            OpenStaging, WriteStaging, SaveIntent, ParentStays, Link,
            VerifyPublication, Finish, Stop, ConfirmCheck, ConfirmSave, Discard,
            WriteFile, CreateFile, RemoveFile, MoveParent, ReplaceStaging,
            RemoveStaging, disk, Staged
      <3> QED BY <3>1, <3>2, <3>3
    <2> QED BY <2>3, <2>5 DEF Stages
  <1> QED BY <1>2, <1>3
\* What is recorded as complete, or about to be, has stood.
LEMMA StoodStep ==
    ASSUME IInv, Next
    PROVE  Stood'
  <1> USE DEF IInv
  <1>0. task \in [Transfer -> Phase] BY DEF TypeOK
  <1>1. stood' = stood \cup {t \in Transfer : Stands(t)'} BY DEF Next, Witness
  <1> SUFFICES ASSUME NEW u \in Transfer, In(u, "complete")' \/ task'[u] \in {"checked", "confirming"}
               PROVE  u \in stood'
    BY DEF Stood
  <1> DEFINE Due == In(u, "complete") \/ task[u] \in {"checked", "confirming"}
  <1>2. Due => u \in stood' BY <1>1 DEF Stood
  <1>3. ASSUME VerifyPublication(u) \/ ConfirmCheck(u)
        PROVE  u \in stood'
    <2>1. /\ In(u, "publishing") /\ Matches(u)
          /\ row' = row /\ file' = file
      <3>1. VerifyPublication(u) => In(u, "publishing") BY DEF VerifyPublication, Tasks, Late
      <3>2. VerifyPublication(u) => Matches(u) BY DEF VerifyPublication, Matches
      <3> QED BY <1>3, <3>1, <3>2 DEF VerifyPublication, ConfirmCheck, disk
    <2>2. Stands(u)' BY <2>1 DEF Stands, In, Known, Matches, At
    <2> QED BY <1>1, <2>2
  <1>4. ASSUME NEW t \in Transfer, NEW p \in Path, NEW c \in Content, Begin(t, p, c)
        PROVE  Due
    <2>1. task' = task BY <1>4 DEF Begin
    <2>2. CASE t = u BY <1>4, <2>1, <2>2, BeginRows DEF In
    <2>3. CASE t # u
      <3>1. row'[u] = row[u] BY <1>4, <2>3, BeginRows
      <3> QED BY <2>1, <3>1 DEF In, Known
    <2> QED BY <2>2, <2>3
  <1>5. ASSUME Known(u), row'[u].state = row[u].state, task'[u] \in {task[u], "naming"}
        PROVE  Due
    BY <1>5 DEF In
  <1>6. ASSUME NEW t \in Transfer, NEW b \in Block, Chunk(t, b), Known(u)
        PROVE  Due
    <2>1. row'[u].state = row[u].state /\ task' = task
      BY <1>6, ChunkRows DEF Stays, Chunk
    <2> QED BY <1>5, <1>6, <2>1
  <1>7. ASSUME NEW t \in Transfer, NameStaging(t), Known(u)
        PROVE  Due
    <2>1. row'[u].state = row[u].state BY <1>7, NameRows DEF Stays
    <2>2. task' = [task EXCEPT ![t] = "naming"] BY <1>7 DEF NameStaging, Step
    <2> QED BY <1>0, <1>5, <1>7, <2>1, <2>2
  <1>8. ASSUME NEW t \in Transfer, NEW s \in State, Settles(t, s), Known(u)
        PROVE  Due
    <2>1. row'[u].state = IF u = t THEN s ELSE row[u].state
      BY <1>8, SettlesRows DEF Stays
    <2>2. /\ \A v \in Transfer : task'[v] \in {"checked", "confirming"} => task[v] = task'[v]
          /\ s = "complete" => task[t] \in {"checked", "confirming"}
      BY <1>0, <1>8
      DEF Settles, Abort, SaveIntent, Finish, ConfirmSave, Discard, Step
    <2> QED BY <1>8, <2>1, <2>2 DEF In
  <1>9. ASSUME Aside /\ UNCHANGED row
        PROVE  Due \/ VerifyPublication(u) \/ ConfirmCheck(u)
    <2>1. \/ task'[u] = task[u] \/ task'[u] \notin {"checked", "confirming"}
          \/ VerifyPublication(u) \/ ConfirmCheck(u)
      BY <1>0, <1>9
      DEF Aside, FileSystem, CommitStart, OpenStaging, WriteStaging, ParentStays, Link,
          VerifyPublication, Stop, ConfirmCheck, WriteFile, CreateFile, RemoveFile,
          MoveParent, ReplaceStaging, RemoveStaging, Step
    <2> QED BY <1>9, <2>1 DEF In, Known
  <1>10. Known(u) \/ \E p \in Path, c \in Content : Begin(u, p, c)
    <2>1. Known(u)'
      <3>1. Tasks' /\ task'[u] \in {"checked", "confirming"} => Known(u)'
        BY DEF Tasks, Late, In
      <3> QED BY <3>1, TasksStep DEF In
    <2> QED BY <2>1, RowsNew
  <1> HIDE DEF Due
  <1> QED BY <1>2, <1>3, <1>4, <1>6, <1>7, <1>8, <1>9, <1>10, Steps
\* Reservations are taken by begin only, one at a time.
LEMMA ReservedStep ==
    ASSUME IInv, Next
    PROVE  Reserved'
  <1> USE DEF IInv
  <1>1. IsFiniteSet(Unsettled) /\ Cardinality(Unsettled) \in Nat
    <2>1. IsFiniteSet(Transfer) /\ Unsettled \subseteq Transfer
      BY UploadAssumption DEF Unsettled
    <2> QED BY <2>1, FS_Subset, FS_CardinalityType
  <1>2. ASSUME NEW t \in Transfer, NEW p \in Path, NEW c \in Content, Begin(t, p, c)
        PROVE  Reserved'
    <2>1. t \notin Unsettled BY <1>2 DEF Begin, Unsettled, In
    <2>2. Unsettled' = Unsettled \cup {t}
      <3>1. \A u \in Transfer \ {t} : row'[u] = row[u] BY <1>2, BeginRows
      <3>2. In(t, "receiving")' BY <1>2, BeginRows
      <3> QED BY <3>1, <3>2 DEF Unsettled, In, Known
    <2>3. Cardinality(Unsettled') <= MaxUploads
      <3>1. Active = Unsettled BY DEF Active, Unsettled
      <3>2. Cardinality(Unsettled) < MaxUploads BY <1>2, <3>1 DEF Begin
      <3>3. Cardinality(Unsettled') = Cardinality(Unsettled) + 1
        BY <1>1, <2>1, <2>2, FS_AddElement
      <3> QED BY <1>1, <3>2, <3>3, UploadAssumption
    <2>4. ASSUME NEW u \in Unsettled', NEW v \in Unsettled', row'[u].path = row'[v].path
          PROVE  u = v
      <3>1. \A x \in Unsettled : row'[x] = row[x] /\ row[x].path # p
        BY <1>2, <2>1, BeginRows DEF Begin, Active, Unsettled
      <3>2. row'[t].path = p BY <1>2, BeginRows
      <3> QED BY <2>2, <2>4, <3>1, <3>2 DEF Reserved
    <2> QED BY <2>3, <2>4 DEF Reserved
  <1>3. ASSUME \A t \in Transfer, p \in Path, c \in Content : ~Begin(t, p, c)
        PROVE  Reserved'
    <2>1. ASSUME NEW u \in Unsettled'
          PROVE  u \in Unsettled /\ row'[u].path = row[u].path
      <3>1. u \in Transfer /\ Known(u)' BY <2>1 DEF Unsettled, In
      <3>2. Known(u) BY <1>3, <3>1, RowsNew
      <3>3. row'[u].path = row[u].path BY <3>1, <3>2, RowsStay DEF Stays
      <3>4. \/ row'[u].state = row[u].state
            \/ \E s \in State : Settles(u, s) /\ row'[u].state = s
        BY <1>3, <3>1, <3>2, Steps, ChunkRows, NameRows, SettlesRows DEF Stays
      <3>5. CASE row'[u].state = row[u].state
        BY <2>1, <3>2, <3>3, <3>5 DEF Unsettled, In
      <3>6. ASSUME NEW s \in State, Settles(u, s), row'[u].state = s
            PROVE  u \in Unsettled
        <4>1. s = "publishing" BY <2>1, <3>6 DEF Unsettled, In, Settles
        <4>2. In(u, "receiving") BY <3>1, <3>6, <4>1 DEF Settles, SaveIntent, Tasks, Early
        <4> QED BY <3>1, <4>2 DEF Unsettled
      <3> QED BY <3>3, <3>4, <3>5, <3>6
    <2>2. Cardinality(Unsettled') <= Cardinality(Unsettled) /\ Cardinality(Unsettled') \in Nat
      <3>1. Unsettled' \subseteq Unsettled BY <2>1
      <3> QED BY <1>1, <3>1, FS_Subset, FS_CardinalityType
    <2> QED BY <1>1, <2>1, <2>2, UploadAssumption DEF Reserved
  <1> QED BY <1>2, <1>3

-----------------------------------------------------------------------------
(* The theorems. *)

\* The invariant holds at the start.
LEMMA Starts == Init => IInv
  <1> SUFFICES ASSUME Init PROVE IInv OBVIOUS
  <1>1. \A t \in Transfer : ~Known(t) /\ task[t] = "none" /\ links[t] = 0
    BY DEF Init, Known
  <1>2. Unsettled = {} BY <1>1 DEF Unsettled, In
  <1>3. TypeOK BY DEF Init, TypeOK, Phase
  <1>4. Tasks /\ Links /\ Stages /\ Stood
    BY <1>1 DEF Init, Tasks, Links, Stages, Stood, Early, Late, In
  <1>5. Files
    <2>1. \A w \in Dir \X Path : file[w] = None BY DEF Init
    <2>2. \A t \in Transfer, c \in Content \cup {Other} : None # <<c, t>>
      BY UploadAssumption
    <2> QED BY <2>1, <2>2 DEF Files
  <1>6. Reserved BY <1>2, FS_EmptySet, UploadAssumption DEF Reserved
  <1> QED BY <1>3, <1>4, <1>5, <1>6 DEF IInv

\* Every step keeps it.
LEMMA StepsKeep == IInv /\ [Next]_vars => IInv'
  <1>1. ASSUME IInv, Next PROVE IInv'
    BY <1>1, TypeStep, TasksStep, LinksStep, FilesStep, StagesStep, StoodStep, ReservedStep
    DEF IInv
  <1>2. ASSUME IInv, UNCHANGED vars PROVE IInv'
    BY <1>2 DEF vars, IInv, TypeOK, Tasks, Links, Files, Stages, Stood, Reserved,
                Unsettled, In, Known, At, Name
  <1> QED BY <1>1, <1>2

\* The inductive invariant holds in every reachable state, for every set of
\* transfers, contents and directories and every limit.
THEOREM UploadsInductive == Spec => []IInv
  BY Starts, StepsKeep, PTL DEF Spec

\* Every variable keeps its type (Uploads.__init__).
THEOREM UploadsTypeCorrect == Spec => []TypeOK
  <1>1. IInv => TypeOK BY DEF IInv
  <1> QED BY <1>1, UploadsInductive, PTL

\* An upload makes one file at most, at its own destination, whatever crashes,
\* is retried, removed or moved (commit, resolve).
THEOREM PublishesOnce == Spec => []PublishedOnce
  <1>1. IInv => PublishedOnce
    <2> SUFFICES ASSUME IInv, NEW t \in Transfer
                 PROVE  /\ links[t] <= 1
                        /\ \A w \in Dir \X Path :
                              file[w] \in {<<c, t>> : c \in Content \cup {Other}} => w = At(t)
      BY DEF PublishedOnce
    <2>1. links[t] <= 1 BY DEF IInv, Links
    <2> QED BY <2>1 DEF IInv, Files
  <1> QED BY <1>1, UploadsInductive, PTL

\* publication_verified is said only of content that stood at its destination
\* (commit, resolve).
THEOREM CompleteMeansStood == Spec => []CompleteStood
  <1>1. IInv => CompleteStood BY DEF IInv, Stood, CompleteStood
  <1> QED BY <1>1, UploadsInductive, PTL

\* While the parent stays, the status names every staging file (commit).
THEOREM StagingIsKnown == Spec => []StagingKnown
  <1>1. IInv => StagingKnown BY DEF IInv, Stages, StagingKnown
  <1> QED BY <1>1, UploadsInductive, PTL

\* Destinations are reserved for one active upload each, and never more than
\* the limit (begin).
THEOREM DestinationsReserved == Spec => []Reserved
  <1>1. IInv => Reserved BY DEF IInv
  <1> QED BY <1>1, UploadsInductive, PTL

-----------------------------------------------------------------------------
(* Saves (DeviceSave).  Every write the journal knows is in one place: it is
   about to be sent by one runner, or under way, or received; and what a runner
   has seen of the upload stays true. *)

\* the device has not received write w
Away(w) == sent[w] = 0 \/ \E m \in wire : m[1] = w
\* a commit has got as far as its first phase
Busy == In(Save, "publishing") \/ In(Save, "complete") \/ ~Free(Save)

\* what the device has done for the save it was sent, and has received
Arrived ==
    /\ Known(Save) => /\ ~Away(Begun) /\ row[Save].path = Target
                      /\ Len(row[Save].chunks) <= Len(row[Save].content)
    /\ In(Save, "receiving") =>
          \A n \in Offset : n < Len(row[Save].chunks) => ~Away(<<"chunk", n>>)
    /\ Busy => ~Away(Committed)

\* what a runner has seen of the upload holds, or more does
SeenTrue(k) ==
    k.seen # None =>
       /\ Known(Save) /\ row[Save].content = k.content
       /\ k.seen.state = "receiving" =>
             /\ \A n \in Offset : n < k.seen.received => ~Away(<<"chunk", n>>)
             /\ In(Save, "receiving") => k.seen.received <= Len(row[Save].chunks)
       /\ k.seen.state = "complete" => In(Save, "complete")

Holding == {"dispatched", "cleared"}
Sent == Holding \cup {"calling"}
Reading == {"verified", "beginning", "asking", "allowed", "observed", "writing",
            "dispatched", "cleared", "calling"}

\* what a runner works with is the verified source; the write it is about to
\* send is the uncertain one, and was not sent before
Working(k) ==
    /\ k.phase # "idle" => stage # "none"
    /\ k.phase \in {"downloaded", "spooled"} => k.content # None
    /\ k.phase \in Reading => k.content = source /\ source # None
    /\ k.phase = "writing" => k.seen # None
    /\ k.seen # None => k.phase \in {"observed", "writing"} \cup Sent
    /\ k.phase \in Holding =>
          /\ k.write # None /\ k.write = pending /\ sent[k.write] = 0
          /\ k.write[1] = "chunk" => k.write[2] < Len(k.content)

Runs ==
    /\ \A r \in Runner : SeenTrue(run[r]) /\ Working(run[r])
    /\ \A r, q \in Runner :
          run[r].phase \in Holding /\ run[q].phase \in Holding => r = q

\* one write is under way at most, the uncertain one
Wired ==
    /\ \A m \in wire : /\ m[1] = pending /\ sent[m[1]] = 1
                       /\ m[1][1] = "chunk" => m[1][2] < Len(m[2])
    /\ \A m, n \in wire : m = n

Counted == \A w \in Writes : sent[w] <= 1 /\ (steps[w] = "absent" => sent[w] = 0)

Journal ==
    /\ pending = Committed <=> stage \in {"commit_unknown", "completed"}
    /\ pending # None => steps[pending] # "absent"
    /\ stage = "completed" => In(Save, "complete") /\ row[Save].content = source

SaveInv == SaveTypeOK /\ Arrived /\ Runs /\ Wired /\ Counted /\ Journal /\ VerifiedTookEffect

\* The writes, told apart.
LEMMA WriteKinds ==
    /\ Begun \in Writes /\ Committed \in Writes /\ Begun # Committed
    /\ \A n : Begun # <<"chunk", n>> /\ Committed # <<"chunk", n>>
    /\ Begun[1] # "chunk" /\ Committed[1] # "chunk"
    /\ \A n \in Offset : <<"chunk", n>> \in Writes
    /\ \A w \in Writes : w = Begun \/ w = Committed \/ \E n \in Offset : w = <<"chunk", n>>
    /\ None \notin Writes /\ None \notin Content
    /\ Offset \subseteq Nat /\ \A c \in Content : Len(c) \in Nat /\ Len(c) <= MaxBytes
  <1>1. \A c \in Content : Len(c) \in Nat /\ Len(c) <= MaxBytes
    BY UploadAssumption, SaveAssumption
  <1>2. Offset \subseteq Nat BY UploadAssumption DEF Offset
  <1>3. None \notin Writes /\ None \notin Content BY MarkerAssumption
  <1>4. /\ Begun \in Writes /\ Committed \in Writes /\ Begun # Committed
        /\ \A n : Begun # <<"chunk", n>> /\ Committed # <<"chunk", n>>
        /\ Begun[1] # "chunk" /\ Committed[1] # "chunk"
        /\ \A n \in Offset : <<"chunk", n>> \in Writes
    BY DEF Writes, Begun, Committed
  <1>5. \A w \in Writes : w = Begun \/ w = Committed \/ \E n \in Offset : w = <<"chunk", n>>
    BY DEF Writes
  <1> QED BY <1>1, <1>2, <1>3, <1>4, <1>5

\* What a step of the device may do when no message of the save is served.
Calm ==
    /\ Known(Save)' <=> Known(Save)
    /\ Known(Save) => /\ row'[Save].path = row[Save].path
                      /\ row'[Save].content = row[Save].content
                      /\ row'[Save].chunks \in {row[Save].chunks, << >>}
    /\ In(Save, "receiving")' =>
          In(Save, "receiving") /\ row'[Save].chunks = row[Save].chunks
    /\ In(Save, "complete") => In(Save, "complete")'
    /\ Busy' => Busy

\* A commit that is under way, its owner and the file system only go on from
\* what the device was sent before.
LEMMA CalmSteps ==
    ASSUME IInv, Commit \/ Owner \/ FileSystem
    PROVE  Calm
  <1> USE SaveAssumption
  <1>0. TypeOK /\ Tasks /\ Save \in Transfer BY DEF IInv
  <1>t. task \in [Transfer -> Phase] BY <1>0 DEF TypeOK
  <1>1. ASSUME NEW s \in State, Settles(Save, s) PROVE Calm
    <2>1. /\ s \in {"aborted", "publishing", "complete", "discarded"}
          /\ Known(Save) /\ ~In(Save, "complete")
          /\ s # "aborted" => Busy
          /\ s = "aborted" => Free(Save) /\ task' = task
      BY <1>0, <1>1 DEF Settles, Abort, SaveIntent, Finish, ConfirmSave, Discard, Tasks,
                        Early, Late, In, Busy, Free
    <2>2. Stays(Save, s) BY <1>0, <1>1, <2>1, SettlesRows
    <2>3. s = "aborted" => ~Busy' BY <2>1, <2>2 DEF Busy, Stays, In, Free
    <2>4. row'[Save].chunks \in {row[Save].chunks, << >>}
      <3>1. row[Save] \in Row BY <1>0, <2>1, RowFields
      <3> DEFINE k == [row[Save] EXCEPT !.state = s, !.chunks = << >>]
                 j == [row[Save] EXCEPT !.state = s]
      <3>2. k.chunks = << >> /\ j.chunks = row[Save].chunks BY <3>1 DEF Row
      <3>3. row'[Save] \in {j, k}
        BY <1>0, <1>1 DEF Settles, Abort, SaveIntent, Finish, ConfirmSave, Discard,
                          Settle, SetState, TypeOK
      <3> HIDE DEF k, j
      <3> QED BY <3>2, <3>3
    <2> QED BY <2>1, <2>2, <2>3, <2>4 DEF Calm, Stays, In
  <1>2. ASSUME NameStaging(Save) PROVE Calm
    <2>1. Known(Save) /\ Busy BY <1>0, <1>2 DEF NameStaging, Tasks, Early, In, Busy, Free
    <2>2. Stays(Save, row[Save].state) BY <1>0, <1>2, <2>1, NameRows
    <2>3. row'[Save].chunks = row[Save].chunks
      <3>1. row[Save] \in Row BY <1>0, <2>1, RowFields
      <3> DEFINE k == [row[Save] EXCEPT !.temporary = @ + 1]
      <3>2. k.chunks = row[Save].chunks BY <3>1 DEF Row
      <3>3. row'[Save] = k BY <1>0, <1>2 DEF NameStaging, TypeOK
      <3> QED BY <3>2, <3>3
    <2> QED BY <2>1, <2>2, <2>3 DEF Calm, Stays, In
  <1>3. ASSUME UNCHANGED row, Busy' => Busy PROVE Calm
    BY <1>3 DEF Calm, In, Known
  <1>4. ASSUME UNCHANGED row, ~Free(Save) \/ In(Save, "publishing") \/ UNCHANGED task
        PROVE Calm
    <2>1. Busy' => Busy BY <1>4 DEF Busy, Free, In, Known
    <2> QED BY <1>3, <1>4, <2>1
  <1>5. CASE \/ OpenStaging(Save) \/ WriteStaging(Save) \/ ParentStays(Save) \/ Link(Save)
             \/ VerifyPublication(Save) \/ Stop(Save) \/ ConfirmCheck(Save) \/ FileSystem
    <2>1. UNCHANGED row /\ (~Free(Save) \/ In(Save, "publishing") \/ UNCHANGED task)
      BY <1>5 DEF OpenStaging, WriteStaging, ParentStays, Link, VerifyPublication, Stop,
                  ConfirmCheck, FileSystem, WriteFile, CreateFile, RemoveFile, MoveParent,
                  ReplaceStaging, RemoveStaging, Free
    <2> QED BY <1>4, <2>1
  <1> QED
    BY <1>1, <1>2, <1>5 DEF Commit, Owner, Settles, State

\* What a step of the device keeps of the upload of the save.
Onward ==
    Known(Save) =>
       /\ Known(Save)' /\ row'[Save].content = row[Save].content
       /\ In(Save, "receiving")' =>
             In(Save, "receiving") /\ Len(row[Save].chunks) <= Len(row'[Save].chunks)
       /\ In(Save, "complete") => In(Save, "complete")'

\* A step of the device, with or without a write that arrives, keeps what the
\* runners and the journal say.
LEMMA DeviceKeeps ==
    ASSUME IInv, TypeOK', SaveInv, UNCHANGED <<journal, spool, run, sent>>, wire' \subseteq wire,
           Arrived', Onward
    PROVE  SaveInv'
  <1> USE DEF SaveInv
  <1>0. \A w : ~Away(w) => ~Away(w)' BY DEF Away
  <1>1. SaveTypeOK' BY DEF SaveTypeOK, journal
  <1>2. Runs'
    <2>1. ASSUME NEW r \in Runner PROVE SeenTrue(run[r])'
      <3>0. run' = run /\ SeenTrue(run[r]) BY DEF Runs
      <3>1. run[r].seen # None => Known(Save) /\ row[Save].content = run[r].content
        BY <3>0 DEF SeenTrue
      <3>2. run[r].seen # None => Known(Save)' /\ row'[Save].content = run[r].content
        BY <3>1 DEF Onward
      <3>3. ASSUME run[r].seen # None, run[r].seen.state = "receiving"
            PROVE  /\ \A n \in Offset : n < run[r].seen.received => ~Away(<<"chunk", n>>)'
                   /\ In(Save, "receiving")' => run[r].seen.received <= Len(row'[Save].chunks)
        <4>1. \A n \in Offset : n < run[r].seen.received => ~Away(<<"chunk", n>>)'
          BY <1>0, <3>0, <3>3 DEF SeenTrue
        <4>2. ASSUME In(Save, "receiving")'
              PROVE  run[r].seen.received <= Len(row'[Save].chunks)
          <5>1. /\ In(Save, "receiving") /\ Len(row[Save].chunks) <= Len(row'[Save].chunks)
            BY <3>1, <3>3, <4>2 DEF Onward
          <5>2. run[r].seen.received <= Len(row[Save].chunks)
            BY <3>0, <3>3, <5>1 DEF SeenTrue
          <5>3. run[r].seen.received \in Nat
            BY <3>3, UploadAssumption DEF SaveTypeOK, Seen, Offset
          <5>4. Len(row[Save].chunks) \in Nat
            BY <3>1, <3>3, RowFields, SaveAssumption DEF IInv
          <5>5. Len(row'[Save].chunks) \in Nat
            <6>1. row'[Save] \in Row BY <4>2, SaveAssumption DEF TypeOK, In, Known
            <6> QED BY <6>1 DEF Row
          <5> QED BY <5>1, <5>2, <5>3, <5>4, <5>5
        <4> QED BY <4>1, <4>2
      <3>4. run[r].seen # None /\ run[r].seen.state = "complete" => In(Save, "complete")'
        BY <3>0, <3>1 DEF SeenTrue, Onward
      <3> QED BY <3>0, <3>2, <3>3, <3>4 DEF SeenTrue
    <2>2. ASSUME NEW r \in Runner PROVE Working(run[r])'
      BY DEF journal, Runs, Working
    <2> QED BY <2>1, <2>2 DEF Runs
  <1>3. Wired' /\ Counted' BY DEF Wired, Counted, journal
  <1>4. Journal'
    BY DEF Journal, Onward, In, journal
  <1>5. VerifiedTookEffect'
    <2> SUFFICES ASSUME NEW w \in Writes, steps[w] = "verified"
                 PROVE  /\ Known(Save)' /\ row'[Save].content = source
                        /\ w[1] = "chunk" /\ In(Save, "receiving")' =>
                              Len(row'[Save].chunks) >= End(w)
                        /\ w = Committed => In(Save, "complete")'
      BY DEF VerifiedTookEffect, journal
    <2>1. /\ Known(Save) /\ row[Save].content = source
          /\ w[1] = "chunk" /\ In(Save, "receiving") => Len(row[Save].chunks) >= End(w)
          /\ w = Committed => In(Save, "complete")
      BY DEF VerifiedTookEffect
    <2>2. /\ Known(Save)' /\ row'[Save].content = source
          /\ w = Committed => In(Save, "complete")'
      BY <2>1 DEF Onward
    <2>3. ASSUME w[1] = "chunk", In(Save, "receiving")'
          PROVE  Len(row'[Save].chunks) >= End(w)
      <3>1. /\ Len(row[Save].chunks) >= End(w) /\ Len(row[Save].chunks) <= Len(row'[Save].chunks)
        BY <2>1, <2>3 DEF Onward
      <3>2. End(w) \in Nat
        BY <2>3, WriteKinds DEF End, Writes, Begun, Committed, Offset
      <3>3. Len(row[Save].chunks) \in Nat
        BY <2>1, RowFields, SaveAssumption DEF IInv
      <3>4. Len(row'[Save].chunks) \in Nat
        <4>1. row'[Save] \in Row BY <2>3, SaveAssumption DEF TypeOK, In, Known
        <4> QED BY <4>1 DEF Row
      <3> QED BY <3>1, <3>2, <3>3, <3>4
    <2> QED BY <2>2, <2>3
  <1> QED BY <1>1, <1>2, <1>3, <1>4, <1>5

\* A commit, its owner and the file system keep the invariant of the save.
LEMMA CalmKeeps ==
    ASSUME IInv, TypeOK', SaveInv, Commit \/ Owner \/ FileSystem, UNCHANGED saveVars
    PROVE  SaveInv'
  <1>1. Calm BY CalmSteps
  <1>2. \A w : Away(w)' <=> Away(w) BY DEF Away, saveVars
  <1>3. Onward
    <2>1. Known(Save) => Len(row[Save].chunks) \in Nat
      BY RowFields, SaveAssumption DEF IInv
    <2> QED BY <1>1, <2>1 DEF Calm, Onward
  <1>4. Arrived'
    <2>1. ASSUME Known(Save)'
          PROVE  /\ ~Away(Begun)' /\ row'[Save].path = Target
                 /\ Len(row'[Save].chunks) <= Len(row'[Save].content)
      <3>1. /\ ~Away(Begun) /\ row[Save].path = Target
            /\ Len(row[Save].chunks) <= Len(row[Save].content)
            /\ row[Save].content \in Content
        BY <1>1, <2>1, RowFields, SaveAssumption DEF SaveInv, Arrived, Calm, IInv
      <3>2. /\ row'[Save].path = row[Save].path /\ row'[Save].content = row[Save].content
            /\ row'[Save].chunks \in {row[Save].chunks, << >>}
        BY <1>1, <2>1 DEF Calm
      <3>3. Len(<< >>) = 0 /\ Len(row[Save].content) \in Nat BY <3>1, WriteKinds
      <3> QED BY <1>2, <3>1, <3>2, <3>3
    <2>2. In(Save, "receiving")' =>
             \A n \in Offset : n < Len(row'[Save].chunks) => ~Away(<<"chunk", n>>)'
      BY <1>1, <1>2 DEF SaveInv, Arrived, Calm
    <2>3. Busy' => ~Away(Committed)' BY <1>1, <1>2 DEF SaveInv, Arrived, Calm
    <2> QED BY <2>1, <2>2, <2>3 DEF Arrived
  <1> QED BY <1>3, <1>4, DeviceKeeps DEF saveVars, journal

-----------------------------------------------------------------------------
(* The device receives a write. *)

\* Begin makes a row without chunks.
LEMMA BeginChunks ==
    ASSUME TypeOK, NEW t \in Transfer, NEW p \in Path, NEW c \in Content, Begin(t, p, c)
    PROVE  row'[t].chunks = << >>
  BY DEF Begin, TypeOK

\* Chunk adds a block, while an upload is received.
LEMMA ChunkChunks ==
    ASSUME TypeOK, NEW t \in Transfer, NEW b \in Block, Chunk(t, b)
    PROVE  /\ In(t, "receiving") /\ row[t].chunks \in Seq(Block)
           /\ row'[t].chunks = Append(row[t].chunks, b)
           /\ Len(row'[t].chunks) = Len(row[t].chunks) + 1
  <1>1. Known(t) BY DEF Chunk, In
  <1>2. row[t] \in Row BY <1>1, RowFields
  <1> DEFINE k == [row[t] EXCEPT !.chunks = Append(@, b)]
  <1>3. k.chunks = Append(row[t].chunks, b) BY <1>2 DEF Row
  <1>4. row'[t] = k BY DEF Chunk, TypeOK
  <1>5. row[t].chunks \in Seq(Block) BY <1>2 DEF Row
  <1>6. row'[t].chunks = Append(row[t].chunks, b)
    <2> HIDE DEF k
    <2> QED BY <1>3, <1>4
  <1> QED BY <1>5, <1>6 DEF Chunk

\* A write that arrives is the only one under way, and is under way no more.
LEMMA ArriveEmpties ==
    ASSUME SaveInv, NEW m \in wire, Arrive(m)
    PROVE  /\ wire' = {} /\ ~Away(m[1])'
           /\ \A w : ~Away(w) => ~Away(w)'
           /\ UNCHANGED <<journal, spool, run, sent>>
           /\ m \in Writes \X Content
  <1>1. wire' = {} BY DEF Arrive, SaveInv, Wired
  <1>2. sent' = sent /\ sent[m[1]] = 1 BY DEF Arrive, SaveInv, Wired
  <1>3. UNCHANGED <<journal, spool, run, sent>> BY DEF Arrive
  <1>4. m \in Writes \X Content BY DEF SaveInv, SaveTypeOK
  <1> QED BY <1>1, <1>2, <1>3, <1>4 DEF Away

\* A write that takes effect keeps the invariant of the save.
LEMMA ServeKeeps ==
    ASSUME IInv, TypeOK', SaveInv, NEW m \in wire, Serve(m)
    PROVE  SaveInv'
  <1> USE SaveAssumption DEF IInv
  <1> DEFINE w == m[1]
             c == m[2]
  <1>1. /\ wire' = {} /\ ~Away(w)' /\ \A v : ~Away(v) => ~Away(v)'
        /\ UNCHANGED <<journal, spool, run, sent>>
        /\ w \in Writes /\ c \in Content
    BY ArriveEmpties DEF Serve
  <1>2. ASSUME w = Begun, Begin(Save, Target, c)
        PROVE  Arrived' /\ Onward
    <2>1. /\ Known(Save)' /\ In(Save, "receiving")' /\ ~Known(Save)
          /\ row'[Save].path = Target /\ row'[Save].chunks = << >>
          /\ row'[Save].content = c
      BY <1>1, <1>2, BeginRows, BeginChunks
    <2>2. task' = task BY <1>2 DEF Begin
    <2>3. Busy' => ~Away(Committed)'
      BY <1>1, <2>1, <2>2 DEF Busy, In, Free, SaveInv, Arrived
    <2>4. \A n \in Offset : n < Len(row'[Save].chunks) => FALSE
      BY <2>1, WriteKinds
    <2>5. Len(row'[Save].chunks) <= Len(row'[Save].content)
      <3>1. Len(<< >>) = 0 /\ Len(c) \in Nat BY <1>1, WriteKinds
      <3> QED BY <2>1, <3>1
    <2>6. Arrived' BY <1>1, <1>2, <2>1, <2>3, <2>4, <2>5 DEF Arrived
    <2> QED BY <2>1, <2>6 DEF Onward
  <1>3. ASSUME w[1] = "chunk", w[2] = Len(row[Save].chunks), Chunk(Save, c[w[2] + 1])
        PROVE  Arrived' /\ Onward
    <2>0. PICK z \in Offset : w = <<"chunk", z>> BY <1>1, <1>3, WriteKinds
    <2>1. w = <<"chunk", w[2]>> /\ w[2] \in Nat BY <2>0, WriteKinds
    <2>2. c[w[2] + 1] \in Block
      <3>1. w[2] < Len(c) BY <1>3 DEF SaveInv, Wired
      <3>2. c \in Seq(Block) BY <1>1, UploadAssumption
      <3> QED BY <2>1, <3>1, <3>2
    <2>3. /\ In(Save, "receiving")
          /\ Len(row'[Save].chunks) = Len(row[Save].chunks) + 1
          /\ Len(row[Save].chunks) \in Nat
      BY <1>3, <2>2, ChunkChunks
    <2>4. Known(Save) BY <2>3 DEF In
    <2>5. Stays(Save, "receiving")
      BY <1>3, <2>2, <2>3, <2>4, ChunkRows DEF In
    <2>6. \A n \in Offset : n < Len(row'[Save].chunks) => ~Away(<<"chunk", n>>)'
      <3> SUFFICES ASSUME NEW n \in Offset, n < Len(row'[Save].chunks)
                   PROVE  ~Away(<<"chunk", n>>)'
        OBVIOUS
      <3>0. n \in Nat BY WriteKinds
      <3>1. n < Len(row[Save].chunks) \/ n = w[2]
        BY <1>3, <2>3, <3>0
      <3>2. CASE n < Len(row[Save].chunks) BY <1>1, <2>3, <3>2 DEF SaveInv, Arrived
      <3>3. CASE n = w[2] BY <1>1, <2>1, <3>3
      <3> QED BY <3>1, <3>2, <3>3
    <2>7. task' = task /\ Free(Save) BY <1>3 DEF Chunk
    <2>8. ~Busy' BY <2>5, <2>7 DEF Busy, Stays, In, Free
    <2>9. /\ Known(Save)' => ~Away(Begun)' /\ row'[Save].path = Target
          /\ Len(row'[Save].chunks) <= Len(row'[Save].content)
      <3>1. Known(Save)' => ~Away(Begun)' /\ row'[Save].path = Target
        BY <1>1, <2>4, <2>5 DEF Stays, SaveInv, Arrived
      <3>2. row[Save].content \in Content /\ Len(row[Save].chunks) < Len(row[Save].content)
        BY <1>3, <2>4, RowFields DEF Chunk, Size
      <3>3. row'[Save].content = row[Save].content BY <2>5 DEF Stays
      <3> QED BY <2>3, <3>1, <3>2, <3>3, WriteKinds
    <2>10. Arrived' BY <2>6, <2>8, <2>9 DEF Arrived
    <2>11. Onward BY <2>3, <2>5 DEF Onward, Stays, In
    <2> QED BY <2>10, <2>11
  <1>4. ASSUME w = Committed, CommitStart(Save)
        PROVE  Arrived' /\ Onward
    <2>1. row' = row BY <1>4 DEF CommitStart
    <2>2. Known(Save) => row[Save].chunks \in Seq(Block) BY RowFields
    <2>3. Onward BY <2>1, <2>2 DEF Onward, In, Known
    <2>4. Arrived' BY <1>1, <1>4, <2>1 DEF SaveInv, Arrived, In, Known
    <2> QED BY <2>3, <2>4
  <1>5. Arrived' /\ Onward
    BY <1>2, <1>3, <1>4 DEF Serve, Effect
  <1> QED BY <1>1, <1>5, DeviceKeeps

\* A write that takes effect is a step of the uploads.
LEMMA ServeNext ==
    ASSUME IInv, SaveInv, NEW m \in wire, Serve(m), Witness
    PROVE  Next
  <1> USE SaveAssumption
  <1> DEFINE w == m[1]
             c == m[2]
  <1>1. w \in Writes /\ c \in Content
    BY ArriveEmpties DEF Serve
  <1>2. ASSUME w[1] = "chunk", Chunk(Save, c[w[2] + 1])
        PROVE  Call(Save)
    <2>0. PICK n \in Offset : w = <<"chunk", n>> BY <1>1, <1>2, WriteKinds
    <2>1. w[2] \in Nat BY <2>0, WriteKinds
    <2>2. w[2] < Len(c) BY <1>2 DEF SaveInv, Wired
    <2>3. c \in Seq(Block) BY <1>1, UploadAssumption
    <2>4. c[w[2] + 1] \in Block BY <2>1, <2>2, <2>3
    <2> QED BY <1>2, <2>4 DEF Call
  <1>3. Begin(Save, Target, c) => Call(Save) BY <1>1 DEF Call
  <1>4. CommitStart(Save) => Call(Save) BY DEF Call
  <1>5. Call(Save) BY <1>2, <1>3, <1>4 DEF Serve, Effect
  <1> QED BY <1>5 DEF Next

\* A write that is lost, or refused, changes nothing on the device.
LEMMA RefuseKeeps ==
    ASSUME IInv, SaveInv, NEW m \in wire, Refuse(m), Witness
    PROVE  IInv' /\ SaveInv'
  <1>1. UNCHANGED <<row, task, current, moved, file, staging, altered, links>>
    BY DEF Refuse, disk
  <1>2. stood \subseteq stood' /\ stood' \subseteq Transfer
    BY DEF Witness, IInv, TypeOK
  <1>3. TypeOK' BY <1>1, <1>2 DEF IInv, TypeOK
  <1>4. Tasks' /\ Links' /\ Files' /\ Stages'
    BY <1>1 DEF IInv, Tasks, Links, Files, Stages, In, Known, At, Name
  <1>5. Stood' BY <1>1, <1>2 DEF IInv, Stood, In, Known
  <1>6. Reserved'
    <2>1. Unsettled' = Unsettled BY <1>1 DEF Unsettled, In, Known
    <2> QED BY <1>1, <2>1 DEF IInv, Reserved
  <1>7. IInv' BY <1>3, <1>4, <1>5, <1>6 DEF IInv
  <1>8. /\ wire' = {} /\ \A w : ~Away(w) => ~Away(w)'
        /\ UNCHANGED <<journal, spool, run, sent>>
    BY ArriveEmpties DEF Refuse
  <1>9. Arrived' BY <1>1, <1>8 DEF SaveInv, Arrived, Busy, Free, In, Known
  <1>10. Onward
    <2>1. Known(Save) => Len(row[Save].chunks) \in Nat
      BY RowFields, SaveAssumption DEF IInv
    <2> QED BY <1>1, <2>1 DEF Onward, In, Known
  <1> QED BY <1>3, <1>7, <1>8, <1>9, <1>10, DeviceKeeps

-----------------------------------------------------------------------------
(* A runner makes a step. *)

RunRow == [phase : RunPhase, stage : Stage, pending : Writes \cup {None},
           content : Content \cup {None}, seen : Seen \cup {None},
           write : Writes \cup {None}]

\* The runner at rest.
LEMMA IdleRow ==
    /\ Idle \in RunRow /\ Idle.phase = "idle" /\ Idle.seen = None
    /\ SeenTrue(Idle) /\ Working(Idle)
  <1>1. /\ Idle \in RunRow /\ Idle.phase = "idle" /\ Idle.seen = None
    BY DEF Idle, RunRow, RunPhase, Stage
  <1>2. SeenTrue(Idle) BY <1>1 DEF SeenTrue
  <1>3. Working(Idle) BY <1>1 DEF Working, Reading, Holding
  <1> QED BY <1>1, <1>2, <1>3

\* A step of one runner, that says nothing false of any runner, keeps the
\* invariant, given its other parts.
LEMMA Moved ==
    ASSUME SaveInv, UNCHANGED vars, NEW r \in Runner,
           run' \in [Runner -> RunRow],
           \A q \in Runner : q # r => run'[q] = run[q],
           SeenTrue(run[r])', \A q \in Runner : Working(run[q])',
           run'[r].phase \in Holding =>
              \A q \in Runner : q # r => run[q].phase \notin Holding,
           SaveTypeOK', Wired', Counted', Journal', VerifiedTookEffect',
           \A w \in Writes : ~Away(w) <=> ~Away(w)'
    PROVE  SaveInv'
  <1> USE DEF SaveInv
  <1>1. row' = row /\ task' = task BY DEF vars
  <1>2. Arrived' BY <1>1, WriteKinds DEF Arrived, Busy, In, Known, Free
  <1>3. ASSUME NEW q \in Runner PROVE SeenTrue(run[q])'
    <2>1. CASE q = r BY <2>1
    <2>2. CASE q # r
      <3>1. run'[q] = run[q] /\ SeenTrue(run[q]) BY <2>2 DEF Runs
      <3> QED BY <1>1, <3>1, WriteKinds DEF SeenTrue, In, Known
    <2> QED BY <2>1, <2>2
  <1>4. \A p, q \in Runner :
           run'[p].phase \in Holding /\ run'[q].phase \in Holding => p = q
    BY DEF Runs
  <1>5. Runs' BY <1>3, <1>4 DEF Runs
  <1> QED BY <1>2, <1>5

\* A step of one runner that leaves the journal, the writes and the device alone.
LEMMA Quiet ==
    ASSUME SaveInv, UNCHANGED <<vars, stage, pending, source, steps, wire, sent>>,
           lease' \in Runner \cup {None}, spool' \in Content \cup {None},
           NEW r \in Runner, NEW k \in RunRow, run' = [run EXCEPT ![r] = k],
           SeenTrue(k), Working(k), k.phase \in Holding => run[r].phase \in Holding
    PROVE  SaveInv'
  <1> USE DEF SaveInv
  <1>0. row' = row /\ task' = task /\ UNCHANGED vars BY DEF vars
  <1>1. run \in [Runner -> RunRow] BY DEF SaveTypeOK, RunRow
  <1>2. /\ run' \in [Runner -> RunRow] /\ run'[r] = k
        /\ \A q \in Runner : q # r => run'[q] = run[q]
    BY <1>1
  <1>3. SaveTypeOK' BY <1>2 DEF SaveTypeOK, RunRow
  <1>4. SeenTrue(run[r])'
    <2>1. \A w : Away(w)' <=> Away(w) BY DEF Away
    <2> QED BY <1>0, <1>2, <2>1 DEF SeenTrue, In, Known
  <1>5. ASSUME NEW q \in Runner PROVE Working(run[q])'
    <2>1. run'[q] = k \/ run'[q] = run[q] BY <1>2
    <2>2. Working(run[q]) BY DEF Runs
    <2> QED BY <2>1, <2>2 DEF Working
  <1>6. run'[r].phase \in Holding =>
           \A q \in Runner : q # r => run[q].phase \notin Holding
    BY <1>2 DEF Runs
  <1>7. Wired' /\ Counted' BY DEF Wired, Counted
  <1>8. Journal' BY <1>0 DEF Journal, In, Known
  <1>9. VerifiedTookEffect' BY <1>0 DEF VerifiedTookEffect, In, Known
  <1>10. \A w : ~Away(w) <=> ~Away(w)' BY DEF Away
  <1> QED BY <1>0, <1>2, <1>3, <1>4, <1>5, <1>6, <1>7, <1>8, <1>9, <1>10, Moved

\* A runner goes from one phase to the next.
LEMMA GotoKeeps ==
    ASSUME SaveInv, UNCHANGED <<vars, stage, pending, source, steps, wire, sent>>,
           lease' \in Runner \cup {None}, spool' \in Content \cup {None},
           NEW r \in Runner, NEW p \in RunPhase, Goto(r, p), ~Is(r, "idle"),
           p \in {"downloaded", "spooled"} => run[r].content # None,
           p \in Reading => run[r].phase \in Reading,
           p = "writing" => run[r].seen # None,
           run[r].seen # None => p \in {"observed", "writing"} \cup Sent,
           p \in Holding => run[r].phase \in Holding
    PROVE  SaveInv'
  <1> DEFINE k == [run[r] EXCEPT !.phase = p]
  <1>1. run[r] \in RunRow BY DEF SaveInv, SaveTypeOK, RunRow
  <1>2. k \in RunRow BY <1>1 DEF RunRow
  <1>3. /\ k.phase = p /\ k.seen = run[r].seen /\ k.content = run[r].content
        /\ k.write = run[r].write
    BY <1>1 DEF RunRow
  <1>4. run' = [run EXCEPT ![r] = k] BY DEF Goto
  <1> HIDE DEF k
  <1>5. SeenTrue(run[r]) /\ Working(run[r]) BY DEF SaveInv, Runs
  <1>6. SeenTrue(k) BY <1>3, <1>5 DEF SeenTrue
  <1>7. Working(k) BY <1>3, <1>5 DEF Working, Is
  <1> QED BY <1>2, <1>3, <1>4, <1>6, <1>7, Quiet

\* The row is read: what is to be done next follows from it.
LEMMA SnapshotKeeps ==
    ASSUME SaveInv, UNCHANGED <<vars, stage, pending, source, steps, wire, sent, lease, spool>>,
           NEW r \in Runner, NEW c \in Content \cup {None}, Snapshot(r, c),
           ~Is(r, "idle"), stage # "claimed" => c = source
    PROVE  SaveInv'
  <1> DEFINE k == [Idle EXCEPT !.phase = NextPhase, !.stage = stage,
                               !.pending = pending, !.content = c]
  <1>0. /\ NextPhase \in {"downloading", "beginning", "asking"}
        /\ NextPhase = "downloading" <=> stage = "claimed"
    BY DEF NextPhase
  <1>1. /\ k.phase = NextPhase /\ k.seen = None /\ k.content = c /\ k.write = None
    BY DEF Idle
  <1>2. k \in RunRow
    <2>1. Idle \in RunRow BY IdleRow
    <2>2. /\ NextPhase \in RunPhase /\ stage \in Stage /\ pending \in Writes \cup {None}
      BY <1>0 DEF RunPhase, SaveInv, SaveTypeOK
    <2> QED BY <2>1, <2>2 DEF RunRow
  <1>3. run' = [run EXCEPT ![r] = k] BY DEF Snapshot
  <1> HIDE DEF k
  <1>4. stage # "none" BY DEF SaveInv, Runs, Working, Is
  <1>5. stage # "claimed" => source # None BY <1>4 DEF SaveInv, SaveTypeOK
  <1>6. SeenTrue(k) BY <1>1 DEF SeenTrue
  <1>7. Working(k)
    BY <1>0, <1>1, <1>4, <1>5 DEF Working, Reading, Holding
  <1> QED BY <1>0, <1>1, <1>2, <1>3, <1>6, <1>7, Quiet
     DEF Holding, SaveInv, SaveTypeOK

\* The steps of a runner, and of its lease, that leave the journal alone.
LEMMA QuietSteps ==
    ASSUME IInv, SaveInv, UNCHANGED vars, NEW r \in Runner,
           \/ AcquireLease(r) \/ RefreshLease(r) \/ LapseLease \/ ReadRow(r) \/ Download(r)
           \/ WriteSpool(r) \/ ReadRowAgain(r) \/ Authorize(r) \/ AuthorizeStatus(r)
           \/ Observe(r) \/ NothingPending(r) \/ Return(r)
    PROVE  SaveInv'
  <1> USE SaveAssumption
  <1>0. /\ run[r] \in RunRow /\ SeenTrue(run[r]) /\ Working(run[r])
        /\ lease \in Runner \cup {None} /\ spool \in Content \cup {None}
        /\ source \in Content \cup {None}
    BY DEF SaveInv, SaveTypeOK, RunRow, Runs
  <1>s. run[r].seen # None => run[r].phase \in {"observed", "writing"} \cup Sent
    BY <1>0 DEF Working
  <1>1. CASE AcquireLease(r)
    <2>1. run[r].seen = None BY <1>1, <1>s DEF AcquireLease, Is, Sent, Holding
    <2>2. /\ ~Is(r, "idle") /\ Goto(r, "leased") /\ "leased" \in RunPhase
          /\ UNCHANGED <<stage, pending, source, steps, wire, sent, spool>> /\ lease' = r
      BY <1>1 DEF AcquireLease, Is, RunPhase
    <2>3. "leased" \notin Holding /\ "leased" \notin Reading BY DEF Holding, Reading
    <2> QED BY <1>0, <2>1, <2>2, <2>3, GotoKeeps
  <1>2. CASE RefreshLease(r) \/ LapseLease
    <2>1. /\ UNCHANGED <<stage, pending, source, steps, wire, sent, spool, run>>
          /\ lease' \in Runner \cup {None}
      BY <1>2 DEF RefreshLease, LapseLease
    <2>2. run' = [run EXCEPT ![r] = run[r]] BY <2>1 DEF SaveInv, SaveTypeOK
    <2> QED BY <1>0, <2>1, <2>2, Quiet
  <1>3. CASE ReadRow(r)
    <2>1. /\ ~Is(r, "idle")
          /\ UNCHANGED <<stage, pending, source, steps, wire, sent, lease, spool>>
      BY <1>3 DEF ReadRow, Is, journal
    <2>2. Snapshot(r, IF stage = "claimed" THEN None ELSE source) BY <1>3 DEF ReadRow
    <2>3. (IF stage = "claimed" THEN None ELSE source) \in Content \cup {None}
      BY <1>0
    <2> QED BY <2>1, <2>2, <2>3, SnapshotKeeps
  <1>4. CASE Download(r)
    <2>1. run[r].seen = None /\ run[r].phase # "idle"
      BY <1>4, <1>s DEF Download, Is, Sent, Holding
    <2>2. PICK c \in Content :
             run' = [run EXCEPT ![r].phase = "downloaded", ![r].content = c]
      BY <1>4 DEF Download
    <2> DEFINE k == [run[r] EXCEPT !.phase = "downloaded", !.content = c]
    <2>3. k \in RunRow BY <1>0 DEF RunRow, RunPhase
    <2>4. /\ k.phase = "downloaded" /\ k.content = c /\ k.seen = run[r].seen
      BY <1>0 DEF RunRow
    <2>5. run' = [run EXCEPT ![r] = k] BY <2>2, <1>0 DEF SaveInv, SaveTypeOK
    <2> HIDE DEF k
    <2>6. SeenTrue(k) BY <2>1, <2>4 DEF SeenTrue
    <2>7. Working(k) BY <1>0, <2>1, <2>4, WriteKinds DEF Working, Reading, Holding
    <2>8. UNCHANGED <<stage, pending, source, steps, wire, sent, lease, spool>>
      BY <1>4 DEF Download, journal
    <2>9. k.phase \notin Holding BY <2>4 DEF Holding
    <2> QED BY <1>0, <2>3, <2>5, <2>6, <2>7, <2>8, <2>9, Quiet
  <1>5. CASE WriteSpool(r)
    <2>1. run[r].seen = None /\ ~Is(r, "idle") /\ run[r].content # None
      BY <1>0, <1>5, <1>s DEF WriteSpool, Is, Sent, Holding, Working
    <2>2. /\ UNCHANGED <<stage, pending, source, steps, wire, sent, lease>>
          /\ spool' \in Content \cup {None}
      BY <1>0, <1>5 DEF WriteSpool, journal, RunRow
    <2>3. Goto(r, "spooled") /\ "spooled" \in RunPhase /\ "spooled" \notin Holding
          /\ "spooled" \notin Reading
      BY <1>5 DEF WriteSpool, RunPhase, Holding, Reading
    <2> QED BY <1>0, <2>1, <2>2, <2>3, GotoKeeps
  <1>6. CASE ReadRowAgain(r)
    <2>1. /\ ~Is(r, "idle") /\ run[r].phase \in Reading
          /\ UNCHANGED <<stage, pending, source, steps, wire, sent, lease, spool>>
      BY <1>6 DEF ReadRowAgain, Is, journal, Reading
    <2>2. run[r].content = source BY <1>0, <2>1 DEF Working
    <2>3. Snapshot(r, run[r].content) BY <1>6 DEF ReadRowAgain
    <2>4. run[r].content \in Content \cup {None} BY <1>0 DEF RunRow
    <2> QED BY <2>1, <2>2, <2>3, <2>4, SnapshotKeeps
  <1>7. CASE Authorize(r)
    <2>1. /\ run[r].phase = "dispatched" /\ Goto(r, "cleared") /\ "cleared" \in RunPhase
          /\ UNCHANGED <<stage, pending, source, steps, wire, sent, lease, spool>>
      BY <1>7 DEF Authorize, Is, journal, RunPhase
    <2>2. /\ run[r].phase \in Reading \cap Holding /\ ~Is(r, "idle")
          /\ "cleared" \in Sent
      BY <2>1 DEF Reading, Holding, Is, Sent
    <2> QED BY <1>0, <2>1, <2>2, GotoKeeps
  <1>8. CASE AuthorizeStatus(r)
    <2>1. /\ run[r].phase = "asking" /\ Goto(r, "allowed") /\ "allowed" \in RunPhase
          /\ UNCHANGED <<stage, pending, source, steps, wire, sent, lease, spool>>
      BY <1>8 DEF AuthorizeStatus, Is, journal, RunPhase
    <2>2. /\ run[r].phase \in Reading /\ ~Is(r, "idle") /\ run[r].seen = None
          /\ "allowed" \notin Holding
      BY <2>1, <1>s DEF Reading, Holding, Is, Sent
    <2> QED BY <1>0, <2>1, <2>2, GotoKeeps
  <1>9. CASE Observe(r)
    <2>1. /\ run[r].phase = "allowed"
          /\ UNCHANGED <<stage, pending, source, steps, wire, sent, lease, spool>>
      BY <1>9 DEF Observe, Is, journal
    <2>2. PICK o \in {None} \cup
             (IF Known(Save) /\ row[Save].content = run[r].content
              THEN {[state |-> PublicState, received |-> Received]} ELSE {}) :
             run' = [run EXCEPT ![r].phase = "observed", ![r].seen = o]
      BY <1>9 DEF Observe
    <2>3. ASSUME o # None
          PROVE  /\ Known(Save) /\ row[Save].content = run[r].content /\ o \in Seen
                 /\ o.state = "receiving" =>
                       In(Save, "receiving") /\ o.received = Len(row[Save].chunks)
                 /\ o.state = "complete" => In(Save, "complete")
      <3>1. /\ Known(Save) /\ row[Save].content = run[r].content
            /\ o = [state |-> PublicState, received |-> Received]
        BY <2>2, <2>3
      <3>2. /\ row[Save].state \in State /\ row[Save].content \in Content
            /\ row[Save].chunks \in Seq(Block)
        BY <3>1, RowFields DEF IInv
      <3>3. /\ PublicState \in {"receiving", "complete", "unknown", "over"}
            /\ PublicState = "receiving" => row[Save].state = "receiving"
            /\ PublicState = "complete" => row[Save].state = "complete"
        BY <3>2 DEF PublicState, State
      <3>4. Received \in Offset
        <4>1. Len(row[Save].chunks) <= Len(row[Save].content)
          BY <3>1 DEF SaveInv, Arrived
        <4>2. /\ Len(row[Save].content) \in Nat /\ Len(row[Save].content) <= MaxBytes
              /\ Len(row[Save].chunks) \in Nat /\ MaxBytes \in Nat
          BY <3>2, WriteKinds, UploadAssumption
        <4> QED BY <4>1, <4>2 DEF Received, Size, Offset
      <3>5. row[Save].state = "receiving" => Received = Len(row[Save].chunks)
        BY DEF Received
      <3> QED BY <3>1, <3>3, <3>4, <3>5 DEF Seen, In
    <2> DEFINE k == [run[r] EXCEPT !.phase = "observed", !.seen = o]
    <2>4. o \in Seen \cup {None} BY <2>3
    <2>5. k \in RunRow BY <1>0, <2>4 DEF RunRow, RunPhase
    <2>6. /\ k.phase = "observed" /\ k.content = run[r].content /\ k.seen = o
      BY <1>0 DEF RunRow
    <2>7. run' = [run EXCEPT ![r] = k] BY <2>2, <1>0 DEF SaveInv, SaveTypeOK
    <2> HIDE DEF k
    <2>8. SeenTrue(k)
      <3> SUFFICES ASSUME o # None
                   PROVE  /\ Known(Save) /\ row[Save].content = k.content
                          /\ o.state = "receiving" =>
                                /\ \A n \in Offset : n < o.received => ~Away(<<"chunk", n>>)
                                /\ In(Save, "receiving") => o.received <= Len(row[Save].chunks)
                          /\ o.state = "complete" => In(Save, "complete")
        BY <2>6 DEF SeenTrue
      <3>1. o.received \in Nat BY <2>3, WriteKinds DEF Seen
      <3>2. In(Save, "receiving") =>
              \A n \in Offset : n < Len(row[Save].chunks) => ~Away(<<"chunk", n>>)
        BY DEF SaveInv, Arrived
      <3> QED BY <2>3, <2>6, <3>1, <3>2
    <2>9. Working(k)
      BY <1>0, <2>1, <2>6 DEF Working, Reading, Holding
    <2>10. k.phase \notin Holding BY <2>6 DEF Holding
    <2> QED BY <1>0, <2>1, <2>5, <2>7, <2>8, <2>9, <2>10, Quiet
  <1>10. CASE NothingPending(r)
    <2>1. /\ run[r].phase = "observed" /\ Goto(r, "writing") /\ "writing" \in RunPhase
          /\ UNCHANGED <<stage, pending, source, steps, wire, sent, lease, spool>>
          /\ run[r].seen # None
      BY <1>10 DEF NothingPending, Is, journal, RunPhase
    <2>2. /\ run[r].phase \in Reading /\ ~Is(r, "idle") /\ "writing" \notin Holding
      BY <2>1 DEF Reading, Holding, Is
    <2> QED BY <1>0, <2>1, <2>2, GotoKeeps
  <1>11. CASE Return(r)
    <2>1. /\ UNCHANGED <<stage, pending, source, steps, wire, sent, spool>>
          /\ lease' \in Runner \cup {None} /\ run' = [run EXCEPT ![r] = Idle]
      BY <1>0, <1>11 DEF Return
    <2>2. Idle.phase \notin Holding BY IdleRow DEF Holding
    <2> QED BY <1>0, <2>1, <2>2, IdleRow, Quiet
  <1> QED
    BY <1>1, <1>2, <1>3, <1>4, <1>5, <1>6, <1>7, <1>8, <1>9, <1>10, <1>11

-----------------------------------------------------------------------------
(* The steps of a runner that change the journal, or send a write. *)

\* A write that no runner and no wire holds.
Settled == wire = {} /\ \A q \in Runner : run[q].phase \notin Holding

\* When nothing is uncertain, no write is held.
LEMMA NoneHeld ==
    ASSUME SaveInv, pending = None
    PROVE  Settled
  <1>1. wire = {}
    <2>1. \A m \in wire : m[1] \in Writes BY DEF SaveInv, SaveTypeOK
    <2> QED BY <2>1, WriteKinds DEF SaveInv, Wired
  <1>2. ASSUME NEW q \in Runner, run[q].phase \in Holding PROVE FALSE
    BY <1>2 DEF SaveInv, Runs, Working
  <1> QED BY <1>1, <1>2 DEF Settled

\* When the uncertain write was received, no write is held.
LEMMA ReceivedHeld ==
    ASSUME SaveInv, ~Away(pending)
    PROVE  Settled
  <1>1. \A m \in wire : m[1] = pending BY DEF SaveInv, Wired
  <1>2. wire = {} BY <1>1 DEF Away
  <1>3. ASSUME NEW q \in Runner, run[q].phase \in Holding PROVE FALSE
    BY <1>3 DEF SaveInv, Runs, Working, Away
  <1> QED BY <1>2, <1>3 DEF Settled

\* The claim of the save.
LEMMA ClaimKeeps ==
    ASSUME SaveInv, UNCHANGED vars, NEW r \in Runner, ClaimSave(r)
    PROVE  SaveInv'
  <1> USE DEF SaveInv
  <1> DEFINE k == [run[r] EXCEPT !.phase = "claimed"]
  <1>0. row' = row BY DEF vars
  <1>1. /\ run[r].phase = "idle" /\ run' = [run EXCEPT ![r] = k]
        /\ UNCHANGED <<pending, source, steps, lease, spool, wire, sent>>
        /\ stage' = IF stage = "none" THEN "claimed" ELSE stage
    BY DEF ClaimSave, Is, Goto
  <1>2. run \in [Runner -> RunRow] /\ run[r] \in RunRow BY DEF SaveTypeOK, RunRow
  <1>3. k \in RunRow /\ k.phase = "claimed" /\ k.seen = run[r].seen
    <2>1. k \in RunRow BY <1>2 DEF RunRow, RunPhase
    <2> QED BY <1>2, <2>1 DEF RunRow
  <1> HIDE DEF k
  <1>4. /\ run' \in [Runner -> RunRow] /\ run'[r] = k
        /\ \A q \in Runner : q # r => run'[q] = run[q]
    BY <1>1, <1>2, <1>3
  <1>5. run[r].seen = None
    BY <1>1 DEF Runs, Working, Sent, Holding
  <1>6. SeenTrue(run[r])' BY <1>3, <1>4, <1>5 DEF SeenTrue
  <1>7. ASSUME NEW q \in Runner PROVE Working(run[q])'
    <2>1. CASE q = r
      BY <1>1, <1>3, <1>4, <1>5, <2>1 DEF Working, Reading, Holding
    <2>2. CASE q # r
      <3>1. run'[q] = run[q] /\ Working(run[q]) BY <1>4, <2>2 DEF Runs
      <3> QED BY <1>1, <3>1 DEF Working
    <2> QED BY <2>1, <2>2
  <1>8. run'[r].phase \notin Holding BY <1>3, <1>4 DEF Holding
  <1>9. SaveTypeOK' BY <1>1, <1>4 DEF SaveTypeOK, RunRow, Stage
  <1>10. Wired' /\ Counted' BY <1>1 DEF Wired, Counted
  <1>11. Journal' BY <1>0, <1>1 DEF Journal, In, Known
  <1>12. VerifiedTookEffect' BY <1>0, <1>1 DEF VerifiedTookEffect, In, Known
  <1>13. \A w : ~Away(w) <=> ~Away(w)' BY <1>1 DEF Away
  <1> QED BY <1>4, <1>6, <1>7, <1>8, <1>9, <1>10, <1>11, <1>12, <1>13, Moved

\* The source is verified, for good.
LEMMA VerifiedKeeps ==
    ASSUME IInv, SaveInv, UNCHANGED vars, NEW r \in Runner, VerifiedSource(r)
    PROVE  SaveInv'
  <1> USE DEF SaveInv
  <1> DEFINE k == [run[r] EXCEPT !.phase = "verified"]
  <1>0. row' = row BY DEF vars
  <1>1. /\ run[r].phase = "spooled" /\ run' = [run EXCEPT ![r] = k]
        /\ UNCHANGED <<pending, steps, lease, spool, wire, sent>>
        /\ stage = "claimed" /\ stage' = "source_verified" /\ source' = run[r].content
    BY DEF VerifiedSource, Is, Goto
  <1>2. run \in [Runner -> RunRow] /\ run[r] \in RunRow BY DEF SaveTypeOK, RunRow
  <1>3. k \in RunRow /\ k.phase = "verified" /\ k.seen = run[r].seen
        /\ k.content = run[r].content
    <2>1. k \in RunRow BY <1>2 DEF RunRow, RunPhase
    <2> QED BY <1>2, <2>1 DEF RunRow
  <1> HIDE DEF k
  <1>4. /\ run' \in [Runner -> RunRow] /\ run'[r] = k
        /\ \A q \in Runner : q # r => run'[q] = run[q]
    BY <1>1, <1>2, <1>3
  <1>5. run[r].seen = None /\ run[r].content # None /\ run[r].content \in Content
    BY <1>1, <1>2 DEF Runs, Working, Sent, Holding, RunRow
  <1>s. source = None BY <1>1 DEF SaveTypeOK
  <1>6. SeenTrue(run[r])' BY <1>3, <1>4, <1>5 DEF SeenTrue
  <1>7. ASSUME NEW q \in Runner PROVE Working(run[q])'
    <2>1. CASE q = r
      BY <1>1, <1>3, <1>4, <1>5, <2>1 DEF Working, Reading, Holding
    <2>2. CASE q # r
      <3>1. run'[q] = run[q] /\ Working(run[q]) BY <1>4, <2>2 DEF Runs
      <3>2. run[q].phase \notin Reading BY <1>s, <3>1 DEF Working
      <3>3. run[q].phase \notin Holding BY <3>2 DEF Reading, Holding
      <3> QED BY <1>1, <3>1, <3>2, <3>3 DEF Working
    <2> QED BY <2>1, <2>2
  <1>8. run'[r].phase \notin Holding BY <1>3, <1>4 DEF Holding
  <1>9. SaveTypeOK' BY <1>1, <1>4, <1>5 DEF SaveTypeOK, RunRow, Stage
  <1>10. Wired' /\ Counted' BY <1>1 DEF Wired, Counted
  <1>11. Journal' BY <1>0, <1>1 DEF Journal, In, Known
  <1>12. VerifiedTookEffect'
    <2>1. ASSUME NEW w \in Writes PROVE steps[w] # "verified"
      <3>1. Known(Save) => row[Save].content # None
        BY RowFields, SaveAssumption, WriteKinds DEF IInv
      <3> QED BY <1>s, <3>1 DEF VerifiedTookEffect
    <2> QED BY <1>1, <2>1 DEF VerifiedTookEffect
  <1>13. \A w : ~Away(w) <=> ~Away(w)' BY <1>1 DEF Away
  <1> QED BY <1>4, <1>6, <1>7, <1>8, <1>9, <1>10, <1>11, <1>12, <1>13, Moved

\* A write is recorded before it is sent, and was not recorded before.
LEMMA DispatchKeeps ==
    ASSUME SaveInv, UNCHANGED vars, NEW r \in Runner, NEW w \in Writes,
           NEW from, NEW to \in {"uploading", "commit_unknown"}, Dispatch(r, w, from, to),
           stage \notin {"none", "claimed", "completed", "commit_unknown"},
           to = "commit_unknown" <=> w = Committed,
           run[r].phase \in {"beginning", "writing"},
           w[1] = "chunk" => w[2] < Len(run[r].content)
    PROVE  SaveInv'
  <1> USE DEF SaveInv
  <1> DEFINE k == [run[r] EXCEPT !.phase = "dispatched", !.write = w]
  <1>0. row' = row BY DEF vars
  <1>2. run \in [Runner -> RunRow] /\ run[r] \in RunRow BY DEF SaveTypeOK, RunRow
  <1>1. /\ run' = [run EXCEPT ![r] = k]
        /\ UNCHANGED <<source, lease, spool, wire, sent>>
        /\ pending = None /\ pending' = w /\ stage' = to
        /\ steps[w] = "absent" /\ steps' = [steps EXCEPT ![w] = "unknown"]
    BY <1>2 DEF Dispatch
  <1>3. k \in RunRow /\ k.phase = "dispatched" /\ k.seen = run[r].seen
        /\ k.content = run[r].content /\ k.write = w
    <2>1. k \in RunRow BY <1>2 DEF RunRow, RunPhase
    <2> QED BY <1>2, <2>1 DEF RunRow
  <1> HIDE DEF k
  <1>4. /\ run' \in [Runner -> RunRow] /\ run'[r] = k
        /\ \A q \in Runner : q # r => run'[q] = run[q]
    BY <1>1, <1>2, <1>3
  <1>5. Settled BY <1>1, NoneHeld
  <1>6. SeenTrue(run[r])'
    <2>1. SeenTrue(run[r]) BY DEF Runs
    <2>2. \A v : ~Away(v) <=> ~Away(v)' BY <1>1 DEF Away
    <2> QED BY <1>0, <1>3, <1>4, <2>1, <2>2 DEF SeenTrue, In, Known
  <1>s. sent[w] = 0 BY <1>1 DEF Counted
  <1>7. ASSUME NEW q \in Runner PROVE Working(run[q])'
    <2>0. stage' # "none" BY <1>1
    <2>1. CASE q = r
      <3>1. run[r].content = source /\ source # None
        BY DEF Runs, Working, Reading
      <3>2. w # None /\ w[1] = "chunk" => w[2] < Len(run[r].content)
        BY WriteKinds
      <3>3. w # None BY WriteKinds
      <3> QED BY <1>1, <1>3, <1>4, <1>s, <2>0, <2>1, <3>1, <3>2, <3>3
          DEF Working, Holding, Sent
    <2>2. CASE q # r
      <3>1. run'[q] = run[q] /\ Working(run[q]) BY <1>4, <2>2 DEF Runs
      <3>2. run[q].phase \notin Holding BY <1>5 DEF Settled
      <3> QED BY <1>1, <2>0, <3>1, <3>2 DEF Working
    <2> QED BY <2>1, <2>2
  <1>8. \A q \in Runner : q # r => run[q].phase \notin Holding BY <1>5 DEF Settled
  <1>9. SaveTypeOK'
    <2>1. steps' \in [Writes -> {"absent", "unknown", "verified"}]
      BY <1>1 DEF SaveTypeOK
    <2>2. source # None BY DEF SaveTypeOK
    <2> QED BY <1>1, <1>4, <2>1, <2>2 DEF SaveTypeOK, RunRow, Stage
  <1>10. Wired' BY <1>1, <1>5 DEF Wired, Settled
  <1>11. Counted' BY <1>1 DEF Counted, SaveTypeOK
  <1>12. Journal'
    <2>1. steps'[w] = "unknown" BY <1>1 DEF SaveTypeOK
    <2> QED BY <1>1, <2>1 DEF Journal
  <1>13. VerifiedTookEffect'
    <2>1. \A v \in Writes : steps'[v] = "verified" => steps[v] = "verified"
      BY <1>1 DEF SaveTypeOK
    <2> QED BY <1>0, <1>1, <2>1 DEF VerifiedTookEffect, In, Known
  <1>14. \A v : ~Away(v) <=> ~Away(v)' BY <1>1 DEF Away
  <1> QED
    BY <1>4, <1>6, <1>7, <1>8, <1>9, <1>10, <1>11, <1>12, <1>13, <1>14, Moved

\* The three writes.
LEMMA DispatchesKeep ==
    ASSUME SaveInv, UNCHANGED vars, NEW r \in Runner,
           DispatchBegin(r) \/ DispatchChunk(r) \/ DispatchCommit(r)
    PROVE  SaveInv'
  <1>1. CASE DispatchBegin(r)
    <2>1. /\ Dispatch(r, Begun, {"source_verified", "uploading"}, "uploading")
          /\ run[r].phase = "beginning" /\ stage \in {"source_verified", "uploading"}
      BY <1>1 DEF DispatchBegin, Is, Dispatch
    <2>2. Begun \in Writes /\ Begun # Committed /\ Begun[1] # "chunk"
      BY WriteKinds DEF Begun
    <2> QED BY <2>1, <2>2, DispatchKeeps
  <1>2. CASE DispatchChunk(r)
    <2> DEFINE w == <<"chunk", run[r].seen.received>>
    <2>1. /\ Dispatch(r, w, {"source_verified", "uploading"}, "uploading")
          /\ run[r].phase = "writing" /\ stage \in {"source_verified", "uploading"}
          /\ w[2] < Len(run[r].content)
      BY <1>2 DEF DispatchChunk, Is, Dispatch, Rest
    <2>2. run[r].seen.received \in Offset
      <3>1. run[r].seen # None BY <2>1 DEF SaveInv, Runs, Working
      <3> QED BY <3>1 DEF SaveInv, SaveTypeOK, Seen
    <2>3. w \in Writes /\ w # Committed BY <2>2, WriteKinds
    <2> HIDE DEF w
    <2> QED BY <2>1, <2>3, DispatchKeeps
  <1>3. CASE DispatchCommit(r)
    <2>1. /\ Dispatch(r, Committed, {"uploading"}, "commit_unknown")
          /\ run[r].phase = "writing" /\ stage = "uploading"
      BY <1>3 DEF DispatchCommit, Is, Dispatch
    <2>2. Committed \in Writes /\ Committed[1] # "chunk"
      BY WriteKinds DEF Committed
    <2> QED BY <2>1, <2>2, DispatchKeeps
  <1> QED BY <1>1, <1>2, <1>3

\* A write is sent while nothing else is under way.
LEMMA SendKeeps ==
    ASSUME SaveInv, UNCHANGED vars, NEW r \in Runner, Send(r)
    PROVE  SaveInv'
  <1> USE DEF SaveInv
  <1> DEFINE k == [run[r] EXCEPT !.phase = "calling"]
  <1>w. PICK w : w = run[r].write OBVIOUS
  <1>0. row' = row BY DEF vars
  <1>1. /\ run[r].phase = "cleared" /\ run' = [run EXCEPT ![r] = k]
        /\ UNCHANGED <<stage, pending, source, steps, lease, spool>>
        /\ wire' = wire \cup {<<w, run[r].content>>}
        /\ sent' = [sent EXCEPT ![w] = @ + 1]
    BY <1>w DEF Send, Is, Goto, journal
  <1>2. run \in [Runner -> RunRow] /\ run[r] \in RunRow BY DEF SaveTypeOK, RunRow
  <1>3. k \in RunRow /\ k.phase = "calling" /\ k.seen = run[r].seen
        /\ k.content = run[r].content /\ k.write = w
    <2>1. k \in RunRow BY <1>2 DEF RunRow, RunPhase
    <2> QED BY <1>w, <1>2, <2>1 DEF RunRow
  <1> HIDE DEF k
  <1>4. /\ run' \in [Runner -> RunRow] /\ run'[r] = k
        /\ \A q \in Runner : q # r => run'[q] = run[q]
    BY <1>1, <1>2, <1>3
  <1>5. /\ w = pending /\ w # None /\ sent[w] = 0 /\ w \in Writes
        /\ w[1] = "chunk" => w[2] < Len(run[r].content)
        /\ run[r].content = source /\ source # None /\ source \in Content
    BY <1>w, <1>1, <1>2 DEF Runs, Working, Holding, Reading, SaveTypeOK, RunRow
  <1>6. \A q \in Runner : q # r => run[q].phase \notin Holding
    BY <1>1 DEF Runs, Holding
  <1>7. wire = {} BY <1>5 DEF Wired
  <1>8. /\ wire' = {<<w, source>>} /\ sent'[w] = 1 /\ sent' \in [Writes -> Nat]
        /\ \A v \in Writes : v # w => sent'[v] = sent[v]
    BY <1>1, <1>5, <1>7 DEF SaveTypeOK
  <1>9. \A v \in Writes : ~Away(v) <=> ~Away(v)'
    <2>1. Away(w)' BY <1>8 DEF Away
    <2>2. Away(w) BY <1>5 DEF Away
    <2>3. ASSUME NEW v \in Writes, v # w PROVE Away(v) <=> Away(v)'
      BY <1>7, <1>8, <2>3 DEF Away
    <2> QED BY <2>1, <2>2, <2>3
  <1>10. SeenTrue(run[r])'
    <2>1. SeenTrue(run[r]) BY DEF Runs
    <2>2. \A n \in Offset : <<"chunk", n>> \in Writes BY DEF Writes
    <2> QED BY <1>0, <1>3, <1>4, <1>9, <2>1, <2>2 DEF SeenTrue, In, Known
  <1>11. ASSUME NEW q \in Runner PROVE Working(run[q])'
    <2>1. CASE q = r
      <3>1. stage # "none" BY <1>1 DEF Runs, Working
      <3> QED BY <1>1, <1>3, <1>4, <1>5, <2>1, <3>1 DEF Working, Holding, Sent
    <2>2. CASE q # r
      <3>1. run'[q] = run[q] /\ Working(run[q]) BY <1>4, <2>2 DEF Runs
      <3>2. run[q].phase \notin Holding BY <1>6, <2>2
      <3> QED BY <1>1, <3>1, <3>2 DEF Working
    <2> QED BY <2>1, <2>2
  <1>12. SaveTypeOK'
    <2>1. wire' \subseteq Writes \X Content BY <1>5, <1>8
    <2> QED BY <1>1, <1>4, <1>8, <2>1 DEF SaveTypeOK, RunRow
  <1>13. Wired' BY <1>1, <1>5, <1>8 DEF Wired
  <1>14. Counted'
    <2>1. steps[w] # "absent" BY <1>5 DEF Journal
    <2> QED BY <1>1, <1>8, <2>1 DEF Counted
  <1>15. Journal' BY <1>0, <1>1 DEF Journal, In, Known
  <1>16. VerifiedTookEffect' BY <1>0, <1>1 DEF VerifiedTookEffect, In, Known
  <1> QED
    BY <1>4, <1>6, <1>9, <1>10, <1>11, <1>12, <1>13, <1>14, <1>15, <1>16, Moved

\* A begin or a chunk is verified by what the device has received.
LEMMA ReconcileKeeps ==
    ASSUME SaveInv, UNCHANGED vars, NEW r \in Runner, Reconcile(r)
    PROVE  SaveInv'
  <1> USE DEF SaveInv
  <1> DEFINE k == [run[r] EXCEPT !.phase = "writing"]
             o == run[r].seen
  <1>0. row' = row BY DEF vars
  <1>1. /\ run[r].phase = "observed" /\ run' = [run EXCEPT ![r] = k]
        /\ o # None /\ o.state = "receiving" /\ o.received >= End(pending)
        /\ stage = "uploading" /\ pending # None /\ pending' = None
        /\ steps' = [steps EXCEPT ![pending] = "verified"]
        /\ UNCHANGED <<stage, source, lease, spool, wire, sent>>
    BY DEF Reconcile, Is, Goto, TookEffect
  <1>2. run \in [Runner -> RunRow] /\ run[r] \in RunRow BY DEF SaveTypeOK, RunRow
  <1>3. k \in RunRow /\ k.phase = "writing" /\ k.seen = o
        /\ k.content = run[r].content /\ k.write = run[r].write
    <2>1. k \in RunRow BY <1>2 DEF RunRow, RunPhase
    <2> QED BY <1>2, <2>1 DEF RunRow
  <1> HIDE DEF k
  <1>4. /\ run' \in [Runner -> RunRow] /\ run'[r] = k
        /\ \A q \in Runner : q # r => run'[q] = run[q]
    BY <1>1, <1>2, <1>3
  <1>5. /\ SeenTrue(run[r]) /\ Working(run[r]) /\ o \in Seen
        /\ run[r].content = source /\ source # None
    BY <1>1, <1>2 DEF Runs, Working, Reading, RunRow
  <1>6. /\ Known(Save) /\ row[Save].content = source
        /\ \A n \in Offset : n < o.received => ~Away(<<"chunk", n>>)
        /\ In(Save, "receiving") => o.received <= Len(row[Save].chunks)
    BY <1>1, <1>5 DEF SeenTrue
  <1>7. /\ pending \in Writes /\ pending # Committed
        /\ pending = Begun \/ \E n \in Offset : pending = <<"chunk", n>>
    BY <1>1, WriteKinds DEF Journal, SaveTypeOK
  <1>8. o.received \in Nat /\ Offset \subseteq Nat BY <1>5, WriteKinds DEF Seen
  <1>9. ~Away(pending)
    <2>1. CASE pending = Begun BY <1>6, <2>1 DEF Arrived
    <2>2. ASSUME NEW n \in Offset, pending = <<"chunk", n>> PROVE ~Away(pending)
      <3>1. End(pending) = n + 1 BY <2>2 DEF End
      <3>2. n < o.received BY <1>1, <1>8, <3>1
      <3> QED BY <1>6, <2>2, <3>2
    <2> QED BY <1>7, <2>1, <2>2
  <1>10. Settled BY <1>9, ReceivedHeld
  <1> HIDE DEF o
  <1>11. \A v : ~Away(v) <=> ~Away(v)' BY <1>1 DEF Away
  <1>12. SeenTrue(run[r])'
    BY <1>0, <1>3, <1>4, <1>5, <1>11 DEF SeenTrue, In, Known, o
  <1>13. ASSUME NEW q \in Runner PROVE Working(run[q])'
    <2>1. CASE q = r
      BY <1>1, <1>3, <1>4, <1>5, <2>1 DEF Working, Holding, Sent
    <2>2. CASE q # r
      <3>1. run'[q] = run[q] /\ Working(run[q]) BY <1>4, <2>2 DEF Runs
      <3>2. run[q].phase \notin Holding BY <1>10 DEF Settled
      <3> QED BY <1>1, <3>1, <3>2 DEF Working
    <2> QED BY <2>1, <2>2
  <1>14. run'[r].phase \notin Holding BY <1>3, <1>4 DEF Holding
  <1>15. /\ steps' \in [Writes -> {"absent", "unknown", "verified"}]
         /\ \A v \in Writes : v # pending => steps'[v] = steps[v]
         /\ steps'[pending] = "verified"
    BY <1>1, <1>7 DEF SaveTypeOK
  <1>16. SaveTypeOK' BY <1>1, <1>4, <1>15 DEF SaveTypeOK, RunRow
  <1>17. Wired' BY <1>1, <1>10 DEF Wired, Settled
  <1>18. Counted' BY <1>1, <1>15 DEF Counted
  <1>19. Journal' BY <1>1, WriteKinds DEF Journal
  <1>20. VerifiedTookEffect'
    <2> SUFFICES ASSUME NEW v \in Writes, steps'[v] = "verified"
                 PROVE  /\ Known(Save) /\ row[Save].content = source
                        /\ v[1] = "chunk" /\ In(Save, "receiving") =>
                              Len(row[Save].chunks) >= End(v)
                        /\ v = Committed => In(Save, "complete")
      BY <1>0, <1>1 DEF VerifiedTookEffect, In, Known
    <2>1. CASE v # pending BY <1>15, <2>1 DEF VerifiedTookEffect
    <2>2. CASE v = pending
      <3>1. ASSUME v[1] = "chunk", In(Save, "receiving")
            PROVE  Len(row[Save].chunks) >= End(v)
        <4>1. o.received <= Len(row[Save].chunks) BY <1>6, <3>1
        <4>2. o.received >= End(v) BY <1>1, <2>2
        <4>3. PICK n \in Offset : v = <<"chunk", n>> BY <1>7, <2>2, <3>1, WriteKinds
        <4>4. End(v) = n + 1 /\ n \in Nat BY <1>8, <4>3 DEF End
        <4> QED BY <1>8, <4>1, <4>2, <4>4
      <3> QED BY <1>6, <1>7, <2>2, <3>1
    <2> QED BY <2>1, <2>2
  <1> QED
    BY <1>4, <1>11, <1>12, <1>13, <1>14, <1>16, <1>17, <1>18, <1>19, <1>20, Moved

\* A commit is verified by the state of its upload, for good.
LEMMA CompletedKeeps ==
    ASSUME SaveInv, UNCHANGED vars, NEW r \in Runner, ReconcileCommit(r)
    PROVE  SaveInv'
  <1> USE DEF SaveInv
  <1>0. row' = row /\ task' = task BY DEF vars
  <1>1. /\ run[r].phase = "observed" /\ run' = [run EXCEPT ![r] = Idle]
        /\ run[r].seen # None /\ run[r].seen.state = "complete"
        /\ stage = "commit_unknown" /\ stage' = "completed"
        /\ steps' = [steps EXCEPT ![pending] = "verified"]
        /\ lease' \in {lease, IF lease = r THEN None ELSE lease}
        /\ UNCHANGED <<pending, source, spool, wire, sent>>
    BY DEF ReconcileCommit, Is, Published
  <1>2. run \in [Runner -> RunRow] BY DEF SaveTypeOK, RunRow
  <1>3. /\ run' \in [Runner -> RunRow] /\ run'[r] = Idle
        /\ \A q \in Runner : q # r => run'[q] = run[q]
    BY <1>1, <1>2, IdleRow
  <1>4. /\ In(Save, "complete") /\ row[Save].content = source /\ Known(Save)
        /\ pending = Committed /\ pending \in Writes
    <2>1. SeenTrue(run[r]) /\ Working(run[r]) BY DEF Runs
    <2>2. run[r].content = source BY <1>1, <2>1 DEF Working, Reading
    <2> QED BY <1>1, <2>1, <2>2, WriteKinds DEF SeenTrue, Journal
  <1>5. Settled
    <2>1. ~Away(pending) BY <1>4 DEF Arrived, Busy
    <2> QED BY <2>1, ReceivedHeld
  <1>6. SeenTrue(run[r])' BY <1>3, IdleRow DEF SeenTrue
  <1>7. ASSUME NEW q \in Runner PROVE Working(run[q])'
    <2>1. CASE q = r
      BY <1>3, <2>1, IdleRow DEF Working, Reading, Holding
    <2>2. CASE q # r
      <3>1. run'[q] = run[q] /\ Working(run[q]) BY <1>3, <2>2 DEF Runs
      <3>2. run[q].phase \notin Holding BY <1>5 DEF Settled
      <3> QED BY <1>1, <3>1, <3>2 DEF Working
    <2> QED BY <2>1, <2>2
  <1>8. run'[r].phase \notin Holding BY <1>3, IdleRow DEF Holding
  <1>9. /\ steps' \in [Writes -> {"absent", "unknown", "verified"}]
        /\ \A v \in Writes : v # pending => steps'[v] = steps[v]
        /\ steps'[pending] = "verified"
    BY <1>1, <1>4 DEF SaveTypeOK
  <1>10. SaveTypeOK'
    <2>1. lease' \in Runner \cup {None} BY <1>1 DEF SaveTypeOK
    <2> QED BY <1>1, <1>3, <1>9, <2>1 DEF SaveTypeOK, RunRow, Stage
  <1>11. Wired' BY <1>1, <1>5 DEF Wired, Settled
  <1>12. Counted' BY <1>1, <1>9 DEF Counted
  <1>13. Journal'
    <2>1. In(Save, "complete")' /\ row'[Save].content = source'
      BY <1>0, <1>1, <1>4 DEF In, Known
    <2> QED BY <1>1, <1>4, <1>9, <2>1 DEF Journal
  <1>14. VerifiedTookEffect'
    <2> SUFFICES ASSUME NEW v \in Writes, steps'[v] = "verified"
                 PROVE  /\ Known(Save) /\ row[Save].content = source
                        /\ v[1] = "chunk" /\ In(Save, "receiving") =>
                              Len(row[Save].chunks) >= End(v)
                        /\ v = Committed => In(Save, "complete")
      BY <1>0, <1>1 DEF VerifiedTookEffect, In, Known
    <2>1. CASE v # pending BY <1>9, <2>1 DEF VerifiedTookEffect
    <2>2. CASE v = pending
      <3>1. ~In(Save, "receiving") BY <1>4 DEF In
      <3> QED BY <1>4, <2>2, <3>1
    <2> QED BY <2>1, <2>2
  <1>15. \A v : ~Away(v) <=> ~Away(v)' BY <1>1 DEF Away
  <1> QED
    BY <1>0, <1>3, <1>6, <1>7, <1>8, <1>10, <1>11, <1>12, <1>13, <1>14, <1>15, Moved

\* Every step of a save keeps the invariants.
LEMMA SaveStepsKeep ==
    ASSUME IInv, SaveInv, SaveNext
    PROVE  IInv' /\ SaveInv'
  <1>1. CASE ((\E r \in Runner : Advance(r)) \/ LapseLease) /\ UNCHANGED vars
    <2>1. IInv' BY <1>1, StepsKeep
    <2>2. ASSUME NEW r \in Runner, Advance(r), UNCHANGED vars PROVE SaveInv'
      BY <2>2, QuietSteps, ClaimKeeps, VerifiedKeeps, DispatchesKeep, SendKeeps,
         ReconcileKeeps, CompletedKeeps
      DEF Advance
    <2>3. ASSUME LapseLease, UNCHANGED vars PROVE SaveInv'
      <3>1. PICK r \in Runner : r = lease
        BY <2>3 DEF LapseLease, SaveInv, SaveTypeOK
      <3> QED BY <2>3, <3>1, QuietSteps
    <2> QED BY <1>1, <2>1, <2>2, <2>3
  <1>2. CASE (\E m \in wire : Serve(m) \/ Refuse(m)) /\ Witness
    <2>1. ASSUME NEW m \in wire, Serve(m), Witness PROVE IInv' /\ SaveInv'
      <3>1. IInv' BY <2>1, ServeNext, StepsKeep
      <3>2. TypeOK' BY <3>1 DEF IInv
      <3> QED BY <2>1, <3>1, <3>2, ServeKeeps
    <2> QED BY <1>2, <2>1, RefuseKeeps
  <1>3. CASE (Commit \/ Owner \/ FileSystem) /\ Witness /\ UNCHANGED saveVars
    <2>1. Next
      BY <1>3, SaveAssumption DEF Next, Call, Commit, Owner
    <2>2. IInv' BY <2>1, StepsKeep
    <2>3. TypeOK' BY <2>2 DEF IInv
    <2> QED BY <1>3, <2>2, <2>3, CalmKeeps
  <1> QED BY <1>1, <1>2, <1>3 DEF SaveNext

\* Doing nothing keeps the invariant of the save.
LEMMA SaveStutters ==
    ASSUME SaveInv, UNCHANGED <<vars, saveVars>>
    PROVE  SaveInv'
  <1>1. row' = row /\ task' = task /\ UNCHANGED saveVars BY DEF vars
  <1> QED BY <1>1
    DEF saveVars, SaveInv, SaveTypeOK, Arrived, Runs, Wired, Counted, Journal, Away, Busy,
        SeenTrue, Working, VerifiedTookEffect, In, Known, Free

\* A save starts with nothing recorded, sent or held.
LEMMA SaveStarts ==
    ASSUME SaveInit
    PROVE  IInv /\ SaveInv
  <1> USE SaveAssumption
  <1>1. IInv BY Starts DEF SaveInit
  <1>2. ~Known(Save) /\ Free(Save) BY DEF SaveInit, Init, Known, Free
  <1>3. SaveTypeOK
    <2>1. run \in [Runner -> RunRow] BY IdleRow DEF SaveInit
    <2> QED BY <2>1 DEF SaveInit, SaveTypeOK, Stage, RunRow
  <1>4. Arrived BY <1>2 DEF Arrived, Busy, In
  <1>5. Runs
    <2>1. \A r \in Runner : run[r] = Idle BY DEF SaveInit
    <2> QED BY <2>1, IdleRow DEF Runs, Holding
  <1>6. Wired /\ Counted BY DEF SaveInit, Wired, Counted
  <1>7. Journal BY WriteKinds DEF SaveInit, Journal
  <1>8. VerifiedTookEffect BY DEF SaveInit, VerifiedTookEffect
  <1> QED BY <1>1, <1>3, <1>4, <1>5, <1>6, <1>7, <1>8 DEF SaveInv

-----------------------------------------------------------------------------
(* Uploads to the Library (LibraryUpload).  A call that holds a file has
   claimed it, alone, and it was not given yet; the bytes a call pinned are
   those its ID is reserved for. *)

LibraryRow == [content : LibraryBytes \cup {NoBytes}, path : LibraryPaths \cup {"none"},
               approved : BOOLEAN, claimed : BOOLEAN, file : BOOLEAN,
               stage : {"unknown", "put", "processed", "ready"}]
LibraryCall == [stage : {"idle", "pinned", "claimed", "given", "created", "put", "seen"},
                todo : Seq(LibraryOps), path : LibraryPaths \cup {"none"},
                bytes : [LibraryOps -> LibraryBytes \cup {NoBytes}], mcp : BOOLEAN]
Given == Nat \X SUBSET LibraryBytes

LibraryTypes ==
    /\ local \in [LibraryPaths -> LibraryBytes]
    /\ reserved \in [LibraryOps -> LibraryRow]
    /\ uploader \in [LibraryCalls -> LibraryCall]
    /\ library \in [LibraryOps -> {"absent", "created", "ready"}]
    /\ given \in [LibraryOps -> Given]
    /\ \A k \in LibraryCalls : uploader[k].stage # "idle" => uploader[k].todo # << >>

\* what a call holds in memory is what its IDs are reserved for
Pinned(u) == \A o \in LibraryOps :
                u.bytes[o] # NoBytes => u.bytes[o] = reserved[o].content
Holds(u, o) == u.stage = "claimed" /\ Head(u.todo) = o

\* what was given for an ID, and by whom it may be given yet
Once(o) ==
    /\ given[o][1] <= 1 /\ given[o][2] \subseteq {reserved[o].content}
    /\ given[o][1] > 0 => reserved[o].claimed
    /\ given[o][2] # {} => reserved[o].content # NoBytes
    /\ reserved[o].approved => reserved[o].content # NoBytes
    /\ reserved[o].stage = "ready" => library[o] = "ready"
Holder(k, o) ==
    Holds(uploader[k], o) =>
       /\ reserved[o].claimed /\ given[o][1] = 0 /\ uploader[k].bytes[o] # NoBytes
       /\ \A j \in LibraryCalls : Holds(uploader[j], o) => j = k

LibraryInv ==
    /\ LibraryTypes
    /\ \A k \in LibraryCalls : Pinned(uploader[k])
    /\ \A o \in LibraryOps : Once(o)
    /\ \A k \in LibraryCalls, o \in LibraryOps : Holder(k, o)

\* A step of one call that gives nothing away and claims nothing: the rows keep
\* their bytes and their claims.
LEMMA CallKeeps ==
    ASSUME LibraryInv, NEW k \in LibraryCalls, NEW u \in LibraryCall,
           uploader' = [uploader EXCEPT ![k] = u],
           reserved' \in [LibraryOps -> LibraryRow],
           \A o \in LibraryOps :
              /\ reserved[o].content # NoBytes => reserved'[o].content = reserved[o].content
              /\ reserved'[o].claimed = reserved[o].claimed
              /\ reserved'[o].approved => reserved'[o].content # NoBytes
              /\ reserved'[o].stage = "ready" => library[o] = "ready",
           UNCHANGED <<local, library, given>>,
           u.stage # "claimed", u.stage # "idle" => u.todo # << >>,
           \A o \in LibraryOps : u.bytes[o] # NoBytes => u.bytes[o] = reserved'[o].content
    PROVE  LibraryInv'
  <1> USE DEF LibraryInv
  <1>1. /\ uploader' \in [LibraryCalls -> LibraryCall] /\ uploader'[k] = u
        /\ \A j \in LibraryCalls : j # k => uploader'[j] = uploader[j]
    BY DEF LibraryTypes
  <1>2. LibraryTypes' BY <1>1 DEF LibraryTypes
  <1>3. ASSUME NEW j \in LibraryCalls PROVE Pinned(uploader[j])'
    <2>1. CASE j = k BY <1>1, <2>1 DEF Pinned
    <2>2. CASE j # k BY <1>1, <2>2 DEF Pinned
    <2> QED BY <2>1, <2>2
  <1>4. ASSUME NEW o \in LibraryOps PROVE Once(o)'
    BY DEF Once
  <1>5. ASSUME NEW j \in LibraryCalls, NEW o \in LibraryOps PROVE Holder(j, o)'
    <2> SUFFICES ASSUME Holds(uploader[j], o)'
                 PROVE  /\ reserved'[o].claimed /\ given[o][1] = 0
                        /\ uploader'[j].bytes[o] # NoBytes
                        /\ \A i \in LibraryCalls : Holds(uploader[i], o)' => i = j
      BY DEF Holder
    <2>1. j # k /\ Holds(uploader[j], o) BY <1>1 DEF Holds
    <2>2. ASSUME NEW i \in LibraryCalls, Holds(uploader[i], o)' PROVE i = j
      <3>1. i # k /\ Holds(uploader[i], o) BY <1>1, <2>2 DEF Holds
      <3> QED BY <2>1, <3>1 DEF Holder
    <2> QED BY <1>1, <2>1, <2>2 DEF Holder
  <1> QED BY <1>2, <1>3, <1>4, <1>5

\* A step of the owner, or of the Library, that leaves the calls alone.
LEMMA RowsKeep ==
    ASSUME LibraryInv, UNCHANGED <<uploader, given>>,
           local' \in [LibraryPaths -> LibraryBytes],
           reserved' \in [LibraryOps -> LibraryRow],
           library' \in [LibraryOps -> {"absent", "created", "ready"}],
           \A o \in LibraryOps :
              /\ reserved[o].content # NoBytes => reserved'[o].content = reserved[o].content
              /\ reserved'[o].claimed = reserved[o].claimed
              /\ reserved'[o].approved => reserved'[o].content # NoBytes
              /\ library[o] = "ready" => library'[o] = "ready"
              /\ reserved'[o].stage = "ready" => library'[o] = "ready"
    PROVE  LibraryInv'
  <1> USE DEF LibraryInv
  <1>1. LibraryTypes' BY DEF LibraryTypes
  <1>2. ASSUME NEW j \in LibraryCalls PROVE Pinned(uploader[j])'
    BY DEF Pinned
  <1>3. ASSUME NEW o \in LibraryOps PROVE Once(o)'
    BY DEF Once
  <1>4. ASSUME NEW j \in LibraryCalls, NEW o \in LibraryOps PROVE Holder(j, o)'
    BY DEF Holder, Holds
  <1> QED BY <1>1, <1>2, <1>3, <1>4

\* An ID is prepared for the bytes it has, or for its first.
LEMMA PrepareKeeps ==
    ASSUME LibraryInv, NEW o \in LibraryOps, NEW p \in LibraryPaths, Library!Prepare(o, p)
    PROVE  LibraryInv'
  <1> USE DEF LibraryInv
  <1>0. /\ local \in [LibraryPaths -> LibraryBytes]
        /\ reserved \in [LibraryOps -> LibraryRow]
        /\ library \in [LibraryOps -> {"absent", "created", "ready"}]
    BY DEF LibraryTypes
  <1>o. \A x \in LibraryOps :
           /\ reserved[x].approved => reserved[x].content # NoBytes
           /\ reserved[x].stage = "ready" => library[x] = "ready"
    BY DEF Once
  <1> DEFINE q == [reserved[o] EXCEPT !.content = local[p], !.path = p, !.approved = TRUE]
  <1>1. /\ q \in LibraryRow /\ q.content = local[p]
        /\ q.claimed = reserved[o].claimed /\ q.stage = reserved[o].stage
    BY <1>0 DEF LibraryRow
  <1>2. /\ reserved' = [reserved EXCEPT ![o] = q] /\ local[p] # NoBytes
        /\ reserved[o].content \in {NoBytes, local[p]}
        /\ UNCHANGED <<local, uploader, given, library>>
    BY <1>0, LibraryAssumption DEF Library!Prepare, Library!Fits
  <1> HIDE DEF q
  <1>3. /\ reserved' \in [LibraryOps -> LibraryRow] /\ reserved'[o] = q
        /\ \A x \in LibraryOps : x # o => reserved'[x] = reserved[x]
    BY <1>0, <1>1, <1>2
  <1> QED BY <1>0, <1>o, <1>1, <1>2, <1>3, RowsKeep

\* The steps of the owner and of the Library.
LEMMA LibraryAside ==
    ASSUME LibraryInv,
           \/ \E p \in LibraryPaths, c \in LibraryBytes : Library!Edit(p, c)
           \/ \E o \in LibraryOps :
                 \/ Library!Lapse(o) \/ Library!Provide(o) \/ Library!Reconcile(o)
                 \/ \E p \in LibraryPaths : Library!Prepare(o, p)
    PROVE  LibraryInv'
  <1> USE DEF LibraryInv
  <1>0. /\ local \in [LibraryPaths -> LibraryBytes]
        /\ reserved \in [LibraryOps -> LibraryRow]
        /\ library \in [LibraryOps -> {"absent", "created", "ready"}]
    BY DEF LibraryTypes
  <1>o. \A o \in LibraryOps :
           /\ reserved[o].approved => reserved[o].content # NoBytes
           /\ reserved[o].stage = "ready" => library[o] = "ready"
    BY DEF Once
  <1>1. ASSUME NEW p \in LibraryPaths, NEW c \in LibraryBytes, Library!Edit(p, c)
        PROVE  LibraryInv'
    <2>1. /\ local' \in [LibraryPaths -> LibraryBytes]
          /\ UNCHANGED <<uploader, given, reserved, library>>
      BY <1>0, <1>1 DEF Library!Edit
    <2> QED BY <1>0, <1>o, <2>1, RowsKeep
  <1>2. ASSUME NEW o \in LibraryOps, Library!Lapse(o)
        PROVE  LibraryInv'
    <2> DEFINE q == [reserved[o] EXCEPT !.approved = FALSE]
    <2>1. /\ q \in LibraryRow /\ q.content = reserved[o].content /\ q.approved = FALSE
          /\ q.claimed = reserved[o].claimed /\ q.stage = reserved[o].stage
      BY <1>0 DEF LibraryRow
    <2>2. /\ reserved' = [reserved EXCEPT ![o] = q]
          /\ UNCHANGED <<local, uploader, given, library>>
      BY <1>2 DEF Library!Lapse
    <2> HIDE DEF q
    <2>3. /\ reserved' \in [LibraryOps -> LibraryRow] /\ reserved'[o] = q
          /\ \A x \in LibraryOps : x # o => reserved'[x] = reserved[x]
      BY <1>0, <2>1, <2>2
    <2> QED BY <1>0, <1>o, <2>1, <2>2, <2>3, RowsKeep
  <1>3. ASSUME NEW o \in LibraryOps, Library!Provide(o)
        PROVE  LibraryInv'
    <2>1. /\ library' \in [LibraryOps -> {"absent", "created", "ready"}]
          /\ \A x \in LibraryOps : library[x] = "ready" => library'[x] = "ready"
          /\ UNCHANGED <<local, uploader, given, reserved>>
      BY <1>0, <1>3 DEF Library!Provide
    <2> QED BY <1>0, <1>o, <2>1, RowsKeep
  <1>4. ASSUME NEW o \in LibraryOps, Library!Reconcile(o)
        PROVE  LibraryInv'
    <2> DEFINE q == [reserved[o] EXCEPT !.stage = "ready"]
    <2>1. /\ q \in LibraryRow /\ q.content = reserved[o].content
          /\ q.approved = reserved[o].approved
          /\ q.claimed = reserved[o].claimed
      BY <1>0 DEF LibraryRow
    <2>2. /\ reserved' = [reserved EXCEPT ![o] = q] /\ library[o] = "ready"
          /\ UNCHANGED <<local, uploader, given, library>>
      BY <1>4 DEF Library!Reconcile
    <2> HIDE DEF q
    <2>3. /\ reserved' \in [LibraryOps -> LibraryRow] /\ reserved'[o] = q
          /\ \A x \in LibraryOps : x # o => reserved'[x] = reserved[x]
      BY <1>0, <2>1, <2>2
    <2> QED BY <1>0, <1>o, <2>1, <2>2, <2>3, RowsKeep
  <1> QED BY <1>1, <1>2, <1>3, <1>4, PrepareKeeps

\* A call pins the bytes of what it may upload.
LEMMA PinKeeps ==
    ASSUME LibraryInv, NEW k \in LibraryCalls, NEW p \in LibraryPaths,
           \/ \E b \in Batches : Library!Pin(k, b, p)
           \/ \E o \in LibraryOps : Library!Command(k, o, p)
    PROVE  LibraryInv'
  <1> USE DEF LibraryInv
  <1>0. /\ local[p] \in LibraryBytes /\ local[p] # NoBytes
        /\ reserved \in [LibraryOps -> LibraryRow]
    BY LibraryAssumption DEF LibraryTypes
  <1>o. \A o \in LibraryOps :
           /\ reserved[o].approved => reserved[o].content # NoBytes
           /\ reserved[o].stage = "ready" => library[o] = "ready"
    BY DEF Once
  <1>1. ASSUME NEW b \in Batches, Library!Pin(k, b, p)
        PROVE  LibraryInv'
    <2> DEFINE files == {b[i] : i \in 1 .. Len(b)}
               bytes == [o \in LibraryOps |-> IF o \in files /\ ~ reserved[o].claimed
                                              THEN local[p] ELSE NoBytes]
               u == [stage |-> "pinned", todo |-> b, path |-> p, mcp |-> TRUE,
                     bytes |-> bytes]
    <2>1. /\ uploader' = [uploader EXCEPT ![k] = u]
          /\ \A o \in files : \/ reserved[o].claimed
                              \/ reserved[o].approved /\ reserved[o].content \in {NoBytes, local[p]}
          /\ UNCHANGED <<local, reserved, library, given>>
      BY <1>1 DEF Library!Pin, Library!Approves, Library!Fits
    <2>2. b \in Seq(LibraryOps) /\ b # << >> BY LibraryAssumption
    <2>3. bytes \in [LibraryOps -> LibraryBytes \cup {NoBytes}] BY <1>0
    <2>4. \A o \in LibraryOps : bytes[o] # NoBytes => bytes[o] = reserved[o].content
      BY <1>o, <2>1
    <2> HIDE DEF files, bytes
    <2>5. /\ u \in LibraryCall /\ u.stage = "pinned" /\ u.todo = b /\ u.bytes = bytes
      BY <2>2, <2>3 DEF LibraryCall
    <2> HIDE DEF u
    <2> QED BY <1>0, <1>o, <2>1, <2>2, <2>4, <2>5, CallKeeps
  <1>2. ASSUME NEW o \in LibraryOps, Library!Command(k, o, p)
        PROVE  LibraryInv'
    <2> DEFINE bytes == [x \in LibraryOps |-> IF x = o /\ ~ reserved[o].claimed
                                              THEN local[p] ELSE NoBytes]
               u == [stage |-> "pinned", todo |-> <<o>>, path |-> p, mcp |-> FALSE,
                     bytes |-> bytes]
               q == [reserved[o] EXCEPT !.content = local[p]]
    <2>1. /\ uploader' = [uploader EXCEPT ![k] = u]
          /\ reserved[o].claimed \/ reserved[o].content \in {NoBytes, local[p]}
          /\ reserved' = IF reserved[o].claimed THEN reserved ELSE [reserved EXCEPT ![o] = q]
          /\ UNCHANGED <<local, library, given>>
      BY <1>2 DEF Library!Command, Library!Fits
    <2>2. <<o>> \in Seq(LibraryOps) /\ <<o>> # << >> OBVIOUS
    <2>3. bytes \in [LibraryOps -> LibraryBytes \cup {NoBytes}] BY <1>0
    <2>4. /\ q \in LibraryRow /\ q.content = local[p] /\ q.approved = reserved[o].approved
          /\ q.claimed = reserved[o].claimed /\ q.stage = reserved[o].stage
      BY <1>0 DEF LibraryRow
    <2>5. \A x \in LibraryOps : bytes[x] # NoBytes => x = o /\ bytes[x] = local[p] /\ ~reserved[o].claimed
      OBVIOUS
    <2> HIDE DEF q, bytes
    <2>6. /\ reserved' \in [LibraryOps -> LibraryRow]
          /\ ~reserved[o].claimed => reserved'[o] = q
          /\ reserved[o].claimed => reserved'[o] = reserved[o]
          /\ \A x \in LibraryOps : x # o => reserved'[x] = reserved[x]
      BY <1>0, <2>1, <2>4
    <2>7. /\ u \in LibraryCall /\ u.stage = "pinned" /\ u.todo = <<o>> /\ u.bytes = bytes
      BY <2>2, <2>3 DEF LibraryCall
    <2> HIDE DEF u
    <2>8. \A x \in LibraryOps : u.bytes[x] # NoBytes => u.bytes[x] = reserved'[x].content
      BY <2>4, <2>5, <2>6, <2>7
    <2>9. \A x \in LibraryOps :
             /\ reserved[x].content # NoBytes => reserved'[x].content = reserved[x].content
             /\ reserved'[x].claimed = reserved[x].claimed
             /\ reserved'[x].approved => reserved'[x].content # NoBytes
             /\ reserved'[x].stage = "ready" => library[x] = "ready"
      BY <1>0, <1>o, <2>1, <2>4, <2>6
    <2> QED BY <2>1, <2>2, <2>6, <2>7, <2>8, <2>9, CallKeeps
  <1> QED BY <1>1, <1>2

\* The end of a call, whatever it did.
LEMMA EndKeeps ==
    ASSUME LibraryInv, NEW k \in LibraryCalls,
           uploader' = [uploader EXCEPT ![k] = Library!Idle],
           reserved' \in [LibraryOps -> LibraryRow],
           \A o \in LibraryOps :
              /\ reserved[o].content # NoBytes => reserved'[o].content = reserved[o].content
              /\ reserved'[o].claimed = reserved[o].claimed
              /\ reserved'[o].approved => reserved'[o].content # NoBytes
              /\ reserved'[o].stage = "ready" => library[o] = "ready",
           UNCHANGED <<local, library, given>>
    PROVE  LibraryInv'
  <1>1. << >> \in Seq(LibraryOps) OBVIOUS
  <1>2. /\ Library!Idle \in LibraryCall /\ Library!Idle.stage = "idle"
        /\ \A o \in LibraryOps : Library!Idle.bytes[o] = NoBytes
    BY <1>1 DEF Library!Idle, LibraryCall
  <1> QED BY <1>2, CallKeeps

\* A call that has given its file, or found it claimed, only watches.
LEMMA WatchKeeps ==
    ASSUME LibraryInv, NEW k \in LibraryCalls,
           Library!Watch(k) \/ Library!Observe(k) \/ Library!Fail(k)
    PROVE  LibraryInv'
  <1> USE DEF LibraryInv
  <1> DEFINE u == uploader[k]
             o == Head(u.todo)
  <1>0. /\ reserved \in [LibraryOps -> LibraryRow] /\ u \in LibraryCall /\ Pinned(u)
        /\ uploader \in [LibraryCalls -> LibraryCall]
        /\ u.stage # "idle" => u.todo # << >>
        /\ u.todo \in Seq(LibraryOps)
    BY DEF LibraryTypes, LibraryCall
  <1>o. \A x \in LibraryOps :
           /\ reserved[x].approved => reserved[x].content # NoBytes
           /\ reserved[x].stage = "ready" => library[x] = "ready"
    BY DEF Once
  <1>1. CASE Library!Fail(k)
    <2>1. /\ uploader' = [uploader EXCEPT ![k] = Library!Idle]
          /\ UNCHANGED <<local, reserved, library, given>>
      BY <1>1 DEF Library!Fail
    <2> QED BY <1>0, <1>o, <2>1, EndKeeps
  <1>2. CASE Library!Watch(k)
    <2>1. u.stage # "idle" BY <1>2 DEF Library!Watch
    <2>2. o \in LibraryOps BY <1>0, <2>1
    <2>3. PICK s \in {"created", "put", "seen"} :
             uploader' = [uploader EXCEPT ![k] = [u EXCEPT !.stage = s]]
      BY <1>2 DEF Library!Watch
    <2> DEFINE v == [u EXCEPT !.stage = s]
    <2>4. /\ v \in LibraryCall /\ v.stage = s /\ v.todo = u.todo /\ v.bytes = u.bytes
      <3>1. v \in LibraryCall BY <1>0 DEF LibraryCall
      <3> QED BY <1>0, <3>1 DEF LibraryCall
    <2> DEFINE f == [reserved[o] EXCEPT !.file = TRUE]
               p == [reserved[o] EXCEPT !.stage = IF @ = "ready" THEN @ ELSE "put"]
               q == [reserved[o] EXCEPT !.stage = IF @ = "ready" THEN @ ELSE "processed"]
    <2>5. \A r \in {f, p, q} :
             /\ r \in LibraryRow /\ r.content = reserved[o].content
             /\ r.approved = reserved[o].approved /\ r.claimed = reserved[o].claimed
             /\ r.stage = "ready" => reserved[o].stage = "ready"
      <3>1. reserved[o] \in LibraryRow BY <1>0, <2>2
      <3>2. /\ f \in LibraryRow /\ f.content = reserved[o].content
            /\ f.approved = reserved[o].approved /\ f.claimed = reserved[o].claimed
            /\ f.stage = reserved[o].stage
        BY <3>1 DEF LibraryRow
      <3>3. /\ p \in LibraryRow /\ p.content = reserved[o].content
            /\ p.approved = reserved[o].approved /\ p.claimed = reserved[o].claimed
            /\ p.stage = "ready" => reserved[o].stage = "ready"
        BY <3>1 DEF LibraryRow
      <3>4. /\ q \in LibraryRow /\ q.content = reserved[o].content
            /\ q.approved = reserved[o].approved /\ q.claimed = reserved[o].claimed
            /\ q.stage = "ready" => reserved[o].stage = "ready"
        BY <3>1 DEF LibraryRow
      <3> HIDE DEF f, p, q
      <3> QED BY <3>2, <3>3, <3>4
    <2>6. PICK r \in {f, p, q} : reserved' = [reserved EXCEPT ![o] = r]
      BY <1>2 DEF Library!Watch
    <2>7. UNCHANGED <<local, library, given>> BY <1>2 DEF Library!Watch
    <2> HIDE DEF f, p, q, v
    <2>8. /\ reserved' \in [LibraryOps -> LibraryRow] /\ reserved'[o] = r
          /\ \A x \in LibraryOps : x # o => reserved'[x] = reserved[x]
      BY <1>0, <2>2, <2>5, <2>6
    <2>9. uploader' = [uploader EXCEPT ![k] = v] BY <2>3 DEF v
    <2> HIDE DEF o
    <2>10. \A x \in LibraryOps :
             /\ reserved'[x].content = reserved[x].content
             /\ reserved'[x].claimed = reserved[x].claimed
             /\ reserved'[x].approved => reserved'[x].content # NoBytes
             /\ reserved'[x].stage = "ready" => library[x] = "ready"
      BY <1>o, <2>2, <2>5, <2>8
    <2>11. \A x \in LibraryOps : v.bytes[x] # NoBytes => v.bytes[x] = reserved'[x].content
      BY <1>0, <2>4, <2>10 DEF Pinned
    <2>12. v.stage # "claimed" /\ v.todo # << >> BY <1>0, <2>1, <2>4
    <2> QED BY <2>4, <2>7, <2>8, <2>9, <2>10, <2>11, <2>12, CallKeeps
  <1>3. CASE Library!Observe(k)
    <2>1. u.stage # "idle" BY <1>3 DEF Library!Observe
    <2>2. o \in LibraryOps BY <1>0, <2>1
    <2> DEFINE g == [reserved[o] EXCEPT !.stage =
                       IF reserved[o].file /\ library[o] = "ready" THEN "ready" ELSE @]
    <2>3. /\ g \in LibraryRow /\ g.content = reserved[o].content
          /\ g.approved = reserved[o].approved /\ g.claimed = reserved[o].claimed
          /\ g.stage = "ready" => reserved[o].stage = "ready" \/ library[o] = "ready"
      <3>1. reserved[o] \in LibraryRow BY <1>0, <2>2
      <3> QED BY <3>1 DEF LibraryRow
    <2> DEFINE v == [u EXCEPT !.stage = "pinned", !.todo = Tail(u.todo)]
    <2>4. PICK r \in {reserved[o], g} :
             /\ reserved' = [reserved EXCEPT ![o] = r]
             /\ \/ Tail(u.todo) # << >> /\ uploader' = [uploader EXCEPT ![k] = v]
                \/ uploader' = [uploader EXCEPT ![k] = Library!Idle]
      BY <1>3 DEF Library!Observe
    <2>5. UNCHANGED <<local, library, given>> BY <1>3 DEF Library!Observe
    <2>6. Tail(u.todo) \in Seq(LibraryOps) BY <1>0, <2>1
    <2>7. /\ v \in LibraryCall /\ v.stage = "pinned" /\ v.todo = Tail(u.todo)
          /\ v.bytes = u.bytes
      <3>1. v \in LibraryCall BY <1>0, <2>6 DEF LibraryCall
      <3> QED BY <1>0, <3>1 DEF LibraryCall
    <2> HIDE DEF g, v
    <2>8. /\ reserved' \in [LibraryOps -> LibraryRow] /\ reserved'[o] = r
          /\ \A x \in LibraryOps : x # o => reserved'[x] = reserved[x]
      BY <1>0, <2>2, <2>3, <2>4
    <2> HIDE DEF o
    <2>9. \A x \in LibraryOps :
             /\ reserved'[x].content = reserved[x].content
             /\ reserved'[x].claimed = reserved[x].claimed
             /\ reserved'[x].approved => reserved'[x].content # NoBytes
             /\ reserved'[x].stage = "ready" => library[x] = "ready"
      BY <1>o, <2>2, <2>3, <2>4, <2>8
    <2>10. \A x \in LibraryOps : v.bytes[x] # NoBytes => v.bytes[x] = reserved'[x].content
      BY <1>0, <2>7, <2>9 DEF Pinned
    <2>11. CASE Tail(u.todo) # << >> /\ uploader' = [uploader EXCEPT ![k] = v]
      BY <2>5, <2>7, <2>8, <2>9, <2>10, <2>11, CallKeeps
    <2>12. CASE uploader' = [uploader EXCEPT ![k] = Library!Idle]
      BY <2>5, <2>8, <2>9, <2>12, EndKeeps
    <2> QED BY <2>4, <2>11, <2>12
  <1> QED BY <1>1, <1>2, <1>3

\* A file is claimed once: who finds it claimed only watches.
LEMMA ClaimOnce ==
    ASSUME LibraryInv, NEW k \in LibraryCalls, Library!Claim(k)
    PROVE  LibraryInv'
  <1> USE DEF LibraryInv
  <1> DEFINE u == uploader[k]
             o == Head(u.todo)
             q == [reserved[o] EXCEPT !.claimed = TRUE]
             s == IF ~reserved[o].claimed THEN "claimed" ELSE "seen"
             v == [u EXCEPT !.stage = s]
  <1>0. /\ reserved \in [LibraryOps -> LibraryRow] /\ u \in LibraryCall /\ Pinned(u)
        /\ uploader \in [LibraryCalls -> LibraryCall]
        /\ u.stage # "idle" => u.todo # << >>
        /\ u.todo \in Seq(LibraryOps)
    BY DEF LibraryTypes, LibraryCall
  <1>1. /\ u.stage = "pinned" /\ u.bytes[o] # NoBytes
        /\ reserved' = [reserved EXCEPT ![o] = q]
        /\ uploader' = [uploader EXCEPT ![k] = v]
        /\ UNCHANGED <<local, library, given>>
    BY DEF Library!Claim, Library!Unclaimed
  <1>2. o \in LibraryOps BY <1>0, <1>1
  <1>3. /\ q \in LibraryRow /\ q.content = reserved[o].content /\ q.claimed
        /\ q.approved = reserved[o].approved /\ q.stage = reserved[o].stage
    <2>1. reserved[o] \in LibraryRow BY <1>0, <1>2
    <2>2. q.claimed = TRUE BY <2>1 DEF LibraryRow
    <2> QED BY <2>1, <2>2 DEF LibraryRow
  <1>4. /\ v \in LibraryCall /\ v.stage = s /\ v.todo = u.todo /\ v.bytes = u.bytes
    <2>1. v \in LibraryCall BY <1>0 DEF LibraryCall
    <2> QED BY <1>0, <2>1 DEF LibraryCall
  <1> HIDE DEF q, v
  <1>5. /\ reserved' \in [LibraryOps -> LibraryRow] /\ reserved'[o] = q
        /\ \A x \in LibraryOps : x # o => reserved'[x] = reserved[x]
    BY <1>0, <1>1, <1>2, <1>3
  <1>6. /\ uploader' \in [LibraryCalls -> LibraryCall] /\ uploader'[k] = v
        /\ \A j \in LibraryCalls : j # k => uploader'[j] = uploader[j]
    BY <1>0, <1>1, <1>4
  <1>7. Head(v.todo) = o BY <1>4
  <1>8. /\ reserved[o].claimed => v.stage = "seen"
        /\ ~reserved[o].claimed => v.stage = "claimed"
    BY <1>4
  <1> HIDE DEF o, u, s
  <1>9. LibraryTypes'
    <2>1. v.stage # "idle" /\ v.todo # << >> BY <1>0, <1>1, <1>4, <1>8
    <2> QED BY <1>1, <1>5, <1>6, <2>1 DEF LibraryTypes
  <1>10. ASSUME NEW x \in LibraryOps
         PROVE  /\ reserved'[x].content = reserved[x].content
                /\ reserved'[x].approved = reserved[x].approved
                /\ reserved'[x].stage = reserved[x].stage
                /\ reserved[x].claimed => reserved'[x].claimed
    BY <1>3, <1>5
  <1>11. ASSUME NEW j \in LibraryCalls PROVE Pinned(uploader[j])'
    <2>1. uploader'[j].bytes = uploader[j].bytes BY <1>4, <1>6 DEF u
    <2> QED BY <1>10, <2>1 DEF Pinned
  <1>12. ASSUME NEW x \in LibraryOps PROVE Once(x)'
    BY <1>1, <1>10 DEF Once
  <1>13. ASSUME NEW j \in LibraryCalls, NEW x \in LibraryOps PROVE Holder(j, x)'
    <2>1. CASE reserved[o].claimed
      <3>1. \A i \in LibraryCalls : Holds(uploader[i], x)' => Holds(uploader[i], x)
        BY <1>6, <1>8, <2>1 DEF Holds
      <3>2. uploader'[j].bytes = uploader[j].bytes BY <1>4, <1>6 DEF u
      <3> QED BY <1>1, <1>10, <3>1, <3>2 DEF Holder
    <2>2. CASE ~reserved[o].claimed
      <3>1. given[o][1] = 0
        BY <1>2, <2>2 DEF Once, LibraryTypes, Given
      <3>2. \A i \in LibraryCalls : ~Holds(uploader[i], o)
        BY <1>2, <2>2 DEF Holder
      <3>3. CASE x = o
        <4>1. \A i \in LibraryCalls : Holds(uploader[i], x)' => i = k
          BY <1>6, <3>2, <3>3 DEF Holds
        <4>2. reserved'[o].claimed BY <1>3, <1>5
        <4> QED BY <1>1, <1>4, <1>6, <3>1, <3>3, <4>1, <4>2 DEF Holder
      <3>4. CASE x # o
        <4>1. \A i \in LibraryCalls : Holds(uploader[i], x)' => i # k /\ Holds(uploader[i], x)
          BY <1>6, <1>7, <3>4 DEF Holds
        <4> QED BY <1>1, <1>6, <1>10, <4>1 DEF Holder
      <3> QED BY <3>3, <3>4
    <2> QED BY <2>1, <2>2
  <1> QED BY <1>9, <1>11, <1>12, <1>13

\* A file is given by the one that claimed it, once.
LEMMA GiveOnce ==
    ASSUME LibraryInv, NEW k \in LibraryCalls, Library!Give(k)
    PROVE  LibraryInv'
  <1> USE DEF LibraryInv
  <1> DEFINE u == uploader[k]
             o == Head(u.todo)
             v == [u EXCEPT !.stage = "given"]
             g == <<given[o][1] + 1, given[o][2] \cup {u.bytes[o]}>>
  <1>0. /\ u \in LibraryCall /\ Pinned(u)
        /\ uploader \in [LibraryCalls -> LibraryCall]
        /\ u.stage # "idle" => u.todo # << >>
        /\ u.todo \in Seq(LibraryOps) /\ given \in [LibraryOps -> Given]
    BY DEF LibraryTypes, LibraryCall
  <1>1. /\ u.stage = "claimed"
        /\ given' = [given EXCEPT ![o] = g]
        /\ uploader' = [uploader EXCEPT ![k] = v]
        /\ UNCHANGED <<local, library, reserved>>
    BY DEF Library!Give
  <1>2. o \in LibraryOps BY <1>0, <1>1
  <1>3. Holds(u, o) BY <1>1 DEF Holds
  <1>4. /\ reserved[o].claimed /\ given[o][1] = 0 /\ u.bytes[o] # NoBytes
        /\ \A j \in LibraryCalls : Holds(uploader[j], o) => j = k
        /\ u.bytes[o] = reserved[o].content /\ u.bytes[o] \in LibraryBytes
    <2>1. u.bytes \in [LibraryOps -> LibraryBytes \cup {NoBytes}] BY <1>0 DEF LibraryCall
    <2> QED BY <1>0, <1>2, <1>3, <2>1 DEF Holder, Pinned
  <1>5. g \in Given /\ g[1] = 1 /\ g[2] \subseteq {reserved[o].content}
    <2>1. given[o][2] \subseteq {reserved[o].content} BY <1>2 DEF Once
    <2>2. given[o] \in Given BY <1>0, <1>2
    <2>3. given[o][2] \in SUBSET LibraryBytes BY <2>2 DEF Given
    <2> QED BY <1>4, <2>1, <2>3 DEF Given
  <1>6. /\ v \in LibraryCall /\ v.stage = "given" /\ v.todo = u.todo /\ v.bytes = u.bytes
    <2>1. v \in LibraryCall BY <1>0 DEF LibraryCall
    <2> QED BY <1>0, <2>1 DEF LibraryCall
  <1> HIDE DEF v, g
  <1>7. /\ given' \in [LibraryOps -> Given] /\ given'[o] = g
        /\ \A x \in LibraryOps : x # o => given'[x] = given[x]
    BY <1>0, <1>1, <1>2, <1>5
  <1>8. /\ uploader' \in [LibraryCalls -> LibraryCall] /\ uploader'[k] = v
        /\ \A j \in LibraryCalls : j # k => uploader'[j] = uploader[j]
    BY <1>0, <1>1, <1>6
  <1> HIDE DEF o, u
  <1>9. LibraryTypes'
    BY <1>0, <1>1, <1>6, <1>7, <1>8 DEF LibraryTypes
  <1>10. ASSUME NEW j \in LibraryCalls PROVE Pinned(uploader[j])'
    <2>1. uploader'[j].bytes = uploader[j].bytes BY <1>6, <1>8 DEF u
    <2> QED BY <1>1, <2>1 DEF Pinned
  <1>11. ASSUME NEW x \in LibraryOps PROVE Once(x)'
    <2>1. CASE x = o
      <3>1. reserved[o].content # NoBytes BY <1>4
      <3> QED BY <1>1, <1>2, <1>4, <1>5, <1>7, <2>1, <3>1 DEF Once
    <2>2. CASE x # o BY <1>1, <1>7, <2>2 DEF Once
    <2> QED BY <2>1, <2>2
  <1>12. ASSUME NEW j \in LibraryCalls, NEW x \in LibraryOps PROVE Holder(j, x)'
    <2>1. \A i \in LibraryCalls : Holds(uploader[i], x)' => i # k /\ Holds(uploader[i], x)
      BY <1>6, <1>8 DEF Holds
    <2>2. CASE x = o
      <3>1. ~Holds(uploader[j], x)' BY <1>4, <2>1, <2>2
      <3> QED BY <3>1 DEF Holder
    <2>3. CASE x # o BY <1>1, <1>7, <1>8, <2>1, <2>3 DEF Holder
    <2> QED BY <2>2, <2>3
  <1> QED BY <1>9, <1>10, <1>11, <1>12

\* Every step of the uploads to the Library keeps their invariant.
LEMMA LibraryStepsKeep ==
    ASSUME LibraryInv, Library!LibraryNext
    PROVE  LibraryInv'
  BY LibraryAside, PinKeeps, WatchKeeps, ClaimOnce, GiveOnce DEF Library!LibraryNext

\* They start with nothing prepared.
LEMMA LibraryStarts ==
    ASSUME Library!LibraryInit
    PROVE  LibraryInv
  <1>1. << >> \in Seq(LibraryOps) OBVIOUS
  <1>2. /\ Library!Idle \in LibraryCall /\ Library!Idle.stage = "idle"
        /\ \A o \in LibraryOps : Library!Idle.bytes[o] = NoBytes
    BY <1>1 DEF Library!Idle, LibraryCall
  <1>3. /\ Library!NoRow \in LibraryRow /\ Library!NoRow.approved = FALSE
        /\ Library!NoRow.stage = "unknown"
    BY DEF Library!NoRow, LibraryRow
  <1>4. /\ local \in [LibraryPaths -> LibraryBytes]
        /\ reserved = [o \in LibraryOps |-> Library!NoRow]
        /\ uploader = [k \in LibraryCalls |-> Library!Idle]
        /\ library = [o \in LibraryOps |-> "absent"]
        /\ given = [o \in LibraryOps |-> <<0, {}>>]
    BY DEF Library!LibraryInit
  <1>5. LibraryTypes BY <1>2, <1>3, <1>4 DEF LibraryTypes, Given
  <1>6. \A k \in LibraryCalls : Pinned(uploader[k]) BY <1>2, <1>4 DEF Pinned
  <1>7. \A o \in LibraryOps : Once(o) BY <1>3, <1>4 DEF Once
  <1>8. \A k \in LibraryCalls, o \in LibraryOps : Holder(k, o)
    BY <1>2, <1>4 DEF Holder, Holds
  <1> QED BY <1>5, <1>6, <1>7, <1>8 DEF LibraryInv

-----------------------------------------------------------------------------
(* Saves and uploads to the Library together. *)

FilesInv == IInv /\ SaveInv /\ LibraryInv

\* The invariants hold in every reachable state, for every set of runners, calls,
\* operation IDs and contents.
LEMMA FilesInductive == FilesSpec => []FilesInv
  <1>1. FilesInit => FilesInv
    BY SaveStarts, LibraryStarts DEF FilesInit, FilesInv
  <1>2. FilesInv /\ [FilesNext]_<<part, vars, saveVars, libraryVars>> => FilesInv'
    <2> SUFFICES ASSUME FilesInv, [FilesNext]_<<part, vars, saveVars, libraryVars>>
                 PROVE  FilesInv'
      OBVIOUS
    <2>1. UNCHANGED libraryVars => LibraryInv'
      BY DEF FilesInv, libraryVars, LibraryInv, LibraryTypes, Pinned, Once, Holder, Holds
    <2>2. UNCHANGED <<vars, saveVars>> => IInv' /\ SaveInv'
      BY StepsKeep, SaveStutters DEF FilesInv
    <2>3. SaveNext => IInv' /\ SaveInv' BY SaveStepsKeep DEF FilesInv
    <2>4. Library!LibraryNext => LibraryInv' BY LibraryStepsKeep DEF FilesInv
    <2> QED BY <2>1, <2>2, <2>3, <2>4 DEF FilesNext, FilesInv
  <1> QED BY <1>1, <1>2, PTL DEF FilesSpec

\* A write of a save is sent once at most, whatever crashes, lost replies, lapsed
\* leases and runners that took over do; what its journal calls saved was published
\* at its destination; and a prepared file is given to the browser once, with the
\* bytes it was prepared for (subchat_save_file, subchat_library_upload).
THEOREM FilesTransferredOnce == FilesSpec => []TransferredOnce
  <1>1. FilesInv => TransferredOnce
    <2> SUFFICES ASSUME FilesInv PROVE TransferredOnce OBVIOUS
    <2>1. WrittenOnce BY DEF FilesInv, SaveInv, Counted, Wired, WrittenOnce
    <2>2. SavedIsPublished
      <3> SUFFICES ASSUME stage = "completed"
                   PROVE  /\ In(Save, "complete") /\ Save \in stood
                          /\ row[Save].content = source /\ row[Save].path = Target
                          /\ links[Save] <= 1
        BY DEF SavedIsPublished
      <3>1. In(Save, "complete") /\ row[Save].content = source
        BY DEF FilesInv, SaveInv, Journal
      <3>2. Save \in stood /\ links[Save] <= 1
        BY <3>1, SaveAssumption DEF FilesInv, IInv, Stood, Links
      <3>3. row[Save].path = Target
        BY <3>1 DEF FilesInv, SaveInv, Arrived, In
      <3> QED BY <3>1, <3>2, <3>3
    <2>3. Library!UploadedOnce
      BY DEF FilesInv, LibraryInv, Once, Library!UploadedOnce
    <2> QED BY <2>1, <2>2, <2>3 DEF TransferredOnce
  <1> QED BY <1>1, FilesInductive, PTL

\* What the journal of a save calls verified has taken effect on the device,
\* even if the call that did it was never answered (reconciled).
THEOREM VerifiedIsTrue == FilesSpec => []VerifiedTookEffect
  <1>1. FilesInv => VerifiedTookEffect BY DEF FilesInv, SaveInv
  <1> QED BY <1>1, FilesInductive, PTL

(***************************************************************************)
(* The file tools (FileTools), for any number of calls, names and lines.   *)
(* Where a call is says which lock it holds, and what it knows of the file *)
(* that other programs may change without one.                             *)
(***************************************************************************)
CONSTANTS ToolPath, RealPath, SymLinks, ToolCall, Line, MaxLines, Outside
VARIABLES onDisk, backups, lockedBy, called, loading, outside, displaced

\* The file tools, without the workbooks inside the files.
Tools == INSTANCE FileTools
    WITH file <- onDisk, saved <- backups, locked <- lockedBy, call <- called,
         load <- loading, changes <- outside, PathName <- ToolPath, Real <- RealPath,
         Links <- SymLinks, book <- None, edited <- None, made <- None, Books <- {},
         Rows <- {}, Text <- {}, SizeOf <- <<>>, Letters <- 1, MaxColumn <- 1, PageSize <- 1

\* The marker is no file, no call and no content; a file may have a line.
ToolMarkers ==
    /\ None \notin Tools!Files \cup ToolCall \cup Tools!Contents \cup Seq(Line)
    /\ None \notin [content : Tools!Contents, old : Line, new : Line]
    /\ MaxLines \in Nat \ {0}

\* What an edit is computed from: a content, and the line it replaces by another.
Sources == [content : Tools!Contents, old : Line, new : Line]
ToolStage == {"new", "queued", "save", "saving", "compare", "swap", "publish", "over"}
ToolRecord ==
    [at : ToolStage, name : Tools!Locks \cup {None},
     mode : {"none", "create", "replace", "append"}, data : Tools!Contents,
     expected : Tools!Contents \cup {None}, source : Sources \cup {None},
     original : Tools!Contents \cup {None}, late : BOOLEAN]

\* The type of each variable of the tools.
ToolTypes ==
    /\ onDisk \in [Tools!Files -> Tools!Contents \cup {None}]
    /\ backups \in [Tools!Contents -> {"none", "torn", "whole"}]
    /\ DOMAIN lockedBy = Tools!Locks
    /\ called \in [ToolCall -> ToolRecord]

\* An edit gives on what it read and what it made of it.
Edits(c, was) ==
    called[c].source = None \/
        /\ called[c].source.content = was
        /\ called[c].data = Tools!Substituted(was, called[c].source.old, called[c].source.new)

\* What the stage of a call says of its lock, its original, its backup and the file.
CallFits(c) ==
    LET r == called[c] IN
    /\ r.at = "queued" =>
          /\ r.name \in ToolPath
          /\ r.source = None \/ r.mode = "replace"
          /\ Edits(c, r.expected)
    /\ r.at \in {"save", "saving", "compare", "swap", "publish"} =>
          r.name \in Tools!Files /\ lockedBy[r.name] = c
    /\ r.at \in {"save", "saving", "compare", "swap"} =>
          r.original \in Tools!Contents /\ Edits(c, r.original)
    /\ r.at \in {"compare", "swap"} => backups[r.original] = "whole"
    /\ r.at = "swap" /\ ~r.late => onDisk[r.name] = r.original

\* An open read has a prefix of what it opened, unless something changed.
ReadFits ==
    LET r == loading.read IN
    r = Tools!NoRead \/
        /\ r = [f |-> r.f, node |-> r.node, was |-> r.was, got |-> r.got, changed |-> r.changed]
        /\ r.f \in Tools!Files /\ r.node \in Tools!Contents /\ r.was \in Tools!Contents
        /\ r.got \in Seq(Line) /\ r.changed \in BOOLEAN
        /\ ~r.changed => /\ r.node = r.was /\ Len(r.got) <= Len(r.was)
                         /\ \A i \in 1..Len(r.got) : r.got[i] = r.was[i]

\* The pages that a download has are the first of what its hash is of.
LoadFits ==
    /\ DOMAIN loading = {"read", "digest", "parts", "done"}
    /\ loading.digest \in Seq(Line) \cup {None} /\ loading.parts \in Seq(Line)
    /\ loading.digest = None => loading.parts = <<>> /\ ~loading.done
    /\ loading.digest # None =>
          /\ Len(loading.parts) <= Len(loading.digest)
          /\ \A i \in 1..Len(loading.parts) : loading.parts[i] = loading.digest[i]
          /\ loading.done => Len(loading.parts) = Len(loading.digest)

\* Whatever a tool displaced has a whole backup.
BackedUp == \A old \in displaced : old \in Tools!Contents /\ backups[old] = "whole"

\* The inductive invariant of the tools.
ToolsInv ==
    /\ ToolTypes /\ ReadFits /\ LoadFits /\ BackedUp
    /\ \A c \in ToolCall : CallFits(c)

\* The empty file is a content.
LEMMA EmptyIsContent ==
    ASSUME ToolMarkers
    PROVE  <<>> \in Tools!Contents
<1>1. <<>> \in [1..0 -> Line] /\ 0 \in 0..MaxLines
  BY DEF ToolMarkers
<1> QED BY <1>1 DEF Tools!Contents

\* The first state has no call, no read and no page.
LEMMA ToolsBegin ==
    ASSUME ToolMarkers, Tools!FilesInit
    PROVE  ToolsInv
<1> USE DEF ToolMarkers, Tools!FilesInit
<1>1. \A l \in Line : <<l>> \in Tools!Contents
  BY DEF Tools!Contents
<1>2. ToolTypes
  BY <1>1, EmptyIsContent DEF ToolTypes, Tools!NewCall, ToolRecord, ToolStage
<1>3. ReadFits /\ LoadFits
  BY DEF ReadFits, LoadFits, Tools!NoLoad
<1>4. BackedUp
  BY DEF BackedUp
<1>5. \A c \in ToolCall : CallFits(c)
  BY DEF CallFits, Tools!NewCall
<1> QED BY <1>2, <1>3, <1>4, <1>5 DEF ToolsInv

\* The invariant gives what callers of the tools rely on.
LEMMA ToolsTrue ==
    ASSUME ToolMarkers, ToolsInv
    PROVE  Tools!FilesKept
<1>1. Tools!NoLostUpdate
  BY DEF ToolsInv, CallFits, Tools!NoLostUpdate
<1>2. Tools!BackedUp
  BY DEF ToolsInv, BackedUp, Tools!BackedUp, Tools!Restorable
<1>3. Tools!EditsFromRead
  BY DEF ToolsInv, CallFits, Edits, Tools!EditsFromRead
<1>4. Tools!WholeDownload
  <2> SUFFICES ASSUME loading.done PROVE loading.parts = loading.digest
    BY DEF Tools!WholeDownload
  <2> QED BY SeqEqual DEF ToolsInv, LoadFits
<1>5. Tools!HashesHonest
  <2> DEFINE r == loading.read
  <2> SUFFICES ASSUME r # Tools!NoRead, Len(r.got) >= Len(r.node), Tools!Steady(r)
               PROVE  r.got = r.was
    BY DEF Tools!HashesHonest
  <2>1. /\ r.got \in Seq(Line) /\ r.was \in Tools!Contents /\ Len(r.got) = Len(r.was)
        /\ \A i \in 1..Len(r.got) : r.got[i] = r.was[i]
    BY DEF ToolsInv, ReadFits, Tools!Steady
  <2>2. r.was \in Seq(Line)
    BY <2>1 DEF Tools!Contents, ToolMarkers
  <2> QED BY <2>1, <2>2, SeqEqual
<1> QED BY <1>1, <1>2, <1>3, <1>4, <1>5 DEF Tools!FilesKept

\* A file that gets a content: an open read of it knows that it changed.
LEMMA SeenFits ==
    ASSUME ToolMarkers, ReadFits, LoadFits, NEW f \in Tools!Files, NEW new, NEW inPlace \in BOOLEAN,
           inPlace => new \in Tools!Contents, loading' = Tools!Seen(f, new, inPlace)
    PROVE  ReadFits' /\ LoadFits'
<1>1. CASE loading.read.f # f
  BY <1>1 DEF Tools!Seen, ReadFits, LoadFits
<1>2. CASE loading.read.f = f
  <2> DEFINE r == loading.read
  <2>1. loading' = [loading EXCEPT !.read = [r EXCEPT !.changed = TRUE,
                                                      !.node = IF inPlace THEN new ELSE @]]
    BY <1>2 DEF Tools!Seen
  <2>2. LoadFits'
    BY <2>1 DEF LoadFits
  <2>3. r # Tools!NoRead
    BY <1>2 DEF ToolMarkers, Tools!NoRead
  <2>4. PICK x \in Tools!Contents :
            loading'.read = [f |-> r.f, node |-> x, was |-> r.was, got |-> r.got, changed |-> TRUE]
    <3>1. r = [f |-> r.f, node |-> r.node, was |-> r.was, got |-> r.got, changed |-> r.changed]
      BY <2>3 DEF ReadFits
    <3>2. r.node \in Tools!Contents
      BY <2>3 DEF ReadFits
    <3>3. loading'.read = [r EXCEPT !.changed = TRUE, !.node = IF inPlace THEN new ELSE @]
      BY <2>1 DEF LoadFits
    <3>4. CASE inPlace
      BY <3>1, <3>3, <3>4
    <3>5. CASE ~inPlace
      BY <3>1, <3>2, <3>3, <3>5
    <3> QED BY <3>4, <3>5
  <2>5. ReadFits'
    BY <2>3, <2>4 DEF ReadFits
  <2> QED BY <2>2, <2>5
<1> QED BY <1>1, <1>2

\* A step of one call leaves the others, their locks and the files they have locked.
OtherCalls(c) ==
    \A d \in ToolCall \ {c} :
        /\ called'[d] = called[d]
        /\ \A n \in Tools!Locks : lockedBy[n] = d => lockedBy'[n] = d

\* A step of one call leaves the others true: it keeps the whole backups, and it
\* changes only files that no other call holds.
LEMMA OtherCallsFit ==
    ASSUME ToolMarkers, ToolsInv, NEW c \in ToolCall, OtherCalls(c),
           \A b \in Tools!Contents : backups[b] = "whole" => backups'[b] = "whole",
           \A f \in Tools!Files : onDisk'[f] # onDisk[f] => lockedBy[f] \notin ToolCall \ {c}
    PROVE  \A d \in ToolCall \ {c} : CallFits(d)'
<1> SUFFICES ASSUME NEW d \in ToolCall \ {c} PROVE CallFits(d)'
  OBVIOUS
<1>1. CallFits(d) /\ called'[d] = called[d]
  BY DEF ToolsInv, OtherCalls
<1>2. called[d].name \in Tools!Files => called[d].name \in Tools!Locks
  BY DEF Tools!Locks
<1> QED BY <1>1, <1>2 DEF CallFits, Edits, OtherCalls, Tools!Substituted

\* A call that ends forgets what it held and gives up its lock.
LEMMA EndFits ==
    ASSUME ToolMarkers, ToolTypes, NEW c \in ToolCall, Tools!Ends(c)
    PROVE  /\ called' \in [ToolCall -> ToolRecord] /\ DOMAIN lockedBy' = Tools!Locks
           /\ OtherCalls(c) /\ CallFits(c)'
<1> DEFINE r == [Tools!NewCall EXCEPT !.at = "over"]
<1>1. r \in ToolRecord /\ r.at = "over"
  BY EmptyIsContent DEF Tools!NewCall, ToolRecord, ToolStage
<1>2. called' = [called EXCEPT ![c] = r]
  BY DEF Tools!Ends
<1> HIDE DEF r
<1>3. called' \in [ToolCall -> ToolRecord] /\ called'[c].at = "over"
  BY <1>1, <1>2 DEF ToolTypes
<1>4. OtherCalls(c) /\ DOMAIN lockedBy' = Tools!Locks
  BY <1>2 DEF Tools!Ends, OtherCalls, ToolTypes
<1>5. CallFits(c)'
  BY <1>3 DEF CallFits
<1> QED BY <1>3, <1>4, <1>5

\* A call that ends and has changed nothing.
LEMMA ToolEndKeeps ==
    ASSUME ToolMarkers, ToolsInv, NEW c \in ToolCall, Tools!Ends(c),
           UNCHANGED <<onDisk, backups, loading, displaced>>
    PROVE  ToolsInv'
<1>1. /\ called' \in [ToolCall -> ToolRecord] /\ DOMAIN lockedBy' = Tools!Locks
      /\ OtherCalls(c) /\ CallFits(c)'
  BY EndFits DEF ToolsInv
<1>2. \A d \in ToolCall \ {c} : CallFits(d)'
  BY <1>1, OtherCallsFit
<1>3. ToolTypes' /\ BackedUp'
  BY <1>1 DEF ToolsInv, ToolTypes, BackedUp
<1>4. ReadFits' /\ LoadFits'
  BY DEF ToolsInv, ReadFits, LoadFits
<1> QED BY <1>1, <1>2, <1>3, <1>4 DEF ToolsInv

\* A call that goes on and leaves the files, the downloads and the history.
LEMMA GoKeeps ==
    ASSUME ToolMarkers, ToolsInv, NEW c \in ToolCall, OtherCalls(c), CallFits(c)',
           UNCHANGED <<onDisk, loading, displaced>>,
           called' \in [ToolCall -> ToolRecord], DOMAIN lockedBy' = Tools!Locks,
           backups' \in [Tools!Contents -> {"none", "torn", "whole"}],
           \A b \in Tools!Contents : backups[b] = "whole" => backups'[b] = "whole"
    PROVE  ToolsInv'
<1>2. \A d \in ToolCall \ {c} : CallFits(d)'
  BY OtherCallsFit
<1>3. ToolTypes' /\ BackedUp'
  BY DEF ToolsInv, ToolTypes, BackedUp
<1>4. ReadFits' /\ LoadFits'
  BY DEF ToolsInv, ReadFits, LoadFits
<1> QED BY <1>2, <1>3, <1>4 DEF ToolsInv

\* The record of a call that is queued, and of one that has its lock.
Queued(r, n, mode, data, expected, from) ==
    r = [Tools!NewCall EXCEPT !.at = "queued", !.name = n, !.mode = mode,
                              !.data = data, !.expected = expected, !.source = from]
\* What Lock makes of a call that it admits.
Admitted(r, s, n, data, from, was) ==
    r = [Tools!NewCall EXCEPT !.at = s, !.name = n, !.data = data, !.source = from,
                              !.original = was]

\* The fields of a call that was queued.
LEMMA QueuedIs ==
    ASSUME NEW n, NEW mode, NEW data, NEW expected, NEW from, NEW r,
           Queued(r, n, mode, data, expected, from)
    PROVE  r = [at |-> "queued", name |-> n, mode |-> mode, data |-> data,
                expected |-> expected, source |-> from, original |-> None, late |-> FALSE]
BY DEF Queued, Tools!NewCall

\* The fields of a call that was admitted.
LEMMA AdmittedIs ==
    ASSUME NEW s, NEW n, NEW data, NEW from, NEW was, NEW r, Admitted(r, s, n, data, from, was)
    PROVE  r = [at |-> s, name |-> n, mode |-> "none", data |-> data, expected |-> None,
                source |-> from, original |-> was, late |-> FALSE]
BY DEF Admitted, Tools!NewCall

\* A new call is queued with the expectation that its caller gave it, or that an edit has.
LEMMA QueueKeeps ==
    ASSUME ToolMarkers, ToolsInv, NEW c \in ToolCall, NEW n \in ToolPath,
           NEW mode \in {"create", "replace", "append"}, NEW data \in Tools!Contents,
           NEW expected \in Tools!Contents \cup {None}, NEW from \in Sources \cup {None},
           \/ from = None
           \/ /\ mode = "replace" /\ from.content = expected
              /\ data = Tools!Substituted(expected, from.old, from.new),
           Tools!Queue(c, n, mode, data, expected, from),
           UNCHANGED <<onDisk, backups, lockedBy, loading, displaced>>
    PROVE  ToolsInv'
<1> DEFINE r == [Tools!NewCall EXCEPT !.at = "queued", !.name = n, !.mode = mode,
                     !.data = data, !.expected = expected, !.source = from]
<1>1. called' = [called EXCEPT ![c] = r]
  BY DEF Tools!Queue
<1>2. Queued(r, n, mode, data, expected, from)
  BY DEF Queued
<1> HIDE DEF r
<1>3. r = [at |-> "queued", name |-> n, mode |-> mode, data |-> data, expected |-> expected,
           source |-> from, original |-> None, late |-> FALSE]
  BY <1>2, QueuedIs
<1>4. /\ r \in ToolRecord /\ r.at = "queued" /\ r.name = n /\ r.mode = mode /\ r.data = data
      /\ r.expected = expected /\ r.source = from
  BY <1>3 DEF ToolRecord, ToolStage, Tools!Locks
<1>5. called' \in [ToolCall -> ToolRecord] /\ called'[c] = r /\ OtherCalls(c)
  BY <1>1, <1>4 DEF ToolsInv, ToolTypes, OtherCalls
<1>6. CallFits(c)'
  BY <1>4, <1>5 DEF CallFits, Edits, Tools!Substituted
<1>7. /\ DOMAIN lockedBy' = Tools!Locks
      /\ backups' \in [Tools!Contents -> {"none", "torn", "whole"}]
  BY DEF ToolsInv, ToolTypes
<1> QED BY <1>5, <1>6, <1>7, GoKeeps

\* An edit of a content gives a content.
LEMMA SubstitutedFits ==
    ASSUME ToolMarkers, NEW s \in Tools!Contents, NEW old \in Line, NEW new \in Line
    PROVE  Tools!Substituted(s, old, new) \in Tools!Contents
BY DEF ToolMarkers, Tools!Contents, Tools!Substituted

\* Write, Edit and Restore queue a call; an edit or a restore reads first.
LEMMA QueuesKeep ==
    ASSUME ToolMarkers, ToolsInv, NEW c \in ToolCall,
           Tools!Write(c) \/ Tools!Edit(c) \/ Tools!Restore(c)
    PROVE  ToolsInv'
<1>1. \A l \in Line : <<l>> \in Tools!Contents
  BY DEF Tools!Contents, ToolMarkers
<1>2. \A n \in ToolPath : onDisk[RealPath[n]] \in Tools!Contents \cup {None}
  BY DEF ToolsInv, ToolTypes, Tools!Files
<1>3. \A n \in ToolPath : Tools!Expectable(n) \subseteq Tools!Contents \cup {None}
  BY <1>1, <1>2 DEF Tools!Expectable
<1>4. CASE Tools!Write(c)
  <2>1. PICK n \in ToolPath, mode \in {"create", "replace", "append"}, l \in Line :
            \E e \in Tools!Expectable(n) : Tools!Queue(c, n, mode, <<l>>, e, None)
    BY <1>4 DEF Tools!Write
  <2>2. PICK e \in Tools!Expectable(n) : Tools!Queue(c, n, mode, <<l>>, e, None)
    BY <2>1
  <2> QED BY <1>1, <1>3, <1>4, <2>2, QueueKeeps DEF Tools!Write, Tools!Fresh
<1>5. CASE Tools!Edit(c)
  <2>1. PICK n \in ToolPath, old \in Line, new \in Line :
            /\ onDisk[RealPath[n]] # None
            /\ Tools!Queue(c, n, "replace", Tools!Substituted(onDisk[RealPath[n]], old, new),
                   onDisk[RealPath[n]], [content |-> onDisk[RealPath[n]], old |-> old, new |-> new])
    BY <1>5 DEF Tools!Edit
  <2> DEFINE s == onDisk[RealPath[n]]
             x == [content |-> s, old |-> old, new |-> new]
  <2>2. s \in Tools!Contents /\ Tools!Substituted(s, old, new) \in Tools!Contents
    BY <1>2, <2>1, SubstitutedFits
  <2>3. x \in Sources /\ x.content = s /\ x.old = old /\ x.new = new
    BY <2>2 DEF Sources
  <2>4. Tools!Queue(c, n, "replace", Tools!Substituted(s, old, new), s, x)
    BY <2>1
  <2>5. UNCHANGED <<onDisk, backups, lockedBy, loading, displaced>>
    BY <1>5 DEF Tools!Edit, Tools!Fresh
  <2> HIDE DEF s, x
  <2> QED BY <2>2, <2>3, <2>4, <2>5, QueueKeeps
<1>6. CASE Tools!Restore(c)
  <2>1. PICK n \in ToolPath, b \in Tools!Contents : \E e \in Tools!Expectable(n) :
            Tools!Queue(c, n, IF e = None THEN "create" ELSE "replace", b, e, None)
    BY <1>6 DEF Tools!Restore
  <2>2. PICK e \in Tools!Expectable(n) :
            Tools!Queue(c, n, IF e = None THEN "create" ELSE "replace", b, e, None)
    BY <2>1
  <2> QED BY <1>3, <1>6, <2>2, QueueKeeps DEF Tools!Restore, Tools!Fresh
<1> QED BY <1>4, <1>5, <1>6

\* Contents are the sequences of lines that are short enough.
LEMMA ContentsAre ==
    ASSUME ToolMarkers, NEW x
    PROVE  x \in Tools!Contents <=> x \in Seq(Line) /\ Len(x) <= MaxLines
<1>1. ASSUME x \in Tools!Contents PROVE x \in Seq(Line) /\ Len(x) <= MaxLines
  BY <1>1 DEF Tools!Contents, ToolMarkers
<1>2. ASSUME x \in Seq(Line), Len(x) <= MaxLines PROVE x \in Tools!Contents
  <2>1. Len(x) \in 0..MaxLines /\ x \in [1..Len(x) -> Line]
    BY <1>2 DEF ToolMarkers
  <2> QED BY <2>1 DEF Tools!Contents
<1> QED BY <1>1, <1>2

\* A lock is given for the content that the caller expected.
LEMMA LockKeepsTools ==
    ASSUME ToolMarkers, ToolsInv, NEW c \in ToolCall, Tools!Lock(c)
    PROVE  ToolsInv'
<1>1. CASE ~Tools!Accepted(c)
  BY <1>1, ToolEndKeeps DEF Tools!Lock
<1>2. CASE Tools!Accepted(c)
  <2> DEFINE n == Tools!Target(c)
             was == onDisk[n]
             s == IF was = None THEN "publish" ELSE "save"
             r == [Tools!NewCall EXCEPT !.at = s, !.name = n, !.data = Tools!Result(c),
                       !.source = called[c].source, !.original = was]
  <2>1. /\ called[c].at = "queued" /\ CallFits(c) /\ called[c] \in ToolRecord
        /\ called[c].name \in ToolPath
    BY DEF Tools!Lock, ToolsInv, ToolTypes, CallFits
  <2>2. n \in Tools!Files /\ n \in Tools!Locks /\ was \in Tools!Contents \cup {None}
    BY <2>1 DEF Tools!Target, Tools!Files, Tools!Locks, ToolsInv, ToolTypes
  <2>3. Tools!Result(c) \in Tools!Contents
    <3>1. called[c].data \in Seq(Line)
      BY <2>1, ContentsAre DEF ToolRecord
    <3>2. Tools!Result(c) \in Seq(Line)
      BY <2>2, <3>1, ContentsAre DEF Tools!Result
    <3> QED BY <1>2, <3>2, ContentsAre DEF Tools!Accepted
  <2>4. /\ called' = [called EXCEPT ![c] = r]
        /\ lockedBy[n] = None /\ lockedBy' = [lockedBy EXCEPT ![n] = c]
        /\ UNCHANGED <<onDisk, backups, loading, displaced>>
    BY <1>2 DEF Tools!Lock, Tools!LockName, Tools!Target
  <2>5. Admitted(r, s, n, Tools!Result(c), called[c].source, was)
    BY DEF Admitted
  <2>6. called[c].source # None =>
            /\ called[c].source.content = was
            /\ Tools!Result(c) =
                   Tools!Substituted(was, called[c].source.old, called[c].source.new)
    BY <1>2, <2>1 DEF CallFits, Edits, Tools!Accepted, Tools!Result
  <2>7. s \in {"save", "publish"} /\ (s = "save" => was # None)
    OBVIOUS
  <2> HIDE DEF n, was, s, r
  <2>8. r = [at |-> s, name |-> n, mode |-> "none", data |-> Tools!Result(c), expected |-> None,
             source |-> called[c].source, original |-> was, late |-> FALSE]
    BY <2>5, AdmittedIs
  <2>9. /\ r \in ToolRecord /\ r.at = s /\ r.name = n /\ r.source = called[c].source
        /\ r.data = Tools!Result(c) /\ r.original = was
    BY <2>1, <2>2, <2>3, <2>7, <2>8 DEF ToolRecord, ToolStage
  <2>10. /\ called' \in [ToolCall -> ToolRecord] /\ called'[c] = r
         /\ OtherCalls(c) /\ DOMAIN lockedBy' = Tools!Locks /\ lockedBy'[n] = c
    BY <2>2, <2>4, <2>9 DEF ToolsInv, ToolTypes, OtherCalls, ToolMarkers
  <2>11. CallFits(c)'
    BY <2>2, <2>6, <2>7, <2>9, <2>10 DEF CallFits, Edits, Tools!Substituted
  <2>12. backups \in [Tools!Contents -> {"none", "torn", "whole"}]
    BY DEF ToolsInv, ToolTypes
  <2> QED BY <2>4, <2>10, <2>11, <2>12, GoKeeps
<1> QED BY <1>1, <1>2

\* A call whose stage alone changes.
LEMMA GoesFits ==
    ASSUME ToolMarkers, ToolsInv, NEW c \in ToolCall, NEW s \in ToolStage, Tools!Goes(c, s)
    PROVE  /\ called' \in [ToolCall -> ToolRecord] /\ called'[c] = [called[c] EXCEPT !.at = s]
           /\ called'[c].at = s /\ called'[c].name = called[c].name
           /\ called'[c].source = called[c].source /\ called'[c].data = called[c].data
           /\ called'[c].original = called[c].original
           /\ \A d \in ToolCall \ {c} : called'[d] = called[d]
<1>1. called[c] \in ToolRecord /\ called' = [called EXCEPT ![c] = [called[c] EXCEPT !.at = s]]
  BY DEF ToolsInv, ToolTypes, Tools!Goes
<1> DEFINE r == [called[c] EXCEPT !.at = s]
<1>2. /\ r \in ToolRecord /\ r.at = s /\ r.name = called[c].name
      /\ r.source = called[c].source /\ r.data = called[c].data
      /\ r.original = called[c].original
  BY <1>1 DEF ToolRecord
<1> HIDE DEF r
<1>3. called' = [called EXCEPT ![c] = r] /\ called \in [ToolCall -> ToolRecord]
  BY <1>1 DEF r, ToolsInv, ToolTypes
<1>4. called'[c] = r /\ called' \in [ToolCall -> ToolRecord]
  BY <1>2, <1>3
<1> QED BY <1>2, <1>3, <1>4 DEF r

\* The backup is whole before the file is compared, and compared before it is swapped.
LEMMA BackupKeeps ==
    ASSUME ToolMarkers, ToolsInv, NEW c \in ToolCall,
           Tools!SaveBackup(c) \/ Tools!BackupSaved(c) \/ Tools!Compare(c)
    PROVE  ToolsInv'
<1> DEFINE old == called[c].original
<1>1. CallFits(c) /\ old \in Tools!Contents /\ called[c] \in ToolRecord
  BY DEF ToolsInv, ToolTypes, CallFits, Tools!SaveBackup, Tools!BackupSaved, Tools!Compare
<1>2. CASE Tools!Ends(c) /\ UNCHANGED backups
  BY <1>2, ToolEndKeeps DEF Tools!SaveBackup, Tools!BackupSaved, Tools!Compare
<1>3. ASSUME NEW s \in {"saving", "compare", "swap"}, Tools!Goes(c, s), UNCHANGED lockedBy,
             called[c].at \in {"save", "saving", "compare"},
             UNCHANGED <<onDisk, loading, displaced>>,
             backups' \in [Tools!Contents -> {"none", "torn", "whole"}],
             \A b \in Tools!Contents : backups[b] = "whole" => backups'[b] = "whole",
             s # "saving" => backups'[old] = "whole",
             s = "swap" => onDisk[called[c].name] = old
      PROVE  ToolsInv'
  <2>1. /\ called' \in [ToolCall -> ToolRecord]
        /\ called'[c].at = s /\ called'[c].name = called[c].name
        /\ called'[c].source = called[c].source /\ called'[c].data = called[c].data
        /\ called'[c].original = called[c].original
        /\ \A d \in ToolCall \ {c} : called'[d] = called[d]
    BY <1>3, GoesFits DEF ToolStage
  <2>2. CallFits(c)'
    BY <1>1, <1>3, <2>1 DEF CallFits, Edits, Tools!Substituted
  <2>3. OtherCalls(c) /\ DOMAIN lockedBy' = Tools!Locks
    BY <1>3, <2>1 DEF OtherCalls, ToolsInv, ToolTypes
  <2> QED BY <1>3, <2>1, <2>2, <2>3, GoKeeps
<1>4. backups \in [Tools!Contents -> {"none", "torn", "whole"}]
  BY DEF ToolsInv, ToolTypes
<1>5. CASE Tools!SaveBackup(c)
  <2>1. CASE /\ backups[old] = "none" /\ backups' = [backups EXCEPT ![old] = "torn"]
             /\ Tools!Goes(c, "saving") /\ UNCHANGED lockedBy
    BY <1>1, <1>3, <1>4, <1>5, <2>1 DEF Tools!SaveBackup
  <2>2. CASE backups[old] = "whole" /\ Tools!Goes(c, "compare") /\ UNCHANGED <<backups, lockedBy>>
    BY <1>1, <1>3, <1>4, <1>5, <2>2 DEF Tools!SaveBackup
  <2> QED BY <1>2, <1>5, <2>1, <2>2 DEF Tools!SaveBackup
<1>6. CASE Tools!BackupSaved(c)
  BY <1>1, <1>3, <1>4, <1>6 DEF Tools!BackupSaved
<1>7. CASE Tools!Compare(c)
  <2>1. called[c].at = "compare" => backups[old] = "whole"
    BY <1>1 DEF CallFits
  <2> QED BY <1>1, <1>2, <1>3, <1>4, <1>7, <2>1 DEF Tools!Compare
<1> QED BY <1>5, <1>6, <1>7

\* A call replaces or creates the file that it has locked.
LEMMA ReplaceKeeps ==
    ASSUME ToolMarkers, ToolsInv, NEW c \in ToolCall, Tools!Ends(c),
           called[c].at \in {"swap", "publish"},
           Tools!Put(called[c].name, called[c].data, FALSE), UNCHANGED backups,
           \A b \in displaced' \ displaced : b \in Tools!Contents /\ backups[b] = "whole"
    PROVE  ToolsInv'
<1> DEFINE f == called[c].name
<1>1. CallFits(c) /\ called[c] \in ToolRecord
  BY DEF ToolsInv, ToolTypes
<1>2. f \in Tools!Files /\ lockedBy[f] = c /\ called[c].data \in Tools!Contents
  BY <1>1 DEF CallFits, ToolRecord
<1>3. onDisk' = [onDisk EXCEPT ![f] = called[c].data]
  BY DEF Tools!Put
<1>4. ReadFits' /\ LoadFits'
  BY <1>2, SeenFits DEF Tools!Put, ToolsInv
<1>5. /\ called' \in [ToolCall -> ToolRecord] /\ DOMAIN lockedBy' = Tools!Locks
      /\ OtherCalls(c) /\ CallFits(c)'
  BY EndFits DEF ToolsInv
<1>6. \A g \in Tools!Files : onDisk'[g] # onDisk[g] => lockedBy[g] \notin ToolCall \ {c}
  BY <1>2, <1>3 DEF ToolsInv, ToolTypes
<1>7. \A d \in ToolCall \ {c} : CallFits(d)'
  BY <1>5, <1>6, OtherCallsFit
<1>8. ToolTypes' /\ BackedUp'
  BY <1>2, <1>3, <1>5 DEF ToolsInv, ToolTypes, BackedUp
<1> QED BY <1>4, <1>5, <1>7, <1>8 DEF ToolsInv

\* A write that fails changes nothing, a swap displaces what was backed up, and a
\* publish makes a file where none was.
LEMMA WritesKeep ==
    ASSUME ToolMarkers, ToolsInv, NEW c \in ToolCall,
           Tools!Fails(c) \/ Tools!Swap(c) \/ Tools!Publish(c)
    PROVE  ToolsInv'
<1>1. CASE Tools!Fails(c)
  BY <1>1, ToolEndKeeps DEF Tools!Fails
<1>2. CASE Tools!Swap(c)
  <2>1. CallFits(c) /\ called[c].at = "swap"
    BY <1>2 DEF Tools!Swap, ToolsInv
  <2>2. called[c].original \in Tools!Contents /\ backups[called[c].original] = "whole"
    BY <2>1 DEF CallFits
  <2> QED BY <1>2, <2>1, <2>2, ReplaceKeeps DEF Tools!Swap
<1>3. CASE Tools!Publish(c)
  <2>1. CASE onDisk[called[c].name] = None /\ Tools!Put(called[c].name, called[c].data, FALSE)
             /\ Tools!Ends(c)
    BY <1>3, <2>1, ReplaceKeeps DEF Tools!Publish
  <2>2. CASE Tools!Ends(c) /\ UNCHANGED <<onDisk, loading>>
    BY <1>3, <2>2, ToolEndKeeps DEF Tools!Publish
  <2> QED BY <1>3, <2>1, <2>2 DEF Tools!Publish
<1> QED BY <1>1, <1>2, <1>3

\* The agent dies.
LEMMA DiesKeeps ==
    ASSUME ToolMarkers, ToolsInv, Tools!Dies
    PROVE  ToolsInv'
<1> DEFINE over == [Tools!NewCall EXCEPT !.at = "over"]
<1>1. over \in ToolRecord /\ over.at = "over"
  BY EmptyIsContent DEF Tools!NewCall, ToolRecord, ToolStage
<1>2. called' = [c \in ToolCall |-> IF called[c].at \in {"new", "over"} THEN called[c] ELSE over]
  BY DEF Tools!Dies
<1> HIDE DEF over
<1>3. /\ called' \in [ToolCall -> ToolRecord]
      /\ \A c \in ToolCall : called'[c].at \in {"new", "over"}
  BY <1>1, <1>2 DEF ToolsInv, ToolTypes
<1>4. \A c \in ToolCall : CallFits(c)'
  BY <1>3 DEF CallFits
<1>5. ToolTypes' /\ BackedUp'
  BY <1>3 DEF Tools!Dies, ToolsInv, ToolTypes, BackedUp
<1>6. ReadFits' /\ LoadFits'
  BY DEF Tools!Dies, ToolsInv, ReadFits, LoadFits
<1> QED BY <1>4, <1>5, <1>6 DEF ToolsInv

\* Another program changes some files; a call about to replace one of them is late.
LEMMA LateKeeps ==
    ASSUME ToolMarkers, ToolsInv, NEW fs, Tools!Late(fs),
           onDisk' \in [Tools!Files -> Tools!Contents \cup {None}],
           \A f \in Tools!Files \ fs : onDisk'[f] = onDisk[f],
           UNCHANGED <<backups, lockedBy, displaced>>, ReadFits', LoadFits'
    PROVE  ToolsInv'
<1>1. ASSUME NEW c \in ToolCall PROVE called'[c] \in ToolRecord /\ CallFits(c)'
  <2>1. called[c] \in ToolRecord /\ CallFits(c)
    BY DEF ToolsInv, ToolTypes
  <2>2. CASE called[c].at = "swap" /\ called[c].name \in fs
    <3> DEFINE r == [called[c] EXCEPT !.late = TRUE]
    <3>1. called'[c] = r
      BY <2>2 DEF Tools!Late
    <3>2. /\ r \in ToolRecord /\ r.at = called[c].at /\ r.name = called[c].name
          /\ r.source = called[c].source /\ r.data = called[c].data
          /\ r.original = called[c].original /\ r.late
      BY <2>1 DEF ToolRecord
    <3> HIDE DEF r
    <3> QED BY <2>1, <2>2, <3>1, <3>2 DEF CallFits, Edits, Tools!Substituted
  <2>3. CASE ~(called[c].at = "swap" /\ called[c].name \in fs)
    <3>1. called'[c] = called[c]
      BY <2>3 DEF Tools!Late
    <3> QED BY <2>1, <2>3, <3>1 DEF CallFits, Edits, Tools!Substituted
  <2> QED BY <2>2, <2>3
<1>2. called' \in [ToolCall -> ToolRecord]
  BY <1>1 DEF Tools!Late
<1>3. ToolTypes' /\ BackedUp'
  BY <1>2 DEF ToolsInv, ToolTypes, BackedUp
<1> QED BY <1>1, <1>3 DEF ToolsInv

\* Another program that writes or moves a file makes the calls that hold it late and
\* the open read changed.
LEMMA OutsideKeepsTools ==
    ASSUME ToolMarkers, ToolsInv, NEW f \in Tools!Files, NEW g \in Tools!Files,
           Tools!OtherProgram(f) \/ Tools!Move(f, g)
    PROVE  ToolsInv'
<1>1. CASE Tools!OtherProgram(f)
  <2>1. PICK new \in {None} \cup Tools!Contents, inPlace \in BOOLEAN :
            (inPlace => new # None) /\ Tools!Put(f, new, inPlace)
    BY <1>1 DEF Tools!OtherProgram
  <2>2. ReadFits' /\ LoadFits'
    BY <2>1, SeenFits DEF Tools!Put, ToolsInv
  <2>3. /\ onDisk' \in [Tools!Files -> Tools!Contents \cup {None}]
        /\ \A h \in Tools!Files \ {f} : onDisk'[h] = onDisk[h]
    BY <2>1 DEF Tools!Put, ToolsInv, ToolTypes
  <2> QED BY <1>1, <2>2, <2>3, LateKeeps DEF Tools!OtherProgram
<1>2. CASE Tools!Move(f, g)
  <2>1. ReadFits' /\ LoadFits'
    BY <1>2, SeenFits DEF Tools!Move, ToolsInv
  <2>2. /\ onDisk' \in [Tools!Files -> Tools!Contents \cup {None}]
        /\ \A h \in Tools!Files \ {f, g} : onDisk'[h] = onDisk[h]
    BY <1>2 DEF Tools!Move, ToolsInv, ToolTypes
  <2> QED BY <1>2, <2>1, <2>2, LateKeeps DEF Tools!Move
<1> QED BY <1>1, <1>2

\* A step of the download changes nothing else.
LEMMA LoadKeeps ==
    ASSUME ToolsInv, Tools!OnlyLoad, ReadFits', LoadFits'
    PROVE  ToolsInv'
BY DEF ToolsInv, Tools!OnlyLoad, ToolTypes, BackedUp, CallFits, Edits, Tools!Substituted

\* What OpenFile leaves of a download's read: the file and the content it opened.
Opened(r, f, x) == r = [Tools!NoRead EXCEPT !.f = f, !.node = x, !.was = x]

\* The fields of a read that was opened.
LEMMA OpenedIs ==
    ASSUME NEW r, NEW f, NEW x, Opened(r, f, x)
    PROVE  r = [f |-> f, node |-> x, was |-> x, got |-> <<>>, changed |-> FALSE]
BY DEF Opened, Tools!NoRead

\* A download opens a file: it has read nothing of it.
LEMMA OpenKeeps ==
    ASSUME ToolMarkers, ToolsInv, NEW f \in Tools!Files, Tools!OpenFile(f)
    PROVE  ToolsInv'
<1> DEFINE r == [Tools!NoRead EXCEPT !.f = f, !.node = onDisk[f], !.was = onDisk[f]]
<1>1. r = [f |-> f, node |-> onDisk[f], was |-> onDisk[f], got |-> <<>>, changed |-> FALSE]
  <2>1. Opened(r, f, onDisk[f])
    BY DEF Opened
  <2> HIDE DEF r
  <2> QED BY <2>1, OpenedIs
<1>2. onDisk[f] \in Tools!Contents
  BY DEF Tools!OpenFile, ToolsInv, ToolTypes
<1>3. onDisk[f] \in Seq(Line)
  BY <1>2, ContentsAre
<1>4. loading' = [loading EXCEPT !.read = r] /\ DOMAIN loading = {"read", "digest", "parts", "done"}
  BY DEF Tools!OpenFile, ToolsInv, LoadFits
<1> HIDE DEF r
<1>5. loading'.read = r
  BY <1>4
<1>6. ReadFits'
  BY <1>1, <1>2, <1>3, <1>5 DEF ReadFits
<1>7. LoadFits'
  BY <1>4 DEF ToolsInv, LoadFits
<1> QED BY <1>6, <1>7, LoadKeeps DEF Tools!OpenFile

\* A download reads the next line of what it opened.
LEMMA BlockKeeps ==
    ASSUME ToolMarkers, ToolsInv, Tools!ReadBlock
    PROVE  ToolsInv'
<1> DEFINE r == loading.read
           line == r.node[Len(r.got) + 1]
           got == Append(r.got, line)
<1>1. /\ r = [f |-> r.f, node |-> r.node, was |-> r.was, got |-> r.got, changed |-> r.changed]
      /\ r.f \in Tools!Files /\ r.node \in Tools!Contents /\ r.was \in Tools!Contents
      /\ r.got \in Seq(Line) /\ r.changed \in BOOLEAN
      /\ ~r.changed => /\ r.node = r.was /\ Len(r.got) <= Len(r.was)
                       /\ \A i \in 1..Len(r.got) : r.got[i] = r.was[i]
  BY DEF Tools!ReadBlock, ToolsInv, ReadFits
<1>2. r.node \in Seq(Line) /\ r.was \in Seq(Line)
  BY <1>1, ContentsAre
<1>3. Len(r.got) < Len(r.node) /\ Len(r.got) \in Nat
  BY <1>1 DEF Tools!ReadBlock
<1>4. line \in Line
  BY <1>2, <1>3
<1>5. loading' = [loading EXCEPT !.read = [r EXCEPT !.got = got]]
  BY DEF Tools!ReadBlock
<1>6. loading'.read = [r EXCEPT !.got = got]
  BY <1>5 DEF ToolsInv, LoadFits
<1> HIDE DEF line
<1>7. /\ got \in Seq(Line) /\ Len(got) = Len(r.got) + 1
      /\ \A i \in 1..Len(r.got) : got[i] = r.got[i]
      /\ got[Len(r.got) + 1] = line
  BY <1>1, <1>4, AppendProperties
<1> HIDE DEF got
<1>8. loading'.read =
          [f |-> r.f, node |-> r.node, was |-> r.was, got |-> got, changed |-> r.changed]
  BY <1>1, <1>6
<1>9. ~r.changed => Len(got) <= Len(r.was) /\ \A i \in 1..Len(got) : got[i] = r.was[i]
  BY <1>1, <1>3, <1>7 DEF line
<1> HIDE DEF r
<1>10. ReadFits'
  BY <1>1, <1>7, <1>8, <1>9 DEF ReadFits
<1>11. LoadFits'
  BY <1>5 DEF ToolsInv, LoadFits
<1> QED BY <1>10, <1>11, LoadKeeps DEF Tools!ReadBlock

\* A page is taken from a steady read whose hash is the one of the pages before it;
\* any other read is dropped.
LEMMA PageKeeps ==
    ASSUME ToolMarkers, ToolsInv, Tools!PageRead
    PROVE  ToolsInv'
<1> DEFINE r == loading.read
           at == Len(loading.parts)
           more == at < Len(r.got)
           parts == IF more THEN Append(loading.parts, r.got[at + 1]) ELSE loading.parts
           done == at + 1 >= Len(r.got)
<1>1. r.got \in Seq(Line) /\ Len(r.got) \in Nat
  BY DEF Tools!PageRead, ToolsInv, ReadFits
<1>2. LoadFits /\ loading.parts \in Seq(Line) /\ at \in Nat
  BY DEF ToolsInv, LoadFits
<1>3. CASE Tools!Steady(r) /\ loading.digest \in {None, r.got} /\ at <= Len(r.got)
  <2>1. loading' = [Tools!NoLoad EXCEPT !.digest = r.got, !.parts = parts, !.done = done]
    BY <1>3 DEF Tools!PageRead
  <2>2. \A i \in 1..at : loading.parts[i] = r.got[i]
    BY <1>2, <1>3 DEF LoadFits
  <2>5. /\ parts \in Seq(Line) /\ Len(parts) <= Len(r.got)
        /\ \A i \in 1..Len(parts) : parts[i] = r.got[i]
        /\ done => Len(parts) = Len(r.got)
    <3>1. CASE more
      <4>1. r.got[at + 1] \in Line
        BY <1>1, <1>2, <3>1
      <4>2. /\ parts \in Seq(Line) /\ Len(parts) = at + 1
            /\ \A i \in 1..at : parts[i] = loading.parts[i]
            /\ parts[at + 1] = r.got[at + 1]
        BY <1>2, <3>1, <4>1, AppendProperties
      <4> QED BY <1>1, <1>2, <2>2, <3>1, <4>2
    <3>2. CASE ~more
      BY <1>1, <1>2, <1>3, <2>2, <3>2
    <3> QED BY <3>1, <3>2
  <2> HIDE DEF parts, done
  <2>6. loading' = [read |-> Tools!NoRead, digest |-> r.got, parts |-> parts, done |-> done]
    BY <2>1 DEF Tools!NoLoad
  <2>7. r.got # None
    BY <1>1 DEF ToolMarkers
  <2>8. ReadFits'
    BY <2>6 DEF ReadFits
  <2>9. LoadFits'
    BY <1>1, <2>5, <2>6, <2>7 DEF LoadFits
  <2> QED BY <2>8, <2>9, LoadKeeps DEF Tools!PageRead
<1>4. CASE loading' \in {Tools!NoLoad, [loading EXCEPT !.read = Tools!NoRead]}
  <2>1. loading'.read = Tools!NoRead
    BY <1>2, <1>4 DEF LoadFits, Tools!NoLoad
  <2>2. ReadFits'
    BY <2>1 DEF ReadFits
  <2>3. ASSUME loading' = Tools!NoLoad PROVE LoadFits'
    BY <2>3 DEF LoadFits, Tools!NoLoad
  <2>4. ASSUME loading' = [loading EXCEPT !.read = Tools!NoRead] PROVE LoadFits'
    BY <1>2, <2>4 DEF LoadFits
  <2>5. LoadFits'
    BY <1>4, <2>3, <2>4
  <2> QED BY <2>2, <2>5, LoadKeeps DEF Tools!PageRead
<1> QED BY <1>3, <1>4 DEF Tools!PageRead

\* Every step of the tools and of other programs keeps the invariant.
LEMMA ToolsStep ==
    ASSUME ToolMarkers, ToolsInv, [Tools!FilesNext]_Tools!fileVars
    PROVE  ToolsInv'
<1>1. ASSUME NEW c \in ToolCall, Tools!CallStep(c) PROVE ToolsInv'
  BY <1>1, QueuesKeep, LockKeepsTools, BackupKeeps, WritesKeep DEF Tools!CallStep
<1>2. CASE Tools!Dies
  BY <1>2, DiesKeeps
<1>3. ASSUME NEW f \in Tools!Files, NEW g \in Tools!Files,
             Tools!OtherProgram(f) \/ Tools!OpenFile(f) \/ Tools!Move(f, g)
      PROVE  ToolsInv'
  BY <1>3, OutsideKeepsTools, OpenKeeps
<1>4. CASE Tools!ReadBlock \/ Tools!PageRead
  BY <1>4, BlockKeeps, PageKeeps
<1>5. CASE UNCHANGED Tools!fileVars
  <2>1. Tools!OnlyLoad /\ loading' = loading
    BY <1>5 DEF Tools!fileVars, Tools!OnlyLoad
  <2>2. ReadFits' /\ LoadFits'
    BY <2>1 DEF ToolsInv, ReadFits, LoadFits
  <2> QED BY <2>1, <2>2, LoadKeeps
<1> QED BY <1>1, <1>2, <1>3, <1>4, <1>5 DEF Tools!FilesNext

\* Whatever callers ask and other programs do: a tool that replaces a file replaces what it
\* expected and keeps a backup of it, an edit replaces the content that it was computed
\* from, and a finished download is one content of the file with its hash (write, edit,
\* restore and download of the file tools).
THEOREM ToolsKeepFiles ==
    ASSUME ToolMarkers
    PROVE  Tools!FilesSpec => []Tools!FilesKept
<1>1. Tools!FilesInit => ToolsInv
  BY ToolsBegin
<1>2. ToolsInv /\ [Tools!FilesNext]_Tools!fileVars => ToolsInv'
  BY ToolsStep
<1>3. ToolsInv => Tools!FilesKept
  BY ToolsTrue
<1> QED BY <1>1, <1>2, <1>3, PTL DEF Tools!FilesSpec
==============================================================================
