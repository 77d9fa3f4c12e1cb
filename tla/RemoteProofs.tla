------------------------------ MODULE RemoteProofs ------------------------------
EXTENDS MCRemote, FiniteSetTheorems, TLAPS

-----------------------------------------------------------------------------
(* Enrollment of this computer. *)

Going == {"starting", "waiting", "requesting"}
Rows == [attempt : Attempts, id : Ids, owner : Accounts \cup {None},
         device : [account : Accounts, state : {"registered", "revoked"}] \cup {None}]

\* A client whose attempt goes on has one.
EnrollClient == {c \in ClientType : c.phase \in Going => c.attempt \in Attempts}

\* The slots of a recovery.
Recoveries == Slots \ {Main}

Counts == [attempts : 0 .. MaxAttempts, slots : 0 .. MaxSlots, ids : 0 .. MaxIds]
Codes == Accounts \cup {"pending", "denied", "expired", "redeemed"}

EnrollTypes ==
    /\ auth \in [Workers -> EnrollClient]
    /\ original \in [Workers -> EnrollClient \cup {None}]
    /\ pc \in [Workers -> {"idle", "start", "poll", "account", "confirm", "cleanup",
                           "unrecord"}]
    /\ held \in [Workers -> Grants \cup {None}]
    /\ vault \in [Slots -> Grants \cup {None}]
    /\ reg \in Rows \cup {None}
    /\ slots \in Seq(Recoveries)
    /\ used \in Counts /\ code \in [Attempts -> Codes]
    /\ wire \subseteq Devices
    /\ registry \in [Devices -> {"none", "registered", "revoked"}]

\* What a worker in the middle of a command knows.
Within(w) ==
    /\ pc[w] = "poll" => auth[w].attempt \in Attempts
    /\ pc[w] \in {"account", "confirm"} => held[w] # None
    /\ pc[w] = "confirm" => reg # None
    /\ pc[w] \in {"cleanup", "unrecord"} => reg # None /\ reg.device # None
    /\ pc[w] = "unrecord" => slots # <<>>

\* registration.lock has one holder.
Locking(w) == pc[w] \in {"account", "confirm", "cleanup", "unrecord"}
OneLock == \A v, w \in Workers : Locking(v) /\ Locking(w) => v = w

\* Whatever was sent is the saved row's registration, and so is what was registered.
OneRow ==
    Binds = TRUE =>
        /\ \A d \in wire : reg # None /\ d = <<reg.owner, reg.id>>
        /\ \A d \in Devices : registry[d] # "none" => d \in wire

\* The row was made with the grant in the first slot, and is about to be.
Resumes ==
    /\ reg # None => /\ vault[Main] # None /\ vault[Main].attempt = reg.attempt
                     /\ Binds = TRUE => vault[Main].account = reg.owner
    /\ reg = None => \A w \in Workers : pc[w] = "account" => held[w] = vault[Main]

EnrollIInv == EnrollTypes /\ (\A w \in Workers : Within(w)) /\ OneLock /\ OneRow

\* A saved row is a row.
LEMMA EnrollRows == None \notin Rows
BY RemoteAssumption DEF Rows

\* A client and its parts.
LEMMA EnrollParts ==
  ASSUME NEW c \in EnrollClient
  PROVE  /\ c.slot \in Slots /\ c.pending \in Grants \cup {None}
         /\ c.phase \in Going => c.attempt \in Attempts
BY DEF EnrollClient, ClientType

\* A new client.
LEMMA EnrollNew ==
  ASSUME NEW s \in Slots
  PROVE  Client(s) \in EnrollClient /\ Client(s).slot = s
BY EnrollmentAssumption DEF Client, EnrollClient, ClientType, Phases, Going

\* The phase of a client.
LEMMA EnrollPhases ==
  ASSUME NEW c \in EnrollClient, NEW p \in Phases, p \notin Going \/ c.attempt \in Attempts
  PROVE  /\ SetPhase(c, p) \in EnrollClient
         /\ SetPhase(c, p).attempt = c.attempt /\ SetPhase(c, p).slot = c.slot
BY DEF SetPhase, EnrollClient, ClientType

\* A client that is cancelled.
LEMMA EnrollCancels ==
  ASSUME NEW c \in EnrollClient
  PROVE  Cancelled(c) \in EnrollClient /\ Cancelled(c).attempt = c.attempt
BY DEF Cancelled, EnrollClient, ClientType, Phases, Going

\* A client that goes on with another attempt.
Trying(c, p, a) == [c EXCEPT !.phase = p, !.attempt = a]
LEMMA EnrollTries ==
  ASSUME NEW c \in EnrollClient, NEW a \in Attempts, NEW p \in Phases
  PROVE  /\ Trying(c, p, a) \in EnrollClient
         /\ Trying(c, p, a).attempt = a /\ Trying(c, p, a).slot = c.slot
<1>1. a \in 0 .. MaxAttempts
  BY EnrollmentAssumption DEF Attempts
<1>2. QED
  BY <1>1 DEF Trying, EnrollClient, ClientType

\* A client that has saved its grant, or keeps it for another try.
Keeping(c, p, g) == [c EXCEPT !.phase = p, !.pending = g]
LEMMA EnrollKeeps ==
  ASSUME NEW c \in EnrollClient, NEW g \in Grants \cup {None}, NEW p \in Phases \ Going
  PROVE  Keeping(c, p, g) \in EnrollClient
BY DEF Keeping, EnrollClient, ClientType

\* A fresh client takes over the grant of its slot.
LEMMA EnrollRestores ==
  ASSUME EnrollTypes, NEW c \in EnrollClient
  PROVE  Restored(c) \in EnrollClient /\ Restored(c).slot = c.slot
<1>1. c.slot \in Slots
  BY EnrollParts
<1>2. vault[c.slot] # None => vault[c.slot].attempt \in Attempts
  BY <1>1 DEF EnrollTypes, Grants
<1>3. CASE c.phase # "new" \/ vault[c.slot] = None
  <2>1. Restored(c) = c
    BY <1>3 DEF Restored, Valid
  <2>2. QED
    BY <2>1
<1>4. CASE ~(c.phase # "new" \/ vault[c.slot] = None)
  <2> DEFINE r == Trying(c, "grant_saved", vault[c.slot].attempt)
  <2>1. Restored(c) = r \/ Restored(c) = SetPhase(c, "credential_error")
    BY <1>4 DEF Restored, Trying
  <2>2. r \in EnrollClient /\ r.slot = c.slot
    <3>1. vault[c.slot].attempt \in Attempts /\ "grant_saved" \in Phases
      BY <1>2, <1>4 DEF Phases
    <3>2. QED
      BY <3>1, EnrollTries
  <2>3. SetPhase(c, "credential_error") \in EnrollClient /\ SetPhase(c, "credential_error").slot = c.slot
    BY EnrollPhases DEF Phases, Going
  <2> HIDE DEF r
  <2>4. QED
    BY <2>1, <2>2, <2>3
<1>5. QED
  BY <1>3, <1>4

\* Nothing is enrolled.
LEMMA EnrollStart == Init => EnrollIInv
<1> SUFFICES ASSUME Init PROVE EnrollIInv
  OBVIOUS
<1>1. Main \in Slots
  BY EnrollmentAssumption DEF Main, Slots
<1>2. Client(Main) \in EnrollClient
  BY <1>1, EnrollNew
<1>3. slots \in Seq(Recoveries)
  BY DEF Init
<1>4. used \in Counts
  BY EnrollmentAssumption DEF Init, Counts
<1>5. EnrollTypes
  BY <1>2, <1>3, <1>4 DEF Init, EnrollTypes, Codes
<1>6. (\A w \in Workers : Within(w)) /\ OneLock /\ OneRow
  BY DEF Init, Within, OneLock, Locking, OneRow
<1>7. QED
  BY <1>5, <1>6 DEF EnrollIInv

\* No row either.
LEMMA EnrollNoRow == Init => Resumes
BY DEF Init, Resumes

\* A worker goes on without a lock, or gives it back.
LEMMA EnrollMoves ==
  ASSUME EnrollIInv, NEW w \in Workers, NEW d \in EnrollClient,
         NEW p \in {"idle", "start", "poll"},
         auth' = [auth EXCEPT ![w] = d], pc' = [pc EXCEPT ![w] = p],
         p = "poll" => d.attempt \in Attempts,
         held' = held \/ held' = [held EXCEPT ![w] = None],
         original' \in [Workers -> EnrollClient \cup {None}],
         vault' \in [Slots -> Grants \cup {None}],
         slots' \in Seq(Recoveries), slots' = slots \/ slots' # <<>>,
         used' \in Counts, code' \in [Attempts -> Codes],
         UNCHANGED <<reg, wire, registry>>
  PROVE  EnrollIInv'
<1>1. EnrollTypes'
  BY DEF EnrollIInv, EnrollTypes
<1>2. /\ pc'[w] = p /\ auth'[w] = d
      /\ \A v \in Workers : v # w => pc'[v] = pc[v] /\ auth'[v] = auth[v] /\ held'[v] = held[v]
  BY DEF EnrollIInv, EnrollTypes
<1>3. \A v \in Workers : Within(v)'
  BY <1>2 DEF EnrollIInv, Within
<1>4. OneLock'
  BY <1>2 DEF EnrollIInv, OneLock, Locking
<1>5. OneRow'
  BY DEF EnrollIInv, OneRow
<1>6. QED
  BY <1>1, <1>3, <1>4, <1>5 DEF EnrollIInv

\* What the step of a client needs of the types.
LEMMA EnrollHas ==
  ASSUME EnrollIInv, NEW w \in Workers
  PROVE  /\ auth[w] \in EnrollClient /\ pc = [pc EXCEPT ![w] = pc[w]]
         /\ auth = [auth EXCEPT ![w] = auth[w]]
         /\ \A c \in EnrollClient \cup {None} :
               [original EXCEPT ![w] = c] \in [Workers -> EnrollClient \cup {None}]
         /\ original \in [Workers -> EnrollClient \cup {None}]
         /\ vault \in [Slots -> Grants \cup {None}]
         /\ slots \in Seq(Recoveries) /\ used \in Counts /\ code \in [Attempts -> Codes]
BY DEF EnrollIInv, EnrollTypes

\* The counts go up to their bounds.
LEMMA EnrollAttempts ==
  ASSUME NEW u \in Counts, u.attempts < MaxAttempts
  PROVE  /\ [u EXCEPT !.attempts = u.attempts + 1] \in Counts
         /\ [u EXCEPT !.attempts = u.attempts + 1].attempts \in Attempts
BY EnrollmentAssumption DEF Counts, Attempts

\* Recovery slots, too.
LEMMA EnrollSlots ==
  ASSUME NEW u \in Counts, u.slots < MaxSlots
  PROVE  u.slots + 1 \in Recoveries /\ [u EXCEPT !.slots = u.slots + 1] \in Counts
BY EnrollmentAssumption DEF Counts, Slots, Recoveries, Main

\* Both at once.
Recovering(u) == [u EXCEPT !.attempts = u.attempts + 1, !.slots = u.slots + 1]
LEMMA EnrollBoth ==
  ASSUME NEW u \in Counts, u.slots < MaxSlots, u.attempts < MaxAttempts
  PROVE  Recovering(u) \in Counts /\ Recovering(u).attempts \in Attempts
<1>1. u.slots + 1 \in 0 .. MaxSlots
  BY EnrollmentAssumption DEF Counts
<1>2. u.attempts + 1 \in Attempts /\ u.attempts + 1 \in 0 .. MaxAttempts
  BY EnrollmentAssumption DEF Counts, Attempts
<1>3. QED
  BY <1>1, <1>2 DEF Recovering, Counts

\* And enrollment IDs.
LEMMA EnrollIds ==
  ASSUME NEW u \in Counts, u.ids < MaxIds
  PROVE  /\ [u EXCEPT !.ids = u.ids + 1] \in Counts
         /\ [u EXCEPT !.ids = u.ids + 1].ids \in Ids
BY EnrollmentAssumption DEF Counts, Ids

\* start() of a client.
LEMMA EnrollBegins ==
  ASSUME EnrollIInv, NEW w \in Workers, NEW c \in EnrollClient, Begin(w, c), pc[w] = "idle"
  PROVE  /\ used' \in Counts
         /\ \E d \in EnrollClient, p \in {"idle", "start"} :
               auth' = [auth EXCEPT ![w] = d] /\ pc' = [pc EXCEPT ![w] = p]
<1>0. used \in Counts /\ pc = [pc EXCEPT ![w] = pc[w]]
  BY EnrollHas
<1>1. CASE auth' = [auth EXCEPT ![w] = SetPhase(c, "credential_error")] /\ UNCHANGED <<pc, used>>
  <2>1. SetPhase(c, "credential_error") \in EnrollClient
    BY EnrollPhases DEF Phases, Going
  <2>2. QED
    BY <1>0, <1>1, <2>1
<1>2. CASE /\ used.attempts < MaxAttempts
           /\ used' = [used EXCEPT !.attempts = used.attempts + 1]
           /\ auth' = [auth EXCEPT ![w] = Trying(c, "starting", used'.attempts)]
           /\ pc' = [pc EXCEPT ![w] = "start"]
  <2>1. used' \in Counts /\ used'.attempts \in Attempts
    BY <1>0, <1>2, EnrollAttempts
  <2>2. Trying(c, "starting", used'.attempts) \in EnrollClient
    BY <2>1, EnrollTries DEF Phases
  <2>3. QED
    BY <1>2, <2>1, <2>2
<1>3. QED
  BY <1>1, <1>2 DEF Begin, Trying

\* What the vault has stays there.
VaultGrows == \A s \in Slots : vault[s] # None => vault'[s] = vault[s]

\* retry_save() of a client.
LEMMA EnrollSaves ==
  ASSUME EnrollIInv, NEW w \in Workers, NEW c \in EnrollClient, NEW g \in Grants, Save(w, c, g)
  PROVE  /\ \E d \in EnrollClient : auth' = [auth EXCEPT ![w] = d]
         /\ vault' \in [Slots -> Grants \cup {None}]
         /\ VaultGrows
<1>0. vault \in [Slots -> Grants \cup {None}] /\ c.slot \in Slots
  BY EnrollHas, EnrollParts
<1>1. \E d \in EnrollClient : auth' = [auth EXCEPT ![w] = d]
  <2>1. /\ Keeping(c, "credential_error", g) \in EnrollClient
        /\ Keeping(c, "grant_saved", None) \in EnrollClient
    BY EnrollKeeps DEF Phases, Going
  <2>2. \/ auth' = [auth EXCEPT ![w] = Keeping(c, "credential_error", g)]
        \/ auth' = [auth EXCEPT ![w] = Keeping(c, "grant_saved", None)]
    BY DEF Save, Keeping
  <2>3. QED
    BY <2>1, <2>2
<1>2. vault' = vault \/ (vault[c.slot] \in {None, g} /\ vault' = [vault EXCEPT ![c.slot] = g])
  BY DEF Save, Unused
<1>3. QED
  BY <1>0, <1>1, <1>2 DEF VaultGrows

\* Steps of a client.
LEMMA EnrollAsks ==
  ASSUME EnrollIInv, NEW w \in Workers,
         Start(w) \/ StartReply(w) \/ Poll(w) \/ Cancel(w) \/ Progress(w) \/ Restart(w)
  PROVE  EnrollIInv' /\ vault' = vault
<1>0. /\ auth[w] \in EnrollClient /\ pc = [pc EXCEPT ![w] = pc[w]]
      /\ auth = [auth EXCEPT ![w] = auth[w]]
      /\ original \in [Workers -> EnrollClient \cup {None}]
      /\ vault \in [Slots -> Grants \cup {None}] /\ slots \in Seq(Recoveries) /\ used \in Counts
      /\ code \in [Attempts -> Codes]
  BY EnrollHas
<1>1. UNCHANGED <<held, vault, reg, slots, code, wire, registry>>
  BY DEF Start, StartReply, Poll, Cancel, Progress, Restart
<1>2. CASE Start(w)
  <2>1. original' = original /\ pc[w] = "idle" /\ Begin(w, auth[w])
    BY <1>2 DEF Start
  <2>2. QED
    BY <1>0, <1>1, <2>1, EnrollBegins, EnrollMoves
<1>3. CASE StartReply(w)
  <2>1. UNCHANGED <<original, used>> /\ pc' = [pc EXCEPT ![w] = "idle"]
    BY <1>3 DEF StartReply
  <2>2. \E d \in EnrollClient : auth' = [auth EXCEPT ![w] = d]
    <3>1. CASE auth' = auth
      BY <1>0, <3>1
    <3>2. ASSUME NEW p \in {"waiting", "expired", "failed"}, auth[w].phase = "starting",
                 auth' = [auth EXCEPT ![w] = SetPhase(auth[w], p)]
          PROVE  \E d \in EnrollClient : auth' = [auth EXCEPT ![w] = d]
      <4>1. auth[w].attempt \in Attempts
        BY <1>0, <3>2, EnrollParts DEF Going
      <4>2. SetPhase(auth[w], p) \in EnrollClient
        BY <1>0, <4>1, EnrollPhases DEF Phases
      <4>3. QED
        BY <3>2, <4>2
    <3>3. QED
      BY <1>3, <3>1, <3>2 DEF StartReply
  <2>3. QED
    BY <1>0, <1>1, <2>1, <2>2, EnrollMoves
<1>4. CASE Poll(w)
  <2>1. UNCHANGED <<original, used>> /\ pc[w] = "idle" /\ auth[w].phase = "waiting"
    BY <1>4 DEF Poll
  <2>2. auth[w].attempt \in Attempts
    BY <1>0, <2>1, EnrollParts DEF Going
  <2>3. /\ SetPhase(auth[w], "expired") \in EnrollClient
        /\ SetPhase(auth[w], "requesting") \in EnrollClient
        /\ SetPhase(auth[w], "requesting").attempt \in Attempts
    BY <1>0, <2>2, EnrollPhases DEF Phases, Going
  <2>4. \/ auth' = [auth EXCEPT ![w] = SetPhase(auth[w], "expired")] /\ pc' = [pc EXCEPT ![w] = "idle"]
        \/ /\ auth' = [auth EXCEPT ![w] = SetPhase(auth[w], "requesting")]
           /\ pc' = [pc EXCEPT ![w] = "poll"]
    BY <1>0, <1>4, <2>1 DEF Poll
  <2>5. QED
    BY <1>0, <1>1, <2>1, <2>3, <2>4, EnrollMoves
<1>5. CASE Cancel(w)
  <2>1. /\ UNCHANGED <<original, used>> /\ pc[w] \in {"idle", "start", "poll"}
        /\ pc' = [pc EXCEPT ![w] = pc[w]]
        /\ auth' = [auth EXCEPT ![w] = Cancelled(auth[w])]
    BY <1>0, <1>5 DEF Cancel
  <2>2. Cancelled(auth[w]) \in EnrollClient /\ Cancelled(auth[w]).attempt = auth[w].attempt
    BY <1>0, EnrollCancels
  <2>3. pc[w] = "poll" => auth[w].attempt \in Attempts
    BY DEF EnrollIInv, Within
  <2>4. QED
    BY <1>0, <1>1, <2>1, <2>2, <2>3, EnrollMoves
<1>6. CASE Progress(w)
  <2>1. /\ UNCHANGED <<original, used>> /\ pc' = [pc EXCEPT ![w] = "idle"]
        /\ auth' = [auth EXCEPT ![w] = Restored(auth[w])]
    BY <1>0, <1>6 DEF Progress
  <2>2. Restored(auth[w]) \in EnrollClient
    BY <1>0, EnrollRestores DEF EnrollIInv
  <2>3. QED
    BY <1>0, <1>1, <2>1, <2>2, EnrollMoves
<1>7. CASE Restart(w)
  <2>1. pc[w] = "idle" /\ Replace(w) /\ Begin(w, Client(auth[w].slot))
    BY <1>7 DEF Restart
  <2>2. Client(auth[w].slot) \in EnrollClient
    BY <1>0, EnrollNew, EnrollParts
  <2>3. original' \in [Workers -> EnrollClient \cup {None}]
    BY <1>0, <2>1 DEF Replace
  <2>4. QED
    BY <1>0, <1>1, <2>1, <2>2, <2>3, EnrollBegins, EnrollMoves
<1>8. QED
  BY <1>1, <1>2, <1>3, <1>4, <1>5, <1>6, <1>7

\* The reply to a poll, and another try to save its grant.
LEMMA EnrollReceives ==
  ASSUME EnrollIInv, NEW w \in Workers, PollReply(w) \/ RetrySave(w)
  PROVE  EnrollIInv' /\ VaultGrows
<1>0. /\ auth[w] \in EnrollClient /\ pc = [pc EXCEPT ![w] = pc[w]]
      /\ auth = [auth EXCEPT ![w] = auth[w]]
      /\ original \in [Workers -> EnrollClient \cup {None}]
      /\ vault \in [Slots -> Grants \cup {None}] /\ slots \in Seq(Recoveries) /\ used \in Counts
      /\ code \in [Attempts -> Codes]
  BY EnrollHas
<1>1. UNCHANGED <<original, held, reg, slots, used, wire, registry>>
  BY DEF PollReply, RetrySave
<1>2. CASE RetrySave(w)
  <2>1. /\ pc' = [pc EXCEPT ![w] = "idle"] /\ code' = code
        /\ auth[w].pending # None /\ Save(w, auth[w], auth[w].pending)
    BY <1>0, <1>2 DEF RetrySave
  <2>2. auth[w].pending \in Grants
    BY <1>0, <2>1, EnrollParts
  <2>3. QED
    BY <1>0, <1>1, <2>1, <2>2, EnrollSaves, EnrollMoves
<1>3. CASE PollReply(w)
  <2> DEFINE c == auth[w]
             a == auth[w].attempt
  <2>1. pc[w] = "poll" /\ pc' = [pc EXCEPT ![w] = "idle"]
    BY <1>3 DEF PollReply
  <2>2. a \in Attempts
    BY <2>1 DEF EnrollIInv, Within
  <2>3. code' \in [Attempts -> Codes]
    BY <1>0, <1>3 DEF PollReply, Redeemed, Codes
  <2>4. ASSUME NEW p \in {"waiting", "denied", "expired", "failed", "uncertain"}
        PROVE  SetPhase(c, p) \in EnrollClient
    BY <1>0, <2>2, EnrollPhases DEF Phases
  <2>5. \/ \E p \in {"waiting", "denied", "expired", "failed", "uncertain"} :
              /\ auth' = [auth EXCEPT ![w] = IF Wanted(c) THEN SetPhase(c, p) ELSE c]
              /\ vault' = vault
        \/ auth' = auth /\ vault' = vault
        \/ code[a] \in Accounts /\ Save(w, c, [attempt |-> a, account |-> code[a]])
    BY <1>3 DEF PollReply
  <2>6. CASE code[a] \in Accounts /\ Save(w, c, [attempt |-> a, account |-> code[a]])
    <3>1. [attempt |-> a, account |-> code[a]] \in Grants
      BY <2>2, <2>6 DEF Grants
    <3>2. QED
      BY <1>0, <1>1, <2>1, <2>3, <2>6, <3>1, EnrollSaves, EnrollMoves
  <2>7. CASE ~(code[a] \in Accounts /\ Save(w, c, [attempt |-> a, account |-> code[a]]))
    <3>1. vault' = vault /\ \E d \in EnrollClient : auth' = [auth EXCEPT ![w] = d]
      BY <1>0, <2>4, <2>5, <2>7
    <3>2. QED
      BY <1>0, <1>1, <2>1, <2>3, <3>1, EnrollMoves DEF VaultGrows
  <2>8. QED
    BY <2>6, <2>7
<1>4. QED
  BY <1>2, <1>3

\* A recovery, the end of a cleanup, and of a worker.
LEMMA EnrollReturns ==
  ASSUME EnrollIInv, NEW w \in Workers, Reauthorize(w) \/ CleanupEnds(w) \/ Crash(w)
  PROVE  EnrollIInv' /\ vault' = vault
<1>0. /\ auth[w] \in EnrollClient /\ pc = [pc EXCEPT ![w] = pc[w]]
      /\ auth = [auth EXCEPT ![w] = auth[w]]
      /\ \A c \in EnrollClient \cup {None} :
            [original EXCEPT ![w] = c] \in [Workers -> EnrollClient \cup {None}]
      /\ original \in [Workers -> EnrollClient \cup {None}]
      /\ vault \in [Slots -> Grants \cup {None}] /\ slots \in Seq(Recoveries) /\ used \in Counts
      /\ code \in [Attempts -> Codes]
  BY EnrollHas
<1>1. UNCHANGED <<vault, reg, code, wire, registry>>
  BY DEF Reauthorize, CleanupEnds, Crash
<1>2. Cancelled(auth[w]) \in EnrollClient
  BY <1>0, EnrollCancels
<1>3. CASE Reauthorize(w)
  <2> DEFINE s == used.slots + 1
  <2>1. /\ held' = held /\ pc[w] = "idle" /\ used.slots < MaxSlots
        /\ slots' = Append(slots, s)
        /\ original' = [original EXCEPT ![w] = IF original[w] = None THEN Cancelled(auth[w])
                                               ELSE original[w]]
        /\ \/ /\ auth' = [auth EXCEPT ![w] = SetPhase(Client(s), "credential_error")]
              /\ used' = [used EXCEPT !.slots = s] /\ pc' = pc
           \/ /\ used.attempts < MaxAttempts
              /\ used' = Recovering(used)
              /\ auth' = [auth EXCEPT ![w] = Trying(Client(s), "starting", used'.attempts)]
              /\ pc' = [pc EXCEPT ![w] = "start"]
    BY <1>3 DEF Reauthorize, Trying, Recovering
  <2>2. s \in Slots /\ s \in Recoveries
    BY <1>0, <2>1, EnrollSlots DEF Recoveries
  <2>3. slots' \in Seq(Recoveries) /\ slots' # <<>>
    BY <1>0, <2>1, <2>2
  <2>4. original' \in [Workers -> EnrollClient \cup {None}]
    BY <1>0, <1>2, <2>1
  <2>5. Client(s) \in EnrollClient
    BY <2>2, EnrollNew
  <2>6. /\ used' \in Counts
        /\ \E d \in EnrollClient, p \in {"idle", "start"} :
              auth' = [auth EXCEPT ![w] = d] /\ pc' = [pc EXCEPT ![w] = p]
    <3>1. CASE /\ auth' = [auth EXCEPT ![w] = SetPhase(Client(s), "credential_error")]
               /\ used' = [used EXCEPT !.slots = s] /\ pc' = pc
      <4>1. used' \in Counts
        BY <1>0, <2>1, <3>1, EnrollSlots
      <4>2. SetPhase(Client(s), "credential_error") \in EnrollClient
        BY <2>5, EnrollPhases DEF Phases, Going
      <4>3. QED
        BY <1>0, <2>1, <3>1, <4>1, <4>2
    <3>2. CASE /\ used.attempts < MaxAttempts
               /\ used' = Recovering(used)
               /\ auth' = [auth EXCEPT ![w] = Trying(Client(s), "starting", used'.attempts)]
               /\ pc' = [pc EXCEPT ![w] = "start"]
      <4>1. used' \in Counts /\ used'.attempts \in Attempts
        BY <1>0, <2>1, <3>2, EnrollBoth
      <4>2. Trying(Client(s), "starting", used'.attempts) \in EnrollClient
        BY <2>5, <4>1, EnrollTries DEF Phases
      <4>3. QED
        BY <3>2, <4>1, <4>2
    <3>3. QED
      BY <2>1, <3>1, <3>2
  <2>7. QED
    BY <1>0, <1>1, <2>1, <2>3, <2>4, <2>6, EnrollMoves, ZenonT(40)
<1>4. CASE CleanupEnds(w)
  <2>1. UNCHANGED <<held, slots, used>> /\ pc' = [pc EXCEPT ![w] = "idle"]
    BY <1>4 DEF CleanupEnds
  <2>2. /\ \E d \in EnrollClient : auth' = [auth EXCEPT ![w] = d]
        /\ original' \in [Workers -> EnrollClient \cup {None}]
    <3>1. \/ /\ auth' = [auth EXCEPT ![w] = IF original[w] = None THEN Cancelled(auth[w])
                                            ELSE original[w]]
             /\ original' = [original EXCEPT ![w] = None]
          \/ auth' = auth /\ original' = original
      BY <1>4 DEF CleanupEnds
    <3>2. original[w] \in EnrollClient \cup {None}
      BY <1>0
    <3>3. QED
      BY <1>0, <1>2, <3>1, <3>2
  <2>3. QED
    BY <1>0, <1>1, <2>1, <2>2, EnrollMoves
<1>5. CASE Crash(w)
  <2>1. /\ UNCHANGED <<slots, used>> /\ pc' = [pc EXCEPT ![w] = "idle"]
        /\ held' = [held EXCEPT ![w] = None] /\ auth' = [auth EXCEPT ![w] = Client(Latest)]
        /\ original' = [original EXCEPT ![w] = IF Latest = Main THEN None ELSE Client(Main)]
    BY <1>5 DEF Crash
  <2>2. Main \in Slots
    BY EnrollmentAssumption DEF Main, Slots
  <2>3. Latest \in Slots
    <3>1. slots # <<>> => slots[Len(slots)] \in Recoveries
      BY <1>0
    <3>2. QED
      BY <2>2, <3>1 DEF Latest, Recoveries
  <2>4. Client(Latest) \in EnrollClient /\ Client(Main) \in EnrollClient
    BY <2>2, <2>3, EnrollNew
  <2>5. original' \in [Workers -> EnrollClient \cup {None}]
    BY <1>0, <2>1, <2>4
  <2>6. QED
    BY <1>0, <1>1, <2>1, <2>4, <2>5, EnrollMoves
<1>6. QED
  BY <1>1, <1>3, <1>4, <1>5

\* The lock is taken, when nobody has it.
LEMMA EnrollLocks ==
  ASSUME EnrollIInv, NEW w \in Workers, Register(w) \/ Cleanup(w)
  PROVE  EnrollIInv' /\ vault' = vault
<1>0. EnrollTypes /\ auth[w] \in EnrollClient
  BY DEF EnrollIInv, EnrollTypes
<1>1. /\ LockFree /\ UNCHANGED <<original, vault, reg, slots, used, code, wire, registry>>
      /\ pc' \in {[pc EXCEPT ![w] = "account"], [pc EXCEPT ![w] = "cleanup"]}
  BY DEF Register, Cleanup
<1>2. \A v \in Workers : ~Locking(v)
  BY <1>1 DEF LockFree, Locking
<1>3. OneLock'
  BY <1>0, <1>1, <1>2 DEF EnrollTypes, OneLock, Locking
<1>4. OneRow'
  BY <1>1 DEF EnrollIInv, OneRow
<1>5. CASE Register(w)
  <2> DEFINE c == Restored(auth[w])
  <2>1. /\ MayRegister(c) /\ auth' = [auth EXCEPT ![w] = c]
        /\ held' = [held EXCEPT ![w] = vault[c.slot]] /\ pc' = [pc EXCEPT ![w] = "account"]
    BY <1>5 DEF Register
  <2>2. c \in EnrollClient /\ c.slot \in Slots
    BY <1>0, EnrollRestores, EnrollParts
  <2>3. vault[c.slot] # None
    BY <2>1 DEF MayRegister, Valid
  <2> HIDE DEF c
  <2>4. vault[c.slot] \in Grants
    BY <1>0, <2>2, <2>3 DEF EnrollTypes
  <2>5. EnrollTypes'
    BY <1>0, <1>1, <2>1, <2>2, <2>4 DEF EnrollTypes
  <2>6. /\ pc'[w] = "account" /\ held'[w] # None
        /\ \A v \in Workers : v # w => pc'[v] = pc[v] /\ held'[v] = held[v] /\ auth'[v] = auth[v]
    BY <1>0, <2>1, <2>3 DEF EnrollTypes
  <2>7. \A v \in Workers : Within(v)'
    BY <1>1, <2>6 DEF EnrollIInv, Within
  <2>8. QED
    BY <1>1, <1>3, <1>4, <2>5, <2>7 DEF EnrollIInv
<1>6. CASE Cleanup(w)
  <2>1. /\ UNCHANGED <<auth, held>> /\ pc' = [pc EXCEPT ![w] = "cleanup"]
        /\ reg # None /\ reg.device # None
    BY <1>6 DEF Cleanup
  <2>2. EnrollTypes'
    BY <1>0, <1>1, <2>1 DEF EnrollTypes
  <2>3. pc'[w] = "cleanup" /\ \A v \in Workers : v # w => pc'[v] = pc[v]
    BY <1>0, <2>1 DEF EnrollTypes
  <2>4. \A v \in Workers : Within(v)'
    BY <1>1, <2>1, <2>3 DEF EnrollIInv, Within
  <2>5. QED
    BY <1>1, <1>3, <1>4, <2>2, <2>4 DEF EnrollIInv
<1>7. QED
  BY <1>1, <1>5, <1>6

\* The row is saved, and then sent.
LEMMA EnrollDispatches ==
  ASSUME EnrollIInv, NEW w \in Workers, Dispatch(w)
  PROVE  EnrollIInv' /\ vault' = vault
<1>0. EnrollTypes /\ Within(w)
  BY DEF EnrollIInv
<1>1. /\ pc[w] = "account" /\ SameOwner(w) /\ pc' = [pc EXCEPT ![w] = "confirm"]
      /\ wire' = wire \cup {<<held[w].account, reg'.id>>}
      /\ UNCHANGED <<auth, original, held, vault, slots, code, registry>>
      /\ \/ /\ reg = None /\ used.ids < MaxIds /\ used' = [used EXCEPT !.ids = used.ids + 1]
            /\ reg' = [attempt |-> held[w].attempt, id |-> used'.ids,
                       owner |-> Owner(w), device |-> None]
         \/ reg # None /\ used' = used /\ reg' = reg
  BY DEF Dispatch
<1>2. held[w].attempt \in Attempts /\ held[w].account \in Accounts
  BY <1>0, <1>1 DEF EnrollTypes, Within, Grants
<1>3. Owner(w) \in Accounts \cup {None} /\ (Binds = TRUE => Owner(w) = held[w].account)
  BY <1>2 DEF Owner
<1>4. reg' \in Rows /\ used' \in Counts /\ (reg # None => reg' = reg)
      /\ (reg = None => reg'.owner = Owner(w))
  <2>1. CASE reg = None
    <3>1. used' \in Counts /\ used'.ids \in Ids
      BY <1>0, <1>1, <2>1, EnrollIds DEF EnrollTypes
    <3>2. QED
      BY <1>1, <1>2, <1>3, <2>1, <3>1 DEF Rows
  <2>2. CASE reg # None
    BY <1>0, <1>1, <2>2 DEF EnrollTypes
  <2>3. QED
    BY <2>1, <2>2
<1>5. reg' # None /\ reg'.id \in Ids
  BY <1>4, EnrollRows DEF Rows
<1>6. EnrollTypes'
  <2>1. wire' \subseteq Devices
    BY <1>0, <1>1, <1>2, <1>5 DEF EnrollTypes, Devices
  <2>2. QED
    BY <1>0, <1>1, <1>4, <2>1 DEF EnrollTypes
<1>7. pc'[w] = "confirm" /\ \A v \in Workers : v # w => pc'[v] = pc[v]
  BY <1>0, <1>1 DEF EnrollTypes
<1>8. \A v \in Workers : v # w => ~Locking(v)
  BY <1>1 DEF EnrollIInv, OneLock, Locking
<1>9. \A v \in Workers : Within(v)'
  BY <1>1, <1>5, <1>7, <1>8 DEF EnrollIInv, Within, Locking
<1>10. OneLock'
  BY <1>7, <1>8 DEF OneLock, Locking
<1>11. OneRow'
  <2> SUFFICES ASSUME Binds = TRUE
               PROVE  /\ \A d \in wire' : reg' # None /\ d = <<reg'.owner, reg'.id>>
                      /\ \A d \in Devices : registry[d] # "none" => d \in wire'
    BY <1>1 DEF OneRow
  <2>1. reg'.owner = held[w].account
    BY <1>1, <1>3, <1>4 DEF SameOwner
  <2>2. reg = None => wire = {}
    BY DEF EnrollIInv, OneRow
  <2>3. \A d \in wire : d = <<reg'.owner, reg'.id>>
    BY <1>4, <2>2 DEF EnrollIInv, OneRow
  <2>4. \A d \in Devices : registry[d] # "none" => d \in wire'
    BY <1>1 DEF EnrollIInv, OneRow
  <2>5. QED
    BY <1>1, <1>5, <2>1, <2>3, <2>4
<1>12. QED
  BY <1>1, <1>6, <1>9, <1>10, <1>11 DEF EnrollIInv

\* The answer is saved, or not; nothing is sent.
LEMMA EnrollConfirms ==
  ASSUME EnrollIInv, NEW w \in Workers, Confirm(w) \/ Undispatched(w)
  PROVE  /\ EnrollIInv' /\ vault' = vault
         /\ \/ reg' = reg
            \/ /\ reg # None /\ reg' # None
               /\ reg'.owner = reg.owner /\ reg'.attempt = reg.attempt
<1>0. EnrollTypes /\ Within(w)
  BY DEF EnrollIInv
<1>1. /\ Locking(w) /\ pc' = [pc EXCEPT ![w] = "idle"] /\ held' = [held EXCEPT ![w] = None]
      /\ UNCHANGED <<auth, original, vault, slots, used, code, wire, registry>>
  BY DEF Confirm, Undispatched, Give, Locking
<1>2. \/ reg' = reg
      \/ /\ reg \in Rows /\ reg' \in Rows
         /\ reg'.owner = reg.owner /\ reg'.id = reg.id /\ reg'.attempt = reg.attempt
  <2>1. CASE Undispatched(w)
    BY <2>1 DEF Undispatched
  <2>2. CASE Confirm(w) /\ reg' # reg
    <3> DEFINE d == <<held[w].account, reg.id>>
               v == [account |-> held[w].account, state |-> registry[d]]
    <3>1. /\ pc[w] = "confirm" /\ registry[d] # "none"
          /\ reg' = [reg EXCEPT !.device = v]
      BY <2>2 DEF Confirm
    <3>2. reg \in Rows /\ held[w] \in Grants
      BY <1>0, <3>1 DEF EnrollTypes, Within
    <3>3. held[w].account \in Accounts /\ d \in Devices
      BY <3>2 DEF Grants, Rows, Devices
    <3>4. v \in [account : Accounts, state : {"registered", "revoked"}]
      BY <1>0, <3>1, <3>3 DEF EnrollTypes
    <3> HIDE DEF d, v
    <3>5. QED
      BY <3>1, <3>2, <3>4 DEF Rows
  <2>3. QED
    BY <2>1, <2>2
<1>3. \/ reg' = reg
      \/ /\ reg # None /\ reg' # None /\ reg'.owner = reg.owner /\ reg'.id = reg.id
         /\ reg'.attempt = reg.attempt
  BY <1>2, EnrollRows
<1>4. EnrollTypes'
  BY <1>0, <1>1, <1>2 DEF EnrollTypes
<1>5. /\ pc'[w] = "idle"
      /\ \A v \in Workers : v # w => pc'[v] = pc[v] /\ held'[v] = held[v]
  BY <1>0, <1>1 DEF EnrollTypes
<1>6. \A v \in Workers : v # w => ~Locking(v)
  BY <1>1 DEF EnrollIInv, OneLock
<1>7. \A v \in Workers : Within(v)'
  BY <1>1, <1>5, <1>6 DEF EnrollIInv, Within, Locking
<1>8. OneLock'
  BY <1>5, <1>6 DEF OneLock, Locking
<1>9. OneRow'
  BY <1>1, <1>3 DEF EnrollIInv, OneRow
<1>10. QED
  BY <1>1, <1>3, <1>4, <1>7, <1>8, <1>9 DEF EnrollIInv

\* A recovery slot is forgotten, and its row.
LEMMA EnrollForgets ==
  ASSUME EnrollIInv, NEW w \in Workers, Forget(w) \/ Unrecord(w)
  PROVE  /\ EnrollIInv'
         /\ \A s \in Slots : vault[s] # None /\ vault'[s] # vault[s] =>
               /\ vault'[s] = None /\ \E i \in DOMAIN slots : slots[i] = s
               /\ reg # None /\ reg.device # None
<1>0. EnrollTypes /\ Within(w)
  BY DEF EnrollIInv
<1>1. /\ Locking(w) /\ pc[w] \in {"cleanup", "unrecord"}
      /\ UNCHANGED <<auth, original, held, reg, used, code, wire, registry>>
      /\ slots # <<>>
      /\ \/ /\ slots' = slots /\ vault' = [vault EXCEPT ![Head(slots)] = None]
            /\ pc' = [pc EXCEPT ![w] = "unrecord"]
         \/ slots' = Tail(slots) /\ vault' = vault /\ pc' = [pc EXCEPT ![w] = "cleanup"]
  BY <1>0 DEF Forget, Unrecord, Locking, Within
<1>2. vault' \in [Slots -> Grants \cup {None}]
  BY <1>0, <1>1 DEF EnrollTypes
<1>3. slots' \in Seq(Recoveries)
  <2>1. slots \in Seq(Recoveries) /\ slots # <<>>
    BY <1>0, <1>1 DEF EnrollTypes
  <2>2. Tail(slots) \in Seq(Recoveries)
    BY <2>1
  <2>3. QED
    BY <1>1, <2>1, <2>2
<1>4. EnrollTypes'
  BY <1>0, <1>1, <1>2, <1>3 DEF EnrollTypes
<1>5. /\ pc'[w] = "cleanup" \/ (pc'[w] = "unrecord" /\ slots' # <<>>)
      /\ \A v \in Workers : v # w => pc'[v] = pc[v]
  BY <1>0, <1>1 DEF EnrollTypes
<1>6. \A v \in Workers : Within(v)'
  <2>1. \A v \in Workers : v # w => ~Locking(v)
    BY <1>1 DEF EnrollIInv, OneLock
  <2>2. QED
    BY <1>0, <1>1, <1>5, <2>1 DEF EnrollIInv, Within, Locking
<1>7. OneLock'
  BY <1>1, <1>5 DEF EnrollIInv, OneLock, Locking
<1>8. OneRow'
  BY <1>1 DEF EnrollIInv, OneRow
<1>9. ASSUME NEW s \in Slots, vault[s] # None, vault'[s] # vault[s]
      PROVE  /\ vault'[s] = None /\ \E i \in DOMAIN slots : slots[i] = s
             /\ reg # None /\ reg.device # None
  <2>1. slots # <<>> /\ s = Head(slots) /\ vault'[s] = None
    BY <1>0, <1>1, <1>9 DEF EnrollTypes
  <2>2. 1 \in DOMAIN slots /\ slots[1] = s
    BY <1>0, <2>1 DEF EnrollTypes
  <2>3. QED
    BY <1>0, <1>1, <2>1, <2>2 DEF Within
<1>10. QED
  BY <1>4, <1>6, <1>7, <1>8, <1>9 DEF EnrollIInv

\* The provider, the relay and the clock.
LEMMA EnrollElsewhere ==
  ASSUME EnrollIInv,
         \/ \E a \in Attempts : Decide(a) \/ Lapse(a)
         \/ \E d \in Devices : RelayRegisters(d) \/ Revoke(d)
  PROVE  EnrollIInv' /\ vault' = vault
<1>0. EnrollTypes
  BY DEF EnrollIInv
<1>1. UNCHANGED <<auth, original, pc, held, vault, reg, slots, used, wire>>
  BY DEF Decide, Lapse, RelayRegisters, Revoke
<1>2. code' \in [Attempts -> Codes]
  BY <1>0 DEF EnrollTypes, Codes, Decide, Lapse, RelayRegisters, Revoke
<1>3. registry' \in [Devices -> {"none", "registered", "revoked"}]
  BY <1>0 DEF EnrollTypes, Decide, Lapse, RelayRegisters, Revoke
<1>4. EnrollTypes'
  BY <1>0, <1>1, <1>2, <1>3 DEF EnrollTypes
<1>5. (\A w \in Workers : Within(w)') /\ OneLock'
  BY <1>1 DEF EnrollIInv, Within, OneLock, Locking
<1>6. OneRow'
  <2>1. \A d \in Devices : registry'[d] # "none" => registry[d] # "none" \/ d \in wire
    BY <1>0 DEF EnrollTypes, Decide, Lapse, RelayRegisters, Revoke
  <2>2. QED
    BY <1>1, <2>1 DEF EnrollIInv, OneRow
<1>7. QED
  BY <1>1, <1>4, <1>5, <1>6 DEF EnrollIInv

\* Every step of the enrollment.  A saved grant goes only with its recovery slot, after
\* the receipt.
LEMMA EnrollStep ==
  ASSUME EnrollIInv, [Next]_vars
  PROVE  /\ EnrollIInv'
         /\ \A s \in Slots : vault[s] # None /\ vault'[s] # vault[s] =>
               /\ vault'[s] = None /\ \E i \in DOMAIN slots : slots[i] = s
               /\ reg # None /\ reg.device # None
<1>1. CASE Next
  <2>1. ASSUME NEW w \in Workers, Forget(w) \/ Unrecord(w)
        PROVE  /\ EnrollIInv'
               /\ \A s \in Slots : vault[s] # None /\ vault'[s] # vault[s] =>
                     /\ vault'[s] = None /\ \E i \in DOMAIN slots : slots[i] = s
                     /\ reg # None /\ reg.device # None
    BY <2>1, EnrollForgets
  <2>2. ASSUME NEW w \in Workers, WorkerStep(w), ~Forget(w), ~Unrecord(w)
        PROVE  EnrollIInv' /\ VaultGrows
    BY <2>2, EnrollAsks, EnrollReceives, EnrollReturns, EnrollLocks, EnrollDispatches,
       EnrollConfirms DEF WorkerStep, VaultGrows
  <2>3. CASE \/ \E a \in Attempts : Decide(a) \/ Lapse(a)
             \/ \E d \in Devices : RelayRegisters(d) \/ Revoke(d)
    BY <2>3, EnrollElsewhere
  <2>4. QED
    BY <1>1, <2>1, <2>2, <2>3 DEF Next, VaultGrows
<1>2. CASE UNCHANGED vars
  BY <1>2
  DEF vars, EnrollIInv, EnrollTypes, Within, OneLock, Locking, OneRow
<1>3. QED
  BY <1>1, <1>2

\* So the grant of the first slot stays, which is no recovery's.
LEMMA EnrollFirst ==
  ASSUME EnrollIInv, [Next]_vars, vault[Main] # None
  PROVE  vault'[Main] = vault[Main]
<1>1. Main \in Slots
  BY EnrollmentAssumption DEF Main, Slots
<1>2. slots \in Seq(Recoveries)
  BY DEF EnrollIInv, EnrollTypes
<1>3. \A i \in DOMAIN slots : slots[i] # Main
  BY <1>2 DEF Recoveries
<1>4. QED
  BY <1>1, <1>3, EnrollStep

\* The row is made.
LEMMA EnrollMade ==
  ASSUME EnrollIInv, Resumes, NEW w \in Workers, Dispatch(w)
  PROVE  Resumes'
<1>1. EnrollTypes /\ Within(w)
  BY DEF EnrollIInv
<1>2. /\ pc[w] = "account" /\ UNCHANGED <<held, vault>>
      /\ \/ reg = None /\ reg' = [attempt |-> held[w].attempt, id |-> used'.ids,
                                  owner |-> Owner(w), device |-> None]
         \/ reg # None /\ reg' = reg
  BY DEF Dispatch
<1>3. reg' # None
  <2>1. EnrollIInv' /\ Within(w)'
    BY EnrollDispatches DEF EnrollIInv
  <2>2. pc'[w] = "confirm"
    BY <1>1 DEF Dispatch, EnrollTypes
  <2>3. QED
    BY <2>1, <2>2 DEF Within
<1>4. CASE reg = None
  <2>1. held[w] = vault[Main] /\ held[w] # None
    BY <1>1, <1>2, <1>4 DEF Resumes, Within
  <2>2. /\ reg'.attempt = vault[Main].attempt
        /\ Binds = TRUE => reg'.owner = vault[Main].account
    BY <1>2, <1>4, <2>1 DEF Owner
  <2>3. QED
    BY <1>2, <1>3, <2>1, <2>2 DEF Resumes
<1>5. CASE reg # None
  BY <1>2, <1>3, <1>5 DEF Resumes
<1>6. QED
  BY <1>4, <1>5

\* A worker takes the grant for it, or gives up.
LEMMA EnrollTakes ==
  ASSUME EnrollIInv, Resumes, NEW w \in Workers, Register(w) \/ Confirm(w) \/ Undispatched(w)
  PROVE  Resumes'
<1>1. EnrollTypes /\ vault' = vault
  BY EnrollLocks, EnrollConfirms DEF EnrollIInv
<1>2. CASE Register(w)
  <2>1. /\ reg' = reg /\ MayRegister(Restored(auth[w]))
        /\ held' = [held EXCEPT ![w] = vault[Restored(auth[w]).slot]]
        /\ pc' = [pc EXCEPT ![w] = "account"]
    BY <1>2 DEF Register
  <2>2. reg = None => Restored(auth[w]).slot = Main
    BY <2>1 DEF MayRegister
  <2>3. reg = None => \A v \in Workers : pc'[v] = "account" => held'[v] = vault[Main]
    BY <1>1, <2>1, <2>2 DEF EnrollTypes, Resumes
  <2>4. QED
    BY <1>1, <2>1, <2>3 DEF Resumes
<1>3. CASE Confirm(w) \/ Undispatched(w)
  <2>1. pc' = [pc EXCEPT ![w] = "idle"] /\ held' = [held EXCEPT ![w] = None]
    BY <1>3 DEF Confirm, Undispatched, Give
  <2>2. \A v \in Workers : pc'[v] = "account" => pc[v] = "account" /\ held'[v] = held[v]
    BY <1>1, <2>1 DEF EnrollTypes
  <2>3. \/ reg' = reg
        \/ /\ reg # None /\ reg' # None
           /\ reg'.owner = reg.owner /\ reg'.attempt = reg.attempt
    BY <1>3, EnrollConfirms
  <2>4. QED
    BY <1>1, <2>2, <2>3 DEF Resumes
<1>4. QED
  BY <1>2, <1>3

\* Steps that leave the row alone.
LEMMA EnrollLeaves ==
  ASSUME EnrollTypes,
         \/ \E w \in Workers : /\ WorkerStep(w) /\ ~Dispatch(w) /\ ~Register(w)
                               /\ ~Confirm(w) /\ ~Undispatched(w)
         \/ \E a \in Attempts : Decide(a) \/ Lapse(a)
         \/ \E d \in Devices : RelayRegisters(d) \/ Revoke(d)
         \/ UNCHANGED vars
  PROVE  /\ reg' = reg
         /\ \A v \in Workers : pc'[v] = "account" => pc[v] = "account" /\ held'[v] = held[v]
<1>1. ASSUME NEW w \in Workers, WorkerStep(w), ~Dispatch(w), ~Register(w), ~Confirm(w),
             ~Undispatched(w)
      PROVE  /\ reg' = reg
             /\ \/ pc' = pc
                \/ \E p \in {"idle", "start", "poll", "cleanup", "unrecord"} :
                      pc' = [pc EXCEPT ![w] = p]
             /\ held' = held \/ (held' = [held EXCEPT ![w] = None] /\ pc' = [pc EXCEPT ![w] = "idle"])
  <2>1. CASE Start(w) \/ StartReply(w) \/ Poll(w) \/ PollReply(w) \/ RetrySave(w)
    BY <2>1 DEF Start, StartReply, Poll, PollReply, RetrySave, Begin
  <2>2. CASE Cancel(w) \/ Progress(w) \/ Restart(w) \/ Reauthorize(w)
    BY <2>2 DEF Cancel, Progress, Restart, Reauthorize, Begin
  <2>3. CASE Cleanup(w) \/ Forget(w) \/ Unrecord(w) \/ CleanupEnds(w) \/ Crash(w)
    BY <2>3 DEF Cleanup, Forget, Unrecord, CleanupEnds, Crash
  <2>4. QED
    BY <1>1, <2>1, <2>2, <2>3 DEF WorkerStep
<1>2. CASE \/ \E a \in Attempts : Decide(a) \/ Lapse(a)
           \/ \E d \in Devices : RelayRegisters(d) \/ Revoke(d)
           \/ UNCHANGED vars
  BY <1>2 DEF Decide, Lapse, RelayRegisters, Revoke, vars
<1>3. pc \in [Workers -> {"idle", "start", "poll", "account", "confirm", "cleanup", "unrecord"}]
      /\ held \in [Workers -> Grants \cup {None}]
  BY DEF EnrollTypes
<1>4. ASSUME NEW w \in Workers, WorkerStep(w), ~Dispatch(w), ~Register(w), ~Confirm(w),
             ~Undispatched(w)
      PROVE  /\ reg' = reg
             /\ \A v \in Workers : pc'[v] = "account" => pc[v] = "account" /\ held'[v] = held[v]
  BY <1>1, <1>3, <1>4
<1>5. QED
  BY <1>2, <1>4

\* Every step of the enrollment keeps the row on the grant in the first slot.
LEMMA EnrollResumes ==
  ASSUME EnrollIInv, Resumes, [Next]_vars
  PROVE  Resumes'
<1>1. CASE \E w \in Workers : Dispatch(w) \/ Register(w) \/ Confirm(w) \/ Undispatched(w)
  BY <1>1, EnrollMade, EnrollTakes
<1>2. CASE ~\E w \in Workers : Dispatch(w) \/ Register(w) \/ Confirm(w) \/ Undispatched(w)
  <2>1. /\ reg' = reg
        /\ \A v \in Workers : pc'[v] = "account" => pc[v] = "account" /\ held'[v] = held[v]
    BY <1>2, EnrollLeaves DEF Next, EnrollIInv
  <2>2. \A v \in Workers : pc[v] = "account" => held[v] # None
    BY DEF EnrollIInv, Within
  <2>3. QED
    BY <2>1, <2>2, EnrollFirst DEF Resumes
<1>3. QED
  BY <1>1, <1>2

\* What the invariant says of the enrollment.
LEMMA EnrollOne ==
  ASSUME EnrollIInv, Binds = TRUE
  PROVE  OneDevice
BY DEF EnrollIInv, OneRow, OneDevice

-----------------------------------------------------------------------------
(* The relay's channels. *)

Verdicts == {"done", "failed"}
RelayConn == [stage : {"unused", "accepted", "ended"}, print : Workers \cup {None},
              device : Accounts \cup {None}, up : {"open", "closing", "closed"}]
RelayCall == [stage : {"new", "sent", "failing"} \cup Relay!Ended,
              device : Accounts \cup {None}, conn : 0 .. MaxConns]
RelayClient == [state : {"stopped", "connecting", "connected", "reconnecting", "failed"},
                conn : 0 .. MaxConns]

RelayTypes ==
    /\ bound \in [Workers -> Accounts \cup {None}]
    /\ current \in [Accounts -> 0 .. MaxConns]
    /\ conn \in [Relay!Conns -> RelayConn]
    /\ request \in [Relay!Conns -> Asks \cup {None}]
    /\ reply \in [Relay!Conns -> [call : Asks, verdict : Verdicts] \cup {None}]
    /\ client \in [Workers -> RelayClient]
    /\ call \in [Asks -> RelayCall] /\ ran \subseteq Asks

\* A connected PC has a connection, an accepted connection a device.
Linked ==
    /\ \A c \in Relay!Conns : conn[c].stage = "accepted" => conn[c].device \in Accounts
    /\ \A f \in Workers : client[f].state = "connected" => client[f].conn \in Relay!Conns

\* The frames of a call: one request at most, of a call that was sent and has not run; a
\* reply says what became of it.
Undone == {"new", "rejected", "unavailable", "failed"}
Framed(k) ==
    /\ \A c \in Relay!Conns : request[c] = k => call[k].stage \notin Undone /\ k \notin ran
    /\ \A b, c \in Relay!Conns : request[b] = k /\ request[c] = k => b = c
    /\ k \in ran => call[k].stage \notin Undone
    /\ call[k].stage = "done" => k \in ran
    /\ call[k].stage \in {"sent", "failing"} => call[k].conn # 0
Replied(c) ==
    reply[c] # None =>
        /\ call[reply[c].call].stage # "new"
        /\ reply[c].verdict = "done" => reply[c].call \in ran
        /\ reply[c].verdict = "failed" =>
              /\ reply[c].call \notin ran
              /\ \A b \in Relay!Conns : request[b] # reply[c].call

RelayIInv ==
    /\ RelayTypes /\ Linked /\ Relay!OpenIsCurrent
    /\ (\A k \in Asks : Framed(k)) /\ (\A c \in Relay!Conns : Replied(c))

\* Nothing is connected.
LEMMA RelayStart == Relay!Init => RelayIInv
<1> SUFFICES ASSUME Relay!Init PROVE RelayIInv
  OBVIOUS
<1>1. RelayTypes
  BY RemoteAssumption DEF Relay!Init, RelayTypes, RelayConn, RelayCall, RelayClient
<1>2. Linked /\ Relay!OpenIsCurrent
  BY DEF Relay!Init, Linked, Relay!OpenIsCurrent
<1>3. \A k \in Asks : Framed(k)
  BY RemoteAssumption DEF Relay!Init, Framed
<1>4. \A c \in Relay!Conns : Replied(c)
  BY DEF Relay!Init, Replied
<1>5. QED
  BY <1>1, <1>2, <1>3, <1>4 DEF RelayIInv

\* The registry, the grants, and PCs that have no connection or lose it.
LEMMA RelayAdmin ==
  ASSUME RelayIInv, UNCHANGED <<current, conn, request, reply, call, ran>>,
         bound' \in [Workers -> Accounts \cup {None}],
         client' \in [Workers -> RelayClient], Linked'
  PROVE  RelayIInv'
<1>1. RelayTypes'
  BY DEF RelayIInv, RelayTypes
<1>2. Relay!OpenIsCurrent'
  BY DEF RelayIInv, Relay!OpenIsCurrent
<1>3. (\A k \in Asks : Framed(k)') /\ (\A c \in Relay!Conns : Replied(c)')
  BY DEF RelayIInv, Framed, Replied
<1>4. QED
  BY <1>1, <1>2, <1>3 DEF RelayIInv

\* The registry and the grants.
LEMMA RelayRegistry ==
  ASSUME RelayIInv,
         \/ \E f \in Workers, d \in Accounts : Relay!BindChannel(f, d)
         \/ \E f, g \in Workers, d \in Accounts : Relay!RotateChannel(f, g, d)
         \/ \E d \in Accounts : Relay!Revoke(d) \/ Relay!RevokeGrant(d)
  PROVE  RelayIInv'
<1>1. UNCHANGED <<current, conn, request, reply, client, call, ran>>
  BY DEF Relay!BindChannel, Relay!RotateChannel, Relay!Revoke, Relay!RevokeGrant
<1>2. bound' \in [Workers -> Accounts \cup {None}]
  BY DEF RelayIInv, RelayTypes, Relay!BindChannel, Relay!RotateChannel, Relay!Revoke,
         Relay!RevokeGrant
<1>3. Linked' /\ client' \in [Workers -> RelayClient]
  BY <1>1 DEF RelayIInv, RelayTypes, Linked
<1>4. QED
  BY <1>1, <1>2, <1>3, RelayAdmin

\* A PC's loop.
LEMMA RelayLoop ==
  ASSUME RelayIInv, NEW f \in Workers,
         Relay!Refuse(f) \/ Relay!Run(f) \/ Relay!Reconnect(f) \/ Relay!ClientStops(f)
         \/ Relay!ClientLost(f)
  PROVE  RelayIInv'
<1>1. UNCHANGED <<bound, current, conn, request, reply, call, ran>>
  BY DEF Relay!Refuse, Relay!Run, Relay!Reconnect, Relay!ClientStops, Relay!ClientLost
<1>2. bound' \in [Workers -> Accounts \cup {None}] /\ client \in [Workers -> RelayClient]
  BY <1>1 DEF RelayIInv, RelayTypes
<1>3. \E s \in {"stopped", "connecting", "reconnecting", "failed"} :
        \/ client' = [client EXCEPT ![f].state = s]
        \/ client' = [client EXCEPT ![f] = [state |-> s, conn |-> 0]]
  BY DEF Relay!Refuse, Relay!Run, Relay!Reconnect, Relay!ClientStops, Relay!ClientLost
<1>4. PICK s \in {"stopped", "connecting", "reconnecting", "failed"} :
        \/ client' = [client EXCEPT ![f].state = s]
        \/ client' = [client EXCEPT ![f] = [state |-> s, conn |-> 0]]
  BY <1>3
<1>5. 0 \in 0 .. MaxConns
  BY RemoteAssumption
<1>6. client' \in [Workers -> RelayClient]
  BY <1>2, <1>4, <1>5 DEF RelayClient
<1>7. \A g \in Workers : client'[g].state = "connected" => client'[g] = client[g]
  BY <1>2, <1>4 DEF RelayClient
<1>8. Linked'
  BY <1>1, <1>7 DEF RelayIInv, Linked
<1>9. QED
  BY <1>1, <1>2, <1>6, <1>8, RelayAdmin

\* One end of a connection changes.
LEMMA RelayUp ==
  ASSUME RelayTypes, NEW c \in 0 .. MaxConns, NEW v \in {"open", "closing", "closed"}
  PROVE  Relay!SetUp(c, v) \in [Relay!Conns -> RelayConn]
<1>1. \A t \in RelayConn : [t EXCEPT !.up = v] \in RelayConn
  BY DEF RelayConn
<1>2. conn \in [Relay!Conns -> RelayConn]
  BY DEF RelayTypes
<1>3. QED
  BY <1>1, <1>2 DEF Relay!SetUp

\* Nothing else of the connection does.
LEMMA RelayUpOnly ==
  ASSUME RelayTypes, NEW c \in 0 .. MaxConns, NEW v \in {"open", "closing", "closed"},
         NEW e \in Relay!Conns
  PROVE  /\ Relay!SetUp(c, v)[e].stage = conn[e].stage
         /\ Relay!SetUp(c, v)[e].device = conn[e].device
         /\ Relay!SetUp(c, v)[e].up = IF e = c THEN v ELSE conn[e].up
<1>1. ASSUME NEW t \in RelayConn
      PROVE  /\ [t EXCEPT !.up = v].stage = t.stage
             /\ [t EXCEPT !.up = v].device = t.device /\ [t EXCEPT !.up = v].up = v
  BY DEF RelayConn
<1>2. conn \in [Relay!Conns -> RelayConn]
  BY DEF RelayTypes
<1>3. [conn EXCEPT ![c].up = v][e] = IF e = c THEN [conn[e] EXCEPT !.up = v] ELSE conn[e]
  BY <1>2
<1>4. QED
  BY <1>1, <1>2, <1>3 DEF Relay!SetUp

\* A PC is accepted: its connection is the only open one of its device.
LEMMA RelayAccept ==
  ASSUME RelayIInv, NEW f \in Workers, NEW c \in Relay!Conns, Relay!Accept(f, c)
  PROVE  RelayIInv'
<1> DEFINE d == Relay!ChannelDevice(f)
           fresh == [stage |-> "accepted", print |-> f, device |-> d, up |-> "open"]
<1>1. d \in Accounts /\ c \in 1 .. MaxConns /\ c \in 0 .. MaxConns
  BY RemoteAssumption DEF Relay!Accept, Relay!ChannelDevice, RelayIInv, RelayTypes, Relay!Conns
<1>2. /\ \/ conn' = [Relay!SetUp(current[d], "closing") EXCEPT ![c] = fresh]
         \/ /\ conn' = [conn EXCEPT ![c] = fresh]
            /\ current[d] = 0 \/ conn[current[d]].up # "open"
      /\ current' = [current EXCEPT ![d] = c]
      /\ client' = [client EXCEPT ![f] = [state |-> "connected", conn |-> c]]
      /\ UNCHANGED <<bound, request, reply, call, ran>>
  BY DEF Relay!Accept
<1>3. PICK older \in [Relay!Conns -> RelayConn] :
         /\ conn' = [older EXCEPT ![c] = fresh]
         /\ \A e \in Relay!Conns :
               /\ older[e].stage = conn[e].stage
               /\ older[e].device = conn[e].device
               /\ older[e].up = "open" => conn[e].up = "open" /\ e # current[d]
  <2>1. current[d] \in 0 .. MaxConns /\ conn \in [Relay!Conns -> RelayConn]
    BY <1>1 DEF RelayIInv, RelayTypes
  <2>2. CASE conn' = [Relay!SetUp(current[d], "closing") EXCEPT ![c] = fresh]
    <3>1. Relay!SetUp(current[d], "closing") \in [Relay!Conns -> RelayConn]
      BY <1>1, <2>1, RelayUp DEF RelayIInv
    <3>2. ASSUME NEW e \in Relay!Conns
          PROVE  /\ Relay!SetUp(current[d], "closing")[e].stage = conn[e].stage
                 /\ Relay!SetUp(current[d], "closing")[e].device = conn[e].device
                 /\ Relay!SetUp(current[d], "closing")[e].up = "open" =>
                       conn[e].up = "open" /\ e # current[d]
      BY <2>1, RelayUpOnly DEF RelayIInv
    <3>3. QED
      BY <2>2, <3>1, <3>2
  <2>3. CASE conn' = [conn EXCEPT ![c] = fresh] /\ (current[d] = 0 \/ conn[current[d]].up # "open")
    <3>1. \A e \in Relay!Conns : conn[e].up = "open" => e # current[d]
      BY <2>1, <2>3 DEF Relay!Conns
    <3>2. QED
      BY <2>1, <2>3, <3>1
  <2>4. QED
    BY <1>2, <2>2, <2>3
<1>4. fresh \in RelayConn
  BY <1>1 DEF RelayConn
<1>5. RelayTypes'
  <2>1. conn' \in [Relay!Conns -> RelayConn]
    BY <1>2, <1>3, <1>4
  <2>2. current' \in [Accounts -> 0 .. MaxConns]
    BY <1>1, <1>2 DEF RelayIInv, RelayTypes
  <2>3. client' \in [Workers -> RelayClient]
    BY <1>1, <1>2 DEF RelayIInv, RelayTypes, RelayClient
  <2>4. QED
    BY <1>2, <2>1, <2>2, <2>3 DEF RelayIInv, RelayTypes
<1>6. ASSUME NEW e \in Relay!Conns, e # c
      PROVE  /\ conn'[e].stage = conn[e].stage /\ conn'[e].device = conn[e].device
             /\ conn'[e].up = "open" => conn[e].up = "open" /\ e # current[d]
  BY <1>2, <1>3, <1>6
<1>7. conn'[c] = fresh
  BY <1>2, <1>3
<1>8. Linked'
  <2>1. \A e \in Relay!Conns : conn'[e].stage = "accepted" => conn'[e].device \in Accounts
    BY <1>1, <1>6, <1>7 DEF RelayIInv, Linked
  <2>2. \A g \in Workers : client'[g].state = "connected" => client'[g].conn \in Relay!Conns
    BY <1>2 DEF RelayIInv, RelayTypes, Linked
  <2>3. QED
    BY <2>1, <2>2 DEF Linked
<1>9. Relay!OpenIsCurrent'
  <2>1. ASSUME NEW e \in Relay!Conns, conn'[e].stage = "accepted", conn'[e].up = "open"
        PROVE  current'[conn'[e].device] = e
    <3>1. CASE e = c
      BY <1>1, <1>2, <1>7, <3>1 DEF RelayIInv, RelayTypes
    <3>2. CASE e # c
      <4>1. conn[e].stage = "accepted" /\ conn[e].up = "open" /\ e # current[d]
            /\ conn'[e].device = conn[e].device
        BY <1>6, <2>1, <3>2
      <4>2. conn[e].device # d /\ current[conn[e].device] = e /\ conn[e].device \in Accounts
        BY <4>1 DEF RelayIInv, Relay!OpenIsCurrent, Linked
      <4>3. QED
        BY <1>2, <4>1, <4>2 DEF RelayIInv, RelayTypes
    <3>3. QED
      BY <3>1, <3>2
  <2>2. QED
    BY <2>1 DEF Relay!OpenIsCurrent, Relay!Conns
<1>10. (\A k \in Asks : Framed(k)') /\ (\A e \in Relay!Conns : Replied(e)')
  BY <1>2 DEF RelayIInv, Framed, Replied
<1>11. QED
  BY <1>5, <1>8, <1>9, <1>10 DEF RelayIInv

\* A connection ends, at the relay.
LEMMA RelayEnds ==
  ASSUME RelayIInv, NEW c \in Relay!Conns, Relay!SocketCloses(c) \/ Relay!AcceptEnds(c)
  PROVE  RelayIInv'
<1>0. /\ Relay!SetUp(c, "closed") \in [Relay!Conns -> RelayConn]
      /\ \A e \in Relay!Conns :
            /\ Relay!SetUp(c, "closed")[e].stage = conn[e].stage
            /\ Relay!SetUp(c, "closed")[e].device = conn[e].device
            /\ Relay!SetUp(c, "closed")[e].up = "open" => conn[e].up = "open" /\ e # c
      /\ [conn EXCEPT ![c].stage = "ended"] \in [Relay!Conns -> RelayConn]
      /\ \A e \in Relay!Conns :
            /\ [conn EXCEPT ![c].stage = "ended"][e].stage = "accepted" =>
                  conn[e].stage = "accepted" /\ e # c
            /\ [conn EXCEPT ![c].stage = "ended"][e].device = conn[e].device
            /\ [conn EXCEPT ![c].stage = "ended"][e].up = conn[e].up
  <2>1. c \in 0 .. MaxConns
    BY RemoteAssumption DEF Relay!Conns
  <2>2. conn \in [Relay!Conns -> RelayConn]
    BY DEF RelayIInv, RelayTypes
  <2>3. ASSUME NEW t \in RelayConn
        PROVE  /\ [t EXCEPT !.stage = "ended"] \in RelayConn
               /\ [t EXCEPT !.stage = "ended"].stage = "ended"
               /\ [t EXCEPT !.stage = "ended"].device = t.device
               /\ [t EXCEPT !.stage = "ended"].up = t.up
    BY DEF RelayConn
  <2>4. [conn EXCEPT ![c].stage = "ended"] \in [Relay!Conns -> RelayConn]
    BY <2>2, <2>3
  <2>5. Relay!SetUp(c, "closed") \in [Relay!Conns -> RelayConn]
    BY <2>1, RelayUp DEF RelayIInv
  <2>6. ASSUME NEW e \in Relay!Conns
        PROVE  /\ Relay!SetUp(c, "closed")[e].stage = conn[e].stage
               /\ Relay!SetUp(c, "closed")[e].device = conn[e].device
               /\ Relay!SetUp(c, "closed")[e].up = "open" => conn[e].up = "open" /\ e # c
    BY <2>1, RelayUpOnly DEF RelayIInv
  <2>7. \A e \in Relay!Conns :
          [conn EXCEPT ![c].stage = "ended"][e] =
             IF e = c THEN [conn[e] EXCEPT !.stage = "ended"] ELSE conn[e]
    BY <2>2
  <2>8. QED
    BY <2>2, <2>3, <2>4, <2>5, <2>6, <2>7
<1>1. /\ UNCHANGED <<bound, request, client, call, ran>>
      /\ \/ conn' = Relay!SetUp(c, "closed")
         \/ conn' = [conn EXCEPT ![c].stage = "ended"]
      /\ reply' = reply \/ reply' = [reply EXCEPT ![c] = None]
      /\ \/ current' = current
         \/ /\ current' = [current EXCEPT ![conn[c].device] = IF @ = c THEN 0 ELSE @]
            /\ conn[c].up = "closed"
  BY DEF Relay!SocketCloses, Relay!AcceptEnds, Relay!Dropped
<1>2. 0 \in 0 .. MaxConns
  BY RemoteAssumption
<1>3. RelayTypes'
  <2>1. conn' \in [Relay!Conns -> RelayConn]
    BY <1>0, <1>1
  <2>2. current' \in [Accounts -> 0 .. MaxConns]
    BY <1>1, <1>2 DEF RelayIInv, RelayTypes
  <2>3. reply' \in [Relay!Conns -> [call : Asks, verdict : Verdicts] \cup {None}]
    BY <1>1 DEF RelayIInv, RelayTypes
  <2>4. QED
    BY <1>1, <2>1, <2>2, <2>3 DEF RelayIInv, RelayTypes
<1>4. \A e \in Relay!Conns :
         /\ conn'[e].stage = "accepted" => conn[e].stage = "accepted"
         /\ conn'[e].device = conn[e].device
         /\ conn'[e].up = "open" => conn[e].up = "open"
         /\ conn'[e].stage = "accepted" /\ conn'[e].up = "open" => e # c
  <2>1. CASE conn' = Relay!SetUp(c, "closed")
    BY <1>0, <2>1
  <2>2. CASE conn' = [conn EXCEPT ![c].stage = "ended"]
    BY <1>0, <2>2
  <2>3. QED
    BY <1>1, <2>1, <2>2
<1>5. Linked'
  BY <1>1, <1>4 DEF RelayIInv, Linked, Relay!Conns
<1>6. Relay!OpenIsCurrent'
  <2>1. ASSUME NEW e \in Relay!Conns, conn'[e].stage = "accepted", conn'[e].up = "open"
        PROVE  current'[conn'[e].device] = e
    <3>1. conn[e].stage = "accepted" /\ conn[e].up = "open" /\ e # c
          /\ conn'[e].device = conn[e].device
      BY <1>4, <2>1
    <3>2. current[conn[e].device] = e /\ conn[e].device \in Accounts
      BY <3>1 DEF RelayIInv, Relay!OpenIsCurrent, Linked
    <3>3. QED
      BY <1>1, <3>1, <3>2 DEF RelayIInv, RelayTypes
  <2>2. QED
    BY <2>1 DEF Relay!OpenIsCurrent, Relay!Conns
<1>7. \A k \in Asks : Framed(k)'
  BY <1>1 DEF RelayIInv, Framed, Relay!Conns
<1>8. \A e \in Relay!Conns : reply'[e] # None => reply'[e] = reply[e]
  BY <1>1 DEF RelayIInv, RelayTypes
<1>9. \A e \in Relay!Conns : Replied(e)'
  BY <1>1, <1>8 DEF RelayIInv, Replied, Relay!Conns
<1>10. QED
  BY <1>3, <1>5, <1>6, <1>7, <1>9 DEF RelayIInv

\* A call is refused before it is sent, or ends: the registry's side is untouched.
LEMMA RelayCalls ==
  ASSUME RelayIInv, NEW k \in Asks, NEW t \in RelayCall,
         call' = [call EXCEPT ![k] = t], t.stage # "new",
         UNCHANGED <<bound, current, client, ran>>,
         \/ conn' = conn
         \/ \E c \in 0 .. MaxConns : conn' = Relay!SetUp(c, "closing"),
         t.stage = "failing" => t.conn # 0,
         \/ t.stage \in {"unknown", "failing"} /\ call[k].stage \notin Undone
         \/ t.stage \in {"rejected", "unavailable"} /\ call[k].stage = "new"
         \/ t.stage = "done" /\ k \in ran
         \/ t.stage = "failed" /\ k \notin ran /\ \A c \in Relay!Conns : request[c] # k,
         UNCHANGED request,
         reply' = reply \/ \E c \in Relay!Conns : reply' = [reply EXCEPT ![c] = None]
  PROVE  RelayIInv'
<1>0. /\ conn' \in [Relay!Conns -> RelayConn]
      /\ \A e \in Relay!Conns :
            /\ conn'[e].stage = conn[e].stage
            /\ conn'[e].device = conn[e].device
            /\ conn'[e].up = "open" => conn[e].up = "open"
  <2>1. CASE conn' = conn
    BY <2>1 DEF RelayIInv, RelayTypes
  <2>2. CASE \E c \in 0 .. MaxConns : conn' = Relay!SetUp(c, "closing")
    <3>1. PICK c \in 0 .. MaxConns : conn' = Relay!SetUp(c, "closing")
      BY <2>2
    <3>2. conn' \in [Relay!Conns -> RelayConn]
      BY <3>1, RelayUp DEF RelayIInv
    <3>3. ASSUME NEW e \in Relay!Conns
          PROVE  /\ conn'[e].stage = conn[e].stage /\ conn'[e].device = conn[e].device
                 /\ conn'[e].up = "open" => conn[e].up = "open"
      BY <3>1, RelayUpOnly DEF RelayIInv
    <3>4. QED
      BY <3>2, <3>3
  <2>3. QED
    BY <2>1, <2>2
<1>1. RelayTypes'
  <2>1. conn' \in [Relay!Conns -> RelayConn]
    BY <1>0
  <2>2. call' \in [Asks -> RelayCall]
    BY DEF RelayIInv, RelayTypes
  <2>3. reply' \in [Relay!Conns -> [call : Asks, verdict : Verdicts] \cup {None}]
    BY DEF RelayIInv, RelayTypes
  <2>4. QED
    BY <2>1, <2>2, <2>3 DEF RelayIInv, RelayTypes
<1>3. Linked' /\ Relay!OpenIsCurrent'
  BY <1>0 DEF RelayIInv, Linked, Relay!OpenIsCurrent, Relay!Conns
<1>4. call'[k] = t /\ \A j \in Asks \ {k} : call'[j] = call[j]
  BY DEF RelayIInv, RelayTypes
<1>5. \A j \in Asks : Framed(j)'
  <2>1. \A j \in Asks \ {k} : Framed(j)'
    BY <1>4 DEF RelayIInv, Framed, Relay!Conns
  <2>2. Framed(k)'
    BY <1>4 DEF RelayIInv, Framed, Relay!Conns, Undone
  <2>3. QED
    BY <2>1, <2>2
<1>6. \A e \in Relay!Conns : reply'[e] # None => reply'[e] = reply[e]
  BY DEF RelayIInv, RelayTypes
<1>7. \A j \in Asks : call[j].stage # "new" => call'[j].stage # "new"
  BY <1>4
<1>8. \A e \in Relay!Conns : Replied(e)'
  BY <1>6, <1>7 DEF RelayIInv, RelayTypes, Replied, Relay!Conns
<1>9. QED
  BY <1>1, <1>3, <1>5, <1>8 DEF RelayIInv

\* A call is refused, or its outcome becomes known or unknown.
LEMMA RelayOutcome ==
  ASSUME RelayIInv, NEW k \in Asks,
         (\E d \in Accounts : Relay!NotDispatched(k, d)) \/ Relay!Receive(k) \/ Relay!Fail(k)
         \/ Relay!FailEnds(k)
  PROVE  RelayIInv'
<1>1. call \in [Asks -> RelayCall] /\ 0 \in 0 .. MaxConns
  BY RemoteAssumption DEF RelayIInv, RelayTypes
<1>2. \A s \in Relay!Ended : [stage |-> s, device |-> None, conn |-> 0] \in RelayCall
  BY <1>1 DEF RelayCall
<1>3. CASE \E d \in Accounts : Relay!NotDispatched(k, d)
  <2>1. PICK s \in {"rejected", "unavailable"} :
           call' = [call EXCEPT ![k] = [stage |-> s, device |-> None, conn |-> 0]]
    BY <1>3 DEF Relay!NotDispatched, Relay!Ends
  <2> DEFINE t == [stage |-> s, device |-> None, conn |-> 0]
  <2>2. t \in RelayCall /\ t.stage \in {"rejected", "unavailable"}
    BY <1>2 DEF Relay!Ended
  <2>3. call[k].stage = "new" /\ UNCHANGED <<bound, current, conn, request, reply, client, ran>>
    BY <1>3 DEF Relay!NotDispatched
  <2> HIDE DEF t
  <2>4. QED
    BY <2>1, <2>2, <2>3, RelayCalls DEF t
<1>4. CASE Relay!Receive(k)
  <2> DEFINE c == call[k].conn
             s == IF call[k].device \notin granted THEN "unknown" ELSE reply[c].verdict
             t == [stage |-> s, device |-> None, conn |-> 0]
  <2>1. /\ call[k].stage = "sent" /\ reply[c] # None /\ reply[c].call = k
        /\ call' = [call EXCEPT ![k] = t] /\ reply' = [reply EXCEPT ![c] = None]
        /\ UNCHANGED <<bound, current, conn, request, client, ran>>
    BY <1>4 DEF Relay!Receive, Relay!Answered, Relay!Ends
  <2>2. c \in Relay!Conns
    BY <1>1, <2>1, RemoteAssumption DEF RelayCall, Relay!Conns, RelayIInv, Framed
  <2>3. reply[c].verdict \in Verdicts /\ Replied(c)
    BY <2>1, <2>2 DEF RelayIInv, RelayTypes
  <2>4. s \in {"unknown", "done", "failed"} /\ (s = "done" => k \in ran)
        /\ (s = "failed" => k \notin ran /\ \A b \in Relay!Conns : request[b] # k)
    BY <2>1, <2>3 DEF Replied, Verdicts
  <2>5. t \in RelayCall /\ t.stage = s
    BY <1>2, <2>4 DEF Relay!Ended
  <2>6. call[k].stage \notin Undone
    BY <2>1 DEF Undone
  <2> HIDE DEF t, c, s
  <2>7. QED
    BY <2>1, <2>2, <2>4, <2>5, <2>6, RelayCalls
<1>5. CASE Relay!Fail(k)
  <2> DEFINE t == [call[k] EXCEPT !.stage = "failing"]
  <2>1. t \in RelayCall /\ t.stage = "failing" /\ call[k].stage \notin Undone
        /\ call[k].conn \in 0 .. MaxConns /\ t.conn = call[k].conn /\ t.conn # 0
    BY <1>1, <1>5 DEF RelayCall, Relay!Fail, Undone, RelayIInv, Framed
  <2>2. call' = [call EXCEPT ![k] = t]
    BY <1>5 DEF Relay!Fail
  <2>3. UNCHANGED <<bound, current, request, reply, client, ran>>
        /\ (conn' = conn \/ conn' = Relay!SetUp(call[k].conn, "closing"))
    BY <1>5 DEF Relay!Fail
  <2> HIDE DEF t
  <2>4. QED
    BY <2>1, <2>2, <2>3, RelayCalls
<1>6. CASE Relay!FailEnds(k)
  <2> DEFINE t == [stage |-> "unknown", device |-> None, conn |-> 0]
  <2>1. t \in RelayCall /\ t.stage = "unknown" /\ call[k].stage \notin Undone
    BY <1>2, <1>6 DEF Relay!FailEnds, Undone, Relay!Ended
  <2>2. call' = [call EXCEPT ![k] = t]
        /\ UNCHANGED <<bound, current, conn, request, reply, client, ran>>
    BY <1>6 DEF Relay!FailEnds, Relay!Ends
  <2> HIDE DEF t
  <2>3. QED
    BY <2>1, <2>2, RelayCalls
<1>7. QED
  BY <1>3, <1>4, <1>5, <1>6

\* A call is sent: its frame is the only one of it.
LEMMA RelaySends ==
  ASSUME RelayIInv, NEW k \in Asks, NEW d \in Accounts, Relay!Dispatch(k, d)
  PROVE  RelayIInv'
<1> DEFINE c == Relay!OwnedChannel(d)
<1>1. c \in Relay!Conns /\ c \in 0 .. MaxConns
  BY RemoteAssumption DEF Relay!Dispatch, Relay!OwnedChannel, RelayIInv, RelayTypes, Relay!Conns
<1>2. PICK s \in {"sent", "failing"} :
         call' = [call EXCEPT ![k] = [stage |-> s, device |-> d, conn |-> c]]
  BY DEF Relay!Dispatch
<1>3. /\ call[k].stage = "new" /\ UNCHANGED <<bound, current, conn, reply, client, ran>>
      /\ request' = request \/ request' = [request EXCEPT ![c] = k]
  BY DEF Relay!Dispatch
<1>4. [stage |-> s, device |-> d, conn |-> c] \in RelayCall
  BY <1>1 DEF RelayCall
<1> HIDE DEF c
<1>5. RelayTypes'
  <2>1. call' \in [Asks -> RelayCall]
    BY <1>2, <1>4 DEF RelayIInv, RelayTypes
  <2>2. request' \in [Relay!Conns -> Asks \cup {None}]
    BY <1>1, <1>3 DEF RelayIInv, RelayTypes
  <2>3. QED
    BY <1>3, <2>1, <2>2 DEF RelayIInv, RelayTypes
<1>6. Linked' /\ Relay!OpenIsCurrent'
  BY <1>3 DEF RelayIInv, Linked, Relay!OpenIsCurrent
<1>7. call'[k].stage = s /\ call'[k].conn = c /\ \A j \in Asks \ {k} : call'[j] = call[j]
  BY <1>2 DEF RelayIInv, RelayTypes
<1>8. k \notin ran /\ \A b \in Relay!Conns : request[b] # k
  BY <1>3 DEF RelayIInv, Framed, Undone
<1>9. \A b \in Relay!Conns : /\ request'[b] = k => b = c
                             /\ request'[b] # k => request'[b] = request[b]
  BY <1>3, <1>8 DEF RelayIInv, RelayTypes
<1>10. \A j \in Asks : Framed(j)'
  <2>1. Framed(k)'
    BY <1>1, <1>3, <1>7, <1>8, <1>9 DEF Framed, Undone, Relay!Conns
  <2>2. ASSUME NEW j \in Asks \ {k} PROVE Framed(j)'
    <3>1. Framed(j) /\ \A b \in Relay!Conns : request'[b] = j => request[b] = j
      BY <1>9 DEF RelayIInv
    <3>2. QED
      BY <1>3, <1>7, <3>1 DEF Framed, Relay!Conns
  <2>3. QED
    BY <2>1, <2>2
<1>11. \A b \in Relay!Conns : Replied(b)'
  <2>1. ASSUME NEW b \in Relay!Conns, reply[b] # None PROVE Replied(b)'
    <3>1. Replied(b) /\ reply[b].call \in Asks \ {k} /\ reply'[b] = reply[b]
      BY <1>3, <2>1 DEF RelayIInv, RelayTypes, Replied
    <3>2. \A e \in Relay!Conns : request'[e] = reply[b].call => request[e] = reply[b].call
      BY <1>9, <3>1
    <3>3. QED
      BY <1>3, <1>7, <2>1, <3>1, <3>2 DEF Replied, Relay!Conns
  <2>2. QED
    BY <1>3, <2>1 DEF Replied
<1>12. QED
  BY <1>5, <1>6, <1>10, <1>11 DEF RelayIInv

\* A PC runs a call, or answers that it did not, once it has taken the frame away.
LEMMA RelayRuns ==
  ASSUME RelayIInv, NEW f \in Workers, Relay!Execute(f)
  PROVE  RelayIInv'
<1>1. PICK c \in Relay!Conns, k \in Asks : c = client[f].conn /\ k = request[c] /\ k # None
  BY RemoteAssumption DEF Relay!Execute, RelayIInv, RelayTypes, Linked
<1>2. /\ request' = [request EXCEPT ![c] = None]
      /\ UNCHANGED <<bound, current, conn, call>>
      /\ \/ client' = client
         \/ client' = [client EXCEPT ![f] = [state |-> "failed", conn |-> 0]]
  BY <1>1 DEF Relay!Execute
<1>3. PICK w \in Verdicts :
         /\ ran' = IF w = "done" THEN ran \cup {k} ELSE ran
         /\ \/ reply' = reply
            \/ reply' = [reply EXCEPT ![c] = None]
            \/ reply' = [reply EXCEPT ![c] = [call |-> k, verdict |-> w]]
  <2>1. CASE conn[c].device \in granted
    BY <1>1, <2>1 DEF Relay!Execute, Verdicts
  <2>2. CASE conn[c].device \notin granted
    BY <1>1, <2>2 DEF Relay!Execute, Verdicts
  <2>3. QED
    BY <2>1, <2>2
<1>4. Framed(k) /\ call[k].stage \notin Undone /\ k \notin ran
      /\ \A b \in Relay!Conns : request[b] = k => b = c
  BY <1>1 DEF RelayIInv, Framed
<1>5. \A b \in Relay!Conns : request'[b] = IF b = c THEN None ELSE request[b]
  BY <1>2 DEF RelayIInv, RelayTypes
<1>6. RelayTypes'
  <2>1. request' \in [Relay!Conns -> Asks \cup {None}]
    BY <1>2 DEF RelayIInv, RelayTypes
  <2>2. reply' \in [Relay!Conns -> [call : Asks, verdict : Verdicts] \cup {None}]
    BY <1>1, <1>3 DEF RelayIInv, RelayTypes
  <2>3. 0 \in 0 .. MaxConns
    BY RemoteAssumption
  <2>4. client' \in [Workers -> RelayClient]
    BY <1>2, <2>3 DEF RelayIInv, RelayTypes, RelayClient
  <2>5. ran' \subseteq Asks
    BY <1>1, <1>3 DEF RelayIInv, RelayTypes
  <2>6. QED
    BY <1>2, <2>1, <2>2, <2>4, <2>5 DEF RelayIInv, RelayTypes
<1>7. Linked' /\ Relay!OpenIsCurrent'
  <2>1. \A g \in Workers : client'[g].state = "connected" => client'[g] = client[g]
    BY <1>2 DEF RelayIInv, RelayTypes
  <2>2. QED
    BY <1>2, <2>1 DEF RelayIInv, Linked, Relay!OpenIsCurrent
<1>8. \A j \in Asks : Framed(j)'
  <2>1. Framed(k)'
    BY <1>1, <1>2, <1>3, <1>4, <1>5 DEF Framed, Undone, Relay!Conns
  <2>2. ASSUME NEW j \in Asks \ {k} PROVE Framed(j)'
    <3>1. Framed(j) /\ (j \in ran' <=> j \in ran)
      BY <1>3 DEF RelayIInv
    <3>2. \A b \in Relay!Conns : request'[b] = j => request[b] = j
      BY <1>5, RemoteAssumption
    <3>3. QED
      BY <1>2, <3>1, <3>2 DEF Framed, Relay!Conns
  <2>3. QED
    BY <1>1, <2>1, <2>2
<1>9. \A b \in Relay!Conns : Replied(b)'
  <2>1. ASSUME NEW b \in Relay!Conns, reply'[b] # None, reply'[b] = reply[b]
        PROVE  Replied(b)'
    <3>1. Replied(b) /\ reply[b].call \in Asks
      BY <2>1 DEF RelayIInv, RelayTypes
    <3>2. (reply[b].call \in ran => reply[b].call \in ran')
          /\ (reply[b].call # k => (reply[b].call \in ran' <=> reply[b].call \in ran))
      BY <1>3
    <3>3. \A e \in Relay!Conns : request'[e] = reply[b].call => request[e] = reply[b].call
      BY <1>5, <3>1, RemoteAssumption
    <3>4. QED
      BY <1>1, <1>2, <2>1, <3>1, <3>2, <3>3 DEF Replied, Relay!Conns
  <2>2. ASSUME reply'[c] = [call |-> k, verdict |-> w] PROVE Replied(c)'
    <3>1. (w = "done" => k \in ran') /\ (w = "failed" => k \notin ran')
      BY <1>3, <1>4
    <3>2. \A e \in Relay!Conns : request'[e] # k
      BY <1>1, <1>4, <1>5
    <3>3. QED
      BY <1>2, <1>4, <2>2, <3>1, <3>2 DEF Replied, Relay!Conns, Undone
  <2>3. \A b \in Relay!Conns :
           \/ reply'[b] = reply[b] \/ reply'[b] = None
           \/ b = c /\ reply'[c] = [call |-> k, verdict |-> w]
    BY <1>1, <1>3 DEF RelayIInv, RelayTypes
  <2>4. QED
    BY <2>1, <2>2, <2>3 DEF Replied
<1>10. QED
  BY <1>6, <1>7, <1>8, <1>9 DEF RelayIInv

\* Every step of the relay and of the PCs keeps it.
LEMMA RelayStep == ASSUME RelayIInv, Relay!Next \/ UNCHANGED relayVars PROVE RelayIInv'
<1>1. CASE UNCHANGED relayVars
  <2>1. RelayTypes' /\ Linked' /\ Relay!OpenIsCurrent'
    BY <1>1 DEF RelayIInv, relayVars, RelayTypes, Linked, Relay!OpenIsCurrent
  <2>2. (\A k \in Asks : Framed(k)') /\ (\A c \in Relay!Conns : Replied(c)')
    BY <1>1 DEF RelayIInv, relayVars, Framed, Replied
  <2>3. QED
    BY <2>1, <2>2 DEF RelayIInv
<1>2. CASE Relay!Next
  BY <1>2, RelayRegistry, RelayLoop, RelayAccept, RelayEnds, RelayOutcome, RelaySends, RelayRuns
     DEF Relay!Next
<1>3. QED
  BY <1>1, <1>2

\* It says what the run checks of the relay.
LEMMA RelayKeeps == RelayIInv => Relay!OutcomeHonest /\ Relay!OpenIsCurrent
BY DEF RelayIInv, Framed, Undone, Relay!OutcomeHonest, Relay!Conns

-----------------------------------------------------------------------------
(* The router of saved devices. *)

Unsent == <<0, {}>>

RouterTypes ==
    /\ device \in [Router!DeviceIds -> Accounts \cup {None}] /\ added \in Nat
    /\ routed \in [Ops -> [bound : Router!Routes, dispatched : BOOLEAN] \cup {None}]
    /\ caller \in [Asks -> [stage : {"free", "asking", "claimed", "waiting"},
                            op : Ops \cup {None}, route : Router!Routes \cup {None}]]
    /\ forwarded \in [Ops -> Nat \X SUBSET Router!Routes]

\* A call under way has the route its ID is bound to, and knows the claim it made.
Calling(k) ==
    caller[k].stage # "free" =>
        /\ caller[k].op \in Ops /\ routed[caller[k].op] # None
        /\ caller[k].route = routed[caller[k].op].bound
        /\ caller[k].stage # "asking" => routed[caller[k].op].dispatched
        /\ caller[k].stage = "claimed" => forwarded[caller[k].op] = Unsent

\* One call claims an ID, and nothing is forwarded that was not claimed.
Alone(j, k) == caller[j].stage = "claimed" /\ caller[k].stage = "claimed"
               /\ caller[j].op = caller[k].op => j = k
Once(r) == <<1, {r}>>
Dispatched(o) ==
    forwarded[o] # Unsent =>
        routed[o] # None /\ routed[o].dispatched /\ forwarded[o] = Once(routed[o].bound)

RouterIInv ==
    /\ RouterTypes /\ \A k \in Asks : Calling(k)
    /\ (\A j, k \in Asks : Alone(j, k)) /\ (\A o \in Ops : Dispatched(o))

\* A binding is something, and so is a route.
LEMMA RouterBinds == None \notin [bound : Router!Routes, dispatched : BOOLEAN]
BY RemoteAssumption DEF Router!Routes, Router!DeviceIds

\* No device is saved.
LEMMA RouterStart == Router!Init => RouterIInv
<1> SUFFICES ASSUME Router!Init PROVE RouterIInv
  OBVIOUS
<1>1. RouterTypes
  BY DEF Router!Init, RouterTypes, Router!Free
<1>2. \A k \in Asks : caller[k].stage = "free"
  BY DEF Router!Init, Router!Free
<1>3. \A o \in Ops : forwarded[o] = Unsent
  BY DEF Router!Init, Unsent
<1>4. QED
  BY <1>1, <1>2, <1>3 DEF RouterIInv, Calling, Alone, Dispatched

\* Devices come and go without a call.
LEMMA RouterDevices ==
  ASSUME RouterIInv,
         (\E e \in Accounts : Router!Add(e)) \/ (\E i \in Router!DeviceIds : Router!Remove(i))
  PROVE  RouterIInv'
<1>1. UNCHANGED <<routed, caller, forwarded>>
  BY DEF Router!Add, Router!Remove
<1>2. RouterTypes'
  BY <1>1 DEF RouterIInv, RouterTypes, Router!Add, Router!Remove, Router!DeviceIds
<1>3. QED
  BY <1>1, <1>2 DEF RouterIInv, Calling, Alone, Dispatched

\* A call binds its ID to the route, or goes on with the route it is bound to.
LEMMA RouterCalls ==
  ASSUME RouterIInv, NEW k \in Asks, NEW o \in Ops, NEW q \in Workers,
         NEW i \in Router!DeviceIds, Router!Call(k, o, q, i)
  PROVE  RouterIInv'
<1> DEFINE r == [request |-> q, id |-> i, endpoint |-> device[i]]
           c == [stage |-> "asking", op |-> o, route |-> r]
           b == IF routed[o] = None THEN [bound |-> r, dispatched |-> FALSE] ELSE routed[o]
<1>1. /\ r \in Router!Routes
      /\ UNCHANGED <<device, added, forwarded>>
      /\ caller' = [caller EXCEPT ![k] = c]
      /\ routed' = [routed EXCEPT ![o] = b]
      /\ routed'[o].bound = r
  BY DEF Router!Call, Router!Bound, Router!Routes, RouterIInv, RouterTypes
<1>2. b \in [bound : Router!Routes, dispatched : BOOLEAN] /\ b # None
  <2>1. CASE routed[o] = None
    <3> HIDE DEF r
    <3>1. [bound |-> r, dispatched |-> FALSE] \in [bound : Router!Routes, dispatched : BOOLEAN]
      BY <1>1
    <3>2. QED
      BY <2>1, <3>1, RouterBinds
  <2>2. CASE routed[o] # None
    BY <2>2 DEF RouterIInv, RouterTypes
  <2>3. QED
    BY <2>1, <2>2
<1>3. c \in [stage : {"free", "asking", "claimed", "waiting"},
             op : Ops \cup {None}, route : Router!Routes \cup {None}]
  BY <1>1
<1>4. c.stage = "asking" /\ c.op = o /\ c.route = r
  OBVIOUS
<1>5. routed[o] # None => b = routed[o]
  OBVIOUS
<1> HIDE DEF r, c, b
<1>6. RouterTypes'
  BY <1>1, <1>2, <1>3 DEF RouterIInv, RouterTypes
<1>7. /\ caller'[k] = c /\ \A j \in Asks : j # k => caller'[j] = caller[j]
      /\ routed'[o] # None /\ \A p \in Ops : routed[p] # None => routed'[p] = routed[p]
  BY <1>1, <1>2, <1>5 DEF RouterIInv, RouterTypes
<1>8. ASSUME NEW j \in Asks PROVE Calling(j)'
  BY <1>1, <1>4, <1>7 DEF RouterIInv, Calling
<1>9. ASSUME NEW j \in Asks, NEW l \in Asks PROVE Alone(j, l)'
  BY <1>4, <1>7 DEF RouterIInv, Alone
<1>10. ASSUME NEW p \in Ops PROVE Dispatched(p)'
  BY <1>1, <1>7 DEF RouterIInv, Dispatched
<1>11. QED
  BY <1>6, <1>8, <1>9, <1>10 DEF RouterIInv

\* The one claim of an ID.
LEMMA RouterClaims ==
  ASSUME RouterIInv, NEW k \in Asks, Router!Claim(k)
  PROVE  RouterIInv'
<1> DEFINE o == caller[k].op
<1>1. /\ caller[k].stage = "asking" /\ ~routed[o].dispatched
      /\ routed' = [routed EXCEPT ![o].dispatched = TRUE]
      /\ caller' = [caller EXCEPT ![k].stage = "claimed"]
      /\ UNCHANGED <<device, added, forwarded>>
  BY DEF Router!Claim
<1>2. o \in Ops /\ routed[o] # None /\ routed[o] \in [bound : Router!Routes, dispatched : BOOLEAN]
  BY <1>1 DEF RouterIInv, RouterTypes, Calling
<1>3. PICK u \in [bound : Router!Routes, dispatched : BOOLEAN] :
         u.bound = routed[o].bound /\ u.dispatched /\ routed' = [routed EXCEPT ![o] = u]
  <2> DEFINE v == [routed[o] EXCEPT !.dispatched = TRUE]
  <2>1. v \in [bound : Router!Routes, dispatched : BOOLEAN]
    BY <1>2
  <2>2. v.bound = routed[o].bound
    BY <1>2
  <2>3. v.dispatched
    BY <1>2
  <2>4. routed' = [routed EXCEPT ![o] = v]
    BY <1>1
  <2> HIDE DEF v
  <2>5. QED
    BY <2>1, <2>2, <2>3, <2>4
<1>4. RouterTypes'
  <2>1. routed' \in [Ops -> [bound : Router!Routes, dispatched : BOOLEAN] \cup {None}]
    BY <1>3 DEF RouterIInv, RouterTypes
  <2>2. caller' \in [Asks -> [stage : {"free", "asking", "claimed", "waiting"},
                            op : Ops \cup {None}, route : Router!Routes \cup {None}]]
    BY <1>1 DEF RouterIInv, RouterTypes
  <2>3. QED
    BY <1>1, <2>1, <2>2 DEF RouterIInv, RouterTypes
<1>5. /\ routed'[o] = u /\ u.bound = routed[o].bound /\ u.dispatched
      /\ \A p \in Ops : p # o => routed'[p] = routed[p]
      /\ caller'[k].stage = "claimed" /\ caller'[k].op = o /\ caller'[k].route = caller[k].route
      /\ \A j \in Asks : j # k => caller'[j] = caller[j]
  BY <1>1, <1>2, <1>3 DEF RouterIInv, RouterTypes
<1>6. routed'[o] # None
  BY <1>3, <1>5, RouterBinds
<1>7. forwarded[o] = Unsent
  BY <1>1, <1>2 DEF RouterIInv, Dispatched
<1> HIDE DEF o
<1>8. ASSUME NEW j \in Asks PROVE Calling(j)'
  <2>1. CASE j = k
    BY <1>1, <1>2, <1>5, <1>6, <1>7, <2>1 DEF RouterIInv, Calling, o
  <2>2. CASE j # k
    BY <1>1, <1>2, <1>5, <1>6, <2>2 DEF RouterIInv, Calling
  <2>3. QED
    BY <2>1, <2>2
<1>9. ASSUME NEW j \in Asks, NEW l \in Asks PROVE Alone(j, l)'
  <2>1. \A i \in Asks : caller[i].stage = "claimed" => caller[i].op # o
    BY <1>1 DEF RouterIInv, Calling
  <2>2. QED
    BY <1>5, <2>1 DEF RouterIInv, Alone
<1>10. ASSUME NEW p \in Ops PROVE Dispatched(p)'
  BY <1>1, <1>5, <1>7 DEF RouterIInv, Dispatched
<1>11. QED
  BY <1>4, <1>8, <1>9, <1>10 DEF RouterIInv

\* Its one dispatch.
LEMMA RouterForwards ==
  ASSUME RouterIInv, NEW k \in Asks, Router!Forward(k)
  PROVE  RouterIInv'
<1> DEFINE o == caller[k].op
<1>1. /\ caller[k].stage = "claimed"
      /\ forwarded' = [forwarded EXCEPT
            ![o] = <<forwarded[o][1] + 1, forwarded[o][2] \cup {caller[k].route}>>]
      /\ caller' = [caller EXCEPT ![k].stage = "waiting"]
      /\ UNCHANGED <<device, added, routed>>
  BY DEF Router!Forward
<1>2. /\ o \in Ops /\ routed[o] # None /\ routed[o].dispatched
      /\ caller[k].route = routed[o].bound /\ forwarded[o] = Unsent
      /\ routed[o].bound \in Router!Routes
  BY <1>1 DEF RouterIInv, RouterTypes, Calling
<1>3. /\ forwarded' = [forwarded EXCEPT ![o] = Once(routed[o].bound)]
      /\ Once(routed[o].bound) \in Nat \X SUBSET Router!Routes
  <2>1. <<forwarded[o][1] + 1, forwarded[o][2] \cup {caller[k].route}>> = Once(routed[o].bound)
    BY <1>2 DEF Unsent, Once
  <2>2. Once(routed[o].bound) \in Nat \X SUBSET Router!Routes
    BY <1>2 DEF Once
  <2>3. QED
    BY <1>1, <2>1, <2>2
<1>4. RouterTypes'
  <2>1. caller' \in [Asks -> [stage : {"free", "asking", "claimed", "waiting"},
                            op : Ops \cup {None}, route : Router!Routes \cup {None}]]
    BY <1>1 DEF RouterIInv, RouterTypes
  <2>2. forwarded' \in [Ops -> Nat \X SUBSET Router!Routes]
    BY <1>3 DEF RouterIInv, RouterTypes
  <2>3. QED
    BY <1>1, <2>1, <2>2 DEF RouterIInv, RouterTypes
<1>5. /\ forwarded'[o] = Once(routed[o].bound)
      /\ \A p \in Ops : p # o => forwarded'[p] = forwarded[p]
      /\ caller'[k].stage = "waiting" /\ caller'[k].op = o /\ caller'[k].route = caller[k].route
      /\ \A j \in Asks : j # k => caller'[j] = caller[j]
  BY <1>1, <1>2, <1>3 DEF RouterIInv, RouterTypes
<1>6. ASSUME NEW j \in Asks PROVE Calling(j)'
  <2>1. CASE j = k
    BY <1>1, <1>2, <1>5, <2>1 DEF RouterIInv, Calling
  <2>2. CASE j # k
    <3>1. caller[j].stage = "claimed" => caller[j].op # o
      BY <1>1, <2>2 DEF RouterIInv, Alone
    <3>2. QED
      BY <1>1, <1>5, <2>2, <3>1 DEF RouterIInv, Calling
  <2>3. QED
    BY <2>1, <2>2
<1>7. ASSUME NEW j \in Asks, NEW l \in Asks PROVE Alone(j, l)'
  BY <1>5 DEF RouterIInv, Alone
<1>8. ASSUME NEW p \in Ops PROVE Dispatched(p)'
  BY <1>1, <1>2, <1>5 DEF RouterIInv, Dispatched
<1>9. QED
  BY <1>4, <1>6, <1>7, <1>8 DEF RouterIInv

\* A call that ends.
LEMMA RouterReturns ==
  ASSUME RouterIInv, NEW k \in Asks, Router!Refuse(k) \/ Router!Return(k)
  PROVE  RouterIInv'
<1>1. caller' = [caller EXCEPT ![k] = Router!Free] /\ UNCHANGED <<device, added, routed, forwarded>>
  BY DEF Router!Refuse, Router!Return
<1>2. RouterTypes'
  BY <1>1 DEF RouterIInv, RouterTypes, Router!Free
<1>3. caller'[k].stage = "free" /\ \A j \in Asks : j # k => caller'[j] = caller[j]
  BY <1>1 DEF RouterIInv, RouterTypes, Router!Free
<1>4. QED
  BY <1>1, <1>2, <1>3 DEF RouterIInv, Calling, Alone, Dispatched

\* Every step of the router.
LEMMA RouterStep ==
  ASSUME RouterIInv, [Router!Next]_routerVars
  PROVE  RouterIInv'
<1>1. CASE Router!Next
  BY <1>1, RouterDevices, RouterCalls, RouterReturns, RouterClaims, RouterForwards
  DEF Router!Next
<1>2. CASE UNCHANGED routerVars
  BY <1>2 DEF routerVars, RouterIInv, RouterTypes, Calling, Alone, Dispatched
<1>3. QED
  BY <1>1, <1>2

\* What the invariant says of the router.
LEMMA RouterKeeps == RouterIInv => Router!ForwardedOnce
<1> SUFFICES ASSUME RouterIInv, NEW o \in Ops
             PROVE  /\ forwarded[o][1] <= 1
                    /\ forwarded[o][2] # {} => forwarded[o][2] = {routed[o].bound}
  BY DEF Router!ForwardedOnce
<1>1. forwarded[o] = <<0, {}>> \/ forwarded[o] = <<1, {routed[o].bound}>>
  BY DEF RouterIInv, Dispatched, Unsent, Once
<1>2. QED
  BY <1>1

-----------------------------------------------------------------------------
(* The ledger which the HTTP service and SSH children open side by side. *)

LedgerTypes ==
    /\ opState \in [Ops -> Delegated!RowState]
    /\ opDigest \in [Ops -> Accounts \cup {None}]
    /\ opTask \in [Workers -> [Ops -> Delegated!TaskPhase]]
    /\ opClaimant \in [Ops -> Workers \cup {None}]
    /\ opEffects \in [Ops -> [Accounts -> Nat]]

\* An ID without a row has no trace; the row's claimant alone has a task of it, whose
\* effects are of the request it is bound to, one once it has dispatched.
Traced(o) ==
    /\ opState[o] = "absent" => \A p \in Workers : opTask[p][o] = "none"
    /\ opState[o] # "absent" => opDigest[o] \in Accounts
    /\ \A p \in Workers : opTask[p][o] # "none" => opClaimant[o] = p
Single(o) ==
    /\ \A a \in Accounts : opEffects[o][a] = 0 \/ (opEffects[o][a] = 1 /\ opDigest[o] = a)
    /\ opState[o] = "absent" => \A a \in Accounts : opEffects[o][a] = 0
    /\ \A p \in Workers : opTask[p][o] = "created" => \A a \in Accounts : opEffects[o][a] = 0

LedgerIInv == LedgerTypes /\ \A o \in Ops : Traced(o) /\ Single(o)

\* The directory is empty.
LEMMA LedgerStart == Delegated!Init => LedgerIInv
BY DEF Delegated!Init, LedgerIInv, LedgerTypes, Traced, Single, Delegated!RowState,
       Delegated!Terminal, Delegated!TaskPhase

\* Rows are found and closed, tasks end.
LEMMA LedgerRests ==
  ASSUME LedgerIInv, UNCHANGED <<opDigest, opClaimant, opEffects>>,
         opState' \in [Ops -> Delegated!RowState],
         \A o \in Ops : opState'[o] = "absent" <=> opState[o] = "absent",
         opTask' \in [Workers -> [Ops -> Delegated!TaskPhase]],
         \A p \in Workers, o \in Ops : opTask'[p][o] \in {opTask[p][o], "none"}
  PROVE  LedgerIInv'
<1>1. LedgerTypes'
  BY DEF LedgerIInv, LedgerTypes
<1>2. ASSUME NEW o \in Ops PROVE Traced(o)' /\ Single(o)'
  <2>1. Traced(o) /\ Single(o)
    BY DEF LedgerIInv
  <2>2. QED
    BY <2>1 DEF Traced, Single
<1>3. QED
  BY <1>1, <1>2 DEF LedgerIInv

\* A claim inserts the row and creates its task.
LEMMA LedgerClaims ==
  ASSUME LedgerIInv, NEW p \in Workers, NEW o \in Ops, NEW a \in Accounts,
         Delegated!ClaimNew(p, o, a)
  PROVE  LedgerIInv'
<1>1. /\ opState[o] = "absent" /\ opState' = [opState EXCEPT ![o] = "running"]
      /\ opDigest' = [opDigest EXCEPT ![o] = a]
      /\ opClaimant' = [opClaimant EXCEPT ![o] = p]
      /\ opTask' = [opTask EXCEPT ![p][o] = "created"]
      /\ opEffects' = opEffects
  BY DEF Delegated!ClaimNew, Delegated!InsertRow
<1>2. LedgerTypes'
  BY <1>1 DEF LedgerIInv, LedgerTypes, Delegated!RowState, Delegated!TaskPhase
<1>3. ASSUME NEW i \in Ops, i # o PROVE Traced(i)' /\ Single(i)'
  <2>1. Traced(i) /\ Single(i)
    BY DEF LedgerIInv
  <2>2. /\ opState'[i] = opState[i] /\ opDigest'[i] = opDigest[i]
        /\ opClaimant'[i] = opClaimant[i] /\ \A q \in Workers : opTask'[q][i] = opTask[q][i]
    BY <1>1, <1>3 DEF LedgerIInv, LedgerTypes
  <2>3. QED
    BY <1>1, <2>1, <2>2 DEF Traced, Single
<1>4. Traced(o)' /\ Single(o)'
  <2>1. Traced(o) /\ Single(o)
    BY DEF LedgerIInv
  <2>2. /\ opState'[o] = "running" /\ opDigest'[o] = a /\ opClaimant'[o] = p
        /\ \A q \in Workers : opTask'[q][o] = IF q = p THEN "created" ELSE opTask[q][o]
    BY <1>1 DEF LedgerIInv, LedgerTypes
  <2>3. QED
    BY <1>1, <2>1, <2>2 DEF Traced, Single
<1>5. QED
  BY <1>2, <1>3, <1>4 DEF LedgerIInv

\* A task dispatches once.
LEMMA LedgerDispatches ==
  ASSUME LedgerIInv, NEW p \in Workers, NEW o \in Ops, Delegated!DispatchHandler(p, o)
  PROVE  LedgerIInv'
<1>1. /\ opTask[p][o] = "created" /\ opTask' = [opTask EXCEPT ![p][o] = "dispatched"]
      /\ opEffects' = [opEffects EXCEPT ![o][opDigest[o]] = @ + 1]
      /\ UNCHANGED <<opState, opDigest, opClaimant>>
  BY DEF Delegated!DispatchHandler, Delegated!rowVars
<1>2. Traced(o) /\ Single(o) /\ opState[o] # "absent" /\ opDigest[o] \in Accounts
      /\ \A a \in Accounts : opEffects[o][a] = 0
  BY <1>1 DEF LedgerIInv, Traced, Single
<1>3. opEffects' = [opEffects EXCEPT ![o] = [opEffects[o] EXCEPT ![opDigest[o]] = 1]]
  <2>1. opEffects[o][opDigest[o]] + 1 = 1
    BY <1>2
  <2>2. QED
    BY <1>1, <2>1
<1>4. LedgerTypes'
  <2>1. opEffects' \in [Ops -> [Accounts -> Nat]]
    BY <1>2, <1>3 DEF LedgerIInv, LedgerTypes
  <2>2. opTask' \in [Workers -> [Ops -> Delegated!TaskPhase]]
    BY <1>1 DEF LedgerIInv, LedgerTypes, Delegated!TaskPhase
  <2>3. QED
    BY <1>1, <2>1, <2>2 DEF LedgerIInv, LedgerTypes
<1>5. ASSUME NEW i \in Ops, i # o PROVE Traced(i)' /\ Single(i)'
  <2>1. Traced(i) /\ Single(i)
    BY DEF LedgerIInv
  <2>2. opEffects'[i] = opEffects[i] /\ \A q \in Workers : opTask'[q][i] = opTask[q][i]
    BY <1>1, <1>3, <1>5 DEF LedgerIInv, LedgerTypes
  <2>3. QED
    BY <1>1, <2>1, <2>2 DEF Traced, Single
<1>6. Traced(o)' /\ Single(o)'
  <2>1. \A q \in Workers : opTask'[q][o] = IF q = p THEN "dispatched" ELSE opTask[q][o]
    BY <1>1 DEF LedgerIInv, LedgerTypes
  <2>2. \A q \in Workers : opTask[q][o] # "none" => q = p
    BY <1>1, <1>2 DEF Traced
  <2>3. \A a \in Accounts : opEffects'[o][a] = IF a = opDigest[o] THEN 1 ELSE 0
    BY <1>2, <1>3 DEF LedgerIInv, LedgerTypes
  <2>4. QED
    BY <1>1, <1>2, <2>1, <2>2, <2>3 DEF Traced, Single
<1>7. QED
  BY <1>4, <1>5, <1>6 DEF LedgerIInv

\* A task that ends.
LEMMA LedgerFinishes ==
  ASSUME LedgerIInv, NEW p \in Workers, NEW o \in Ops, opTask[p][o] # "none",
         opTask' = [opTask EXCEPT ![p][o] = "none"],
         UNCHANGED <<opDigest, opClaimant, opEffects>>,
         opState' = opState
         \/ \E s \in Delegated!Terminal : opState' = [opState EXCEPT ![o] = s]
  PROVE  LedgerIInv'
<1>1. opState[o] # "absent"
  BY DEF LedgerIInv, Traced
<1>2. opState' \in [Ops -> Delegated!RowState]
      /\ \A i \in Ops : opState'[i] = "absent" <=> opState[i] = "absent"
  BY <1>1 DEF LedgerIInv, LedgerTypes, Delegated!RowState, Delegated!Terminal
<1>3. opTask' \in [Workers -> [Ops -> Delegated!TaskPhase]]
      /\ \A q \in Workers, i \in Ops : opTask'[q][i] \in {opTask[q][i], "none"}
  BY DEF LedgerIInv, LedgerTypes, Delegated!TaskPhase
<1>4. QED
  BY <1>2, <1>3, LedgerRests

\* Every step of a process keeps it.
LEMMA LedgerStep == ASSUME LedgerIInv, Delegated!Next \/ UNCHANGED opVars PROVE LedgerIInv'
<1>1. CASE UNCHANGED opVars
  <2>1. LedgerTypes'
    BY <1>1 DEF LedgerIInv, LedgerTypes, opVars
  <2>2. QED
    BY <1>1, <2>1 DEF LedgerIInv, Traced, Single, opVars
<1>2. ASSUME UNCHANGED <<opState, opDigest, opClaimant, opEffects, opTask>>
      PROVE  LedgerIInv'
  BY <1>2, LedgerRests DEF LedgerIInv, LedgerTypes
<1>3. ASSUME NEW p \in Workers, Delegated!OpenLedger(p) \/ Delegated!Close(p) \/ Delegated!Crash(p)
      PROVE  LedgerIInv'
  <2>1. CASE Delegated!OpenLedger(p)
    <3>1. /\ opState' = [o \in Ops |-> IF o \in Delegated!Unfinished THEN "unknown" ELSE opState[o]]
          /\ UNCHANGED <<opDigest, opTask, opClaimant, opEffects>>
      BY <2>1 DEF Delegated!OpenLedger, Delegated!Recover, Delegated!history
    <3>2. opState' \in [Ops -> Delegated!RowState]
          /\ \A o \in Ops : opState'[o] = "absent" <=> opState[o] = "absent"
      BY <3>1 DEF LedgerIInv, LedgerTypes, Delegated!RowState, Delegated!Terminal,
                  Delegated!Unfinished
    <3>3. QED
      BY <3>1, <3>2, LedgerRests DEF LedgerIInv, LedgerTypes
  <2>2. CASE Delegated!Close(p)
    BY <1>2, <2>2 DEF Delegated!Close, Delegated!Leave, Delegated!rowVars
  <2>3. CASE Delegated!Crash(p)
    <3>1. /\ opTask' = [opTask EXCEPT ![p] = [o \in Ops |-> "none"]]
          /\ UNCHANGED <<opState, opDigest, opClaimant, opEffects>>
      BY <2>3 DEF Delegated!Crash, Delegated!Leave, Delegated!rowVars
    <3>2. [o \in Ops |-> "none"] \in [Ops -> Delegated!TaskPhase]
      BY DEF Delegated!TaskPhase
    <3>3. opTask' \in [Workers -> [Ops -> Delegated!TaskPhase]]
          /\ \A q \in Workers, o \in Ops : opTask'[q][o] \in {opTask[q][o], "none"}
      BY <3>1, <3>2 DEF LedgerIInv, LedgerTypes
    <3>4. QED
      BY <3>1, <3>3, LedgerRests DEF LedgerIInv, LedgerTypes
  <2>4. QED
    BY <1>3, <2>1, <2>2, <2>3
<1>4. ASSUME NEW p \in Workers, NEW o \in Ops, NEW a \in Accounts,
             \/ Delegated!ClaimLookup(p, o, a) \/ Delegated!ClaimInsert(p, o, a)
             \/ Delegated!ClaimConflict(p, o, a)
      PROVE  LedgerIInv'
  BY <1>2, <1>4, LedgerClaims
     DEF Delegated!ClaimLookup, Delegated!ClaimInsert, Delegated!ClaimCollision,
         Delegated!ClaimConflict, Delegated!rowVars, Delegated!history
<1>5. ASSUME NEW p \in Workers, NEW o \in Ops,
             \/ Delegated!ClaimReplay(p, o) \/ Delegated!OperationsGet(p, o)
             \/ Delegated!DispatchHandler(p, o)
      PROVE  LedgerIInv'
  BY <1>2, <1>5, LedgerDispatches
     DEF Delegated!ClaimReplay, Delegated!OperationsGet, Delegated!rowVars
<1>6. ASSUME NEW p \in Workers, NEW o \in Ops,
             \/ Delegated!FinishPreflight(p, o) \/ Delegated!FinishLost(p, o)
             \/ \E s \in {"failed", "unknown"} : Delegated!FinishUncertain(p, o, s)
             \/ \E b \in Body : Delegated!FinishCompleted(p, o, b)
      PROVE  LedgerIInv'
  <2>1. /\ opTask[p][o] # "none" /\ opTask' = [opTask EXCEPT ![p][o] = "none"]
        /\ UNCHANGED <<opDigest, opClaimant, opEffects>>
        /\ opState' = opState
           \/ \E s \in Delegated!Terminal : opState' = [opState EXCEPT ![o] = s]
    BY <1>6 DEF Delegated!FinishPreflight, Delegated!FinishLost, Delegated!FinishUncertain,
                Delegated!FinishCompleted, Delegated!Finish, Delegated!Store,
                Delegated!Refusable, Delegated!rowVars, Delegated!history, Delegated!Terminal
  <2>2. QED
    BY <2>1, LedgerFinishes
<1>7. ASSUME NEW p \in Workers, NEW keep \in SUBSET Ops, Delegated!ExpireResults(p, keep)
      PROVE  LedgerIInv'
  BY <1>2, <1>7 DEF Delegated!ExpireResults, Delegated!history
<1>8. CASE Delegated!Next
  BY <1>3, <1>4, <1>5, <1>6, <1>7, <1>8 DEF Delegated!Next
<1>9. QED
  BY <1>1, <1>8

\* It says what the run checks of the ledger.
LEMMA LedgerKeeps == LedgerIInv => Delegated!AtMostOnce
BY DEF LedgerIInv, LedgerTypes, Single, Delegated!AtMostOnce

-----------------------------------------------------------------------------
(* A delegated child's calls. *)

ChildFiles == {"none", "created", "guarded", "written", "completed", "undone"}
ChildRows == {"absent", "running", "unknown", "completed", "undone"}
ChildStages == {"new", "answered", "file", "route", "catalog", "probe", "sent"}
OnTheWay == {"route", "catalog", "probe", "sent"}

ChildTypes ==
    /\ childGrant \in [Child!Node -> {"none", "active", "revoked"}]
    /\ input \in {None, "local", "remote"}
    /\ row \in [Child!Node -> ChildRows] /\ worker \in [Child!Node -> ChildFiles]
    /\ childCall \in [Asks -> [kind : {None, "local", "remote", "lookup"}, pc : ChildStages]]
    /\ childWire \in {"none", "flying", "received"}
    /\ disk \in [Child!Node -> {0, 1}] /\ botched \in BOOLEAN

\* A worker's receipt is open and its grant stands; what it says was done was done.
Working(n) ==
    /\ worker[n] # "none" => row[n] \in {"running", "unknown"}
    /\ worker[n] \in {"guarded", "written"} => childGrant[n] = "active"
    /\ worker[n] \in {"created", "guarded"} \/ row[n] = "absent" => disk[n] = 0
    /\ worker[n] \in {"written", "completed"} => disk[n] = 1
    /\ worker[n] = "undone" \/ row[n] = "undone" => disk[n] = 0 \/ botched

\* The ID is bound to one request, which works on one computer.
Asking(k) == childCall[k].pc \in OnTheWay /\ childCall[k].kind # "lookup"
Apart ==
    /\ input # "remote" => /\ childWire = "none" /\ worker["target"] = "none"
                           /\ \A k \in Asks : childCall[k].pc \notin OnTheWay
    /\ input # "local" => worker["source"] = "none" /\ disk["source"] = 0
    /\ input = None <=> row["source"] = "absent"
    /\ input = None => told \cap Child!Finished = {}
    /\ childWire # "received" => row["target"] = "absent"

\* It leaves the source once.
OneAsks ==
    /\ \A j, k \in Asks : Asking(j) /\ Asking(k) => j = k
    /\ \A k \in Asks : Asking(k) /\ childCall[k].pc # "sent" => childWire = "none"

\* What was said of the ID is so, and stays so.
Says(v) == v \in told \/ row["source"] = v
Settled == childWire = "none" /\ \A k \in Asks : ~ Asking(k)
Said ==
    /\ row["target"] = "completed" => disk["target"] = 1
    /\ Says("completed") =>
          IF input = "local" THEN disk["source"] = 1 ELSE disk["target"] = 1
    /\ Says("undone") =>
          IF input = "local" THEN row["source"] = "undone"
          ELSE row["target"] = "undone" \/ Settled

ChildIInv ==
    /\ ChildTypes /\ Working("source") /\ Working("target")
    /\ Apart /\ OneAsks /\ Said /\ late = FALSE

\* Nothing has been issued.
LEMMA ChildStart == Child!DelegatedInit => ChildIInv
<1> SUFFICES ASSUME Child!DelegatedInit PROVE ChildIInv
  OBVIOUS
<1> USE RemoteAssumption DEF Child!DelegatedInit
<1>1. ChildTypes
  BY DEF ChildTypes, ChildFiles, ChildRows, ChildStages
<1>2. Working("source") /\ Working("target")
  BY DEF Working, Child!Node
<1>3. Apart
  BY DEF Apart, Child!Node, OnTheWay
<1>4. OneAsks
  BY DEF OneAsks, Asking, OnTheWay
<1>5. Said
  BY DEF Said, Says, Child!Node
<1>6. QED
  BY <1>1, <1>2, <1>3, <1>4, <1>5 DEF ChildIInv

\* A call goes on.
LEMMA ChildGoes ==
  ASSUME ChildTypes, NEW k \in Asks, NEW p \in ChildStages, Child!Goto(k, p)
  PROVE  /\ childCall' \in [Asks -> [kind : {None, "local", "remote", "lookup"}, pc : ChildStages]]
         /\ \A j \in Asks : /\ childCall'[j].pc = IF j = k THEN p ELSE childCall[j].pc
                            /\ childCall'[j].kind = childCall[j].kind
<1>1. ASSUME NEW t \in [kind : {None, "local", "remote", "lookup"}, pc : ChildStages]
      PROVE  /\ [t EXCEPT !.pc = p] \in [kind : {None, "local", "remote", "lookup"}, pc : ChildStages]
             /\ [t EXCEPT !.pc = p].pc = p /\ [t EXCEPT !.pc = p].kind = t.kind
  OBVIOUS
<1>2. childCall' = [childCall EXCEPT ![k].pc = p]
  BY DEF Child!Goto
<1>3. \A j \in Asks : childCall'[j] = IF j = k THEN [childCall[j] EXCEPT !.pc = p] ELSE childCall[j]
  BY <1>2 DEF ChildTypes
<1>4. childCall' \in [Asks -> [kind : {None, "local", "remote", "lookup"}, pc : ChildStages]]
  BY <1>1, <1>2 DEF ChildTypes
<1>5. QED
  BY <1>1, <1>3, <1>4 DEF ChildTypes

\* A caller is told what the source's receipt says, or nothing.
LEMMA ChildTells ==
  ASSUME ChildIInv, UNCHANGED <<childGrant, input, row, worker, childWire, disk, botched, late>>,
         childCall' \in [Asks -> [kind : {None, "local", "remote", "lookup"}, pc : ChildStages]],
         \A j \in Asks : childCall'[j].pc \in OnTheWay =>
            /\ input = "remote"
            /\ childCall'[j].kind = "lookup"
               \/ /\ Asking(j)
                  /\ childCall[j].pc = "sent" => childCall'[j].pc = "sent"
                  /\ childCall[j].pc # "sent" => childCall'[j].pc # "sent",
         told' \subseteq told \cup {"denied", "unknown", row["source"]}
  PROVE  ChildIInv'
<1>1. \A j \in Asks : Asking(j)' => Asking(j) /\ (childCall'[j].pc # "sent" => childCall[j].pc # "sent")
  BY DEF Asking
<1>2. ChildTypes'
  BY DEF ChildIInv, ChildTypes
<1>3. Working("source")' /\ Working("target")'
  BY DEF ChildIInv, Working
<1>4. Apart'
  <2>1. input = None => told' \cap Child!Finished = {}
    BY DEF ChildIInv, Apart, Child!Finished
  <2>2. QED
    BY <2>1 DEF ChildIInv, Apart
<1>5. OneAsks'
  BY <1>1 DEF ChildIInv, OneAsks
<1>6. Said'
  <2>1. Says("completed")' => Says("completed")
    BY DEF Says
  <2>2. Says("undone")' => Says("undone")
    BY DEF Says
  <2>3. Settled => Settled'
    BY <1>1 DEF Settled
  <2>4. QED
    BY <2>1, <2>2, <2>3 DEF ChildIInv, Said
<1>7. QED
  BY <1>2, <1>3, <1>4, <1>5, <1>6 DEF ChildIInv

\* The request ends: with what the target's receipt says, unknown, or before it left.
LEMMA ChildEnds ==
  ASSUME ChildIInv, UNCHANGED <<childGrant, input, worker, childWire, disk, botched, late>>,
         NEW k \in Asks, Asking(k), Child!Goto(k, "answered"), NEW v \in {"unknown", "undone", "completed"},
         row' = [row EXCEPT !["source"] = v], told' = told \cup {v},
         v = "undone" => childCall[k].pc # "sent" \/ row["target"] = "undone",
         v = "completed" => row["target"] = "completed"
  PROVE  ChildIInv'
<1>1. /\ childCall' \in [Asks -> [kind : {None, "local", "remote", "lookup"}, pc : ChildStages]]
      /\ \A j \in Asks : /\ childCall'[j].pc = IF j = k THEN "answered" ELSE childCall[j].pc
                         /\ childCall'[j].kind = childCall[j].kind
  BY ChildGoes DEF ChildIInv, ChildStages
<1>2. \A j \in Asks : ~ Asking(j)'
  BY <1>1 DEF ChildIInv, OneAsks, Asking, OnTheWay
<1>3. input = "remote" /\ worker["source"] = "none" /\ disk["source"] = 0
  BY DEF ChildIInv, Apart, Asking
<1>4. row'["source"] = v /\ row'["target"] = row["target"]
  BY DEF ChildIInv, ChildTypes, Child!Node
<1>5. ChildTypes'
  <2>1. row' \in [Child!Node -> ChildRows]
    BY DEF ChildIInv, ChildTypes, ChildRows
  <2>2. QED
    BY <1>1, <2>1 DEF ChildIInv, ChildTypes
<1>6. Working("source")' /\ Working("target")'
  BY <1>3, <1>4 DEF ChildIInv, Working
<1>7. Apart'
  BY <1>1, <1>3, <1>4, RemoteAssumption DEF ChildIInv, Apart
<1>8. OneAsks'
  BY <1>2 DEF OneAsks
<1>9. Said'
  <2>1. v = "undone" => row["target"] = "undone" \/ Settled'
    BY <1>2 DEF ChildIInv, OneAsks, Settled
  <2>2. v # "undone" /\ Says("undone")' => Says("undone")
    BY <1>4 DEF Says
  <2>3. v # "completed" /\ Says("completed")' => Says("completed")
    BY <1>4 DEF Says
  <2>4. Settled => Settled'
    BY <1>2 DEF Settled
  <2>5. QED
    BY <1>3, <1>4, <2>1, <2>2, <2>3, <2>4 DEF ChildIInv, Said
<1>10. QED
  BY <1>5, <1>6, <1>7, <1>8, <1>9 DEF ChildIInv

\* The grants and the route.
LEMMA ChildAdmin ==
  ASSUME ChildIInv,
         \/ \E n \in Child!Node : Child!Issue(n) \/ Child!Revoke(n)
         \/ Child!BindRoute \/ Child!RevokeRoute
  PROVE  ChildIInv'
<1>1. UNCHANGED <<input, row, worker, childCall, childWire, disk, told, botched, late>>
  BY DEF Child!Issue, Child!Revoke, Child!BindRoute, Child!RevokeRoute, Child!history
<1>2. /\ childGrant' \in [Child!Node -> {"none", "active", "revoked"}]
      /\ \A n \in Child!Node : worker[n] \in {"guarded", "written"} /\ childGrant[n] = "active" =>
            childGrant'[n] = "active"
  BY DEF ChildIInv, ChildTypes, Child!Issue, Child!Revoke, Child!BindRoute, Child!RevokeRoute,
         Child!Guarding
<1>3. ChildTypes' /\ Working("source")' /\ Working("target")'
  BY <1>1, <1>2 DEF ChildIInv, ChildTypes, Working, Child!Node
<1>4. Apart' /\ OneAsks' /\ Said'
  BY <1>1 DEF ChildIInv, Apart, OneAsks, Asking, Said, Says, Settled
<1>5. QED
  BY <1>1, <1>3, <1>4 DEF ChildIInv

\* A worker enters, writes and removes its temporary file.
LEMMA ChildWorks ==
  ASSUME ChildIInv, NEW n \in Child!Node, Child!Enter(n) \/ Child!Write(n) \/ Child!Unlock(n)
  PROVE  ChildIInv'
<1>1. /\ UNCHANGED <<childGrant, input, row, childCall, childWire, told>>
      /\ \E w \in ChildFiles : worker' = [worker EXCEPT ![n] = w]
      /\ \/ UNCHANGED <<disk, botched, late>> /\ worker[n] = "created"
            /\ worker'[n] = IF childGrant[n] = "active" THEN "guarded" ELSE "undone"
         \/ /\ worker[n] = "guarded" /\ worker'[n] = "written" /\ botched' = botched
            /\ disk' = [disk EXCEPT ![n] = 1] /\ late' = FALSE
         \/ worker[n] = "guarded" /\ worker'[n] = "undone" /\ UNCHANGED <<disk, botched, late>>
         \/ worker[n] = "written" /\ worker'[n] = "completed" /\ UNCHANGED <<disk, botched, late>>
         \/ worker[n] = "written" /\ worker'[n] = "undone" /\ botched' = TRUE
            /\ UNCHANGED <<disk, late>>
  <2>1. worker \in [Child!Node -> ChildFiles] /\ disk \in [Child!Node -> {0, 1}]
    BY DEF ChildIInv, ChildTypes
  <2>2. CASE Child!Enter(n)
    BY <2>1, <2>2 DEF Child!Enter, Child!Active, ChildFiles, Child!grantVars, Child!history
  <2>3. CASE Child!Write(n)
    <3>1. disk[n] + 1 = 1 /\ childGrant[n] = "active" /\ late = FALSE
      BY <2>3 DEF ChildIInv, Working, Child!Node, Child!Write
    <3>2. CASE worker' = [worker EXCEPT ![n] = "written"]
      BY <2>1, <2>3, <3>1, <3>2 DEF Child!Write, Child!Active, ChildFiles, Child!grantVars
    <3>3. CASE worker' = [worker EXCEPT ![n] = "undone"]
      BY <2>1, <2>3, <3>1, <3>3 DEF Child!Write, Child!Active, ChildFiles, Child!grantVars
    <3>4. QED
      BY <2>3, <3>2, <3>3 DEF Child!Write
  <2>4. CASE Child!Unlock(n)
    BY <2>1, <2>4 DEF Child!Unlock, ChildFiles, Child!grantVars
  <2>5. QED
    BY <2>2, <2>3, <2>4
<1>2. /\ worker' \in [Child!Node -> ChildFiles] /\ disk' \in [Child!Node -> {0, 1}]
      /\ \A m \in Child!Node : m # n => worker'[m] = worker[m] /\ disk'[m] = disk[m]
      /\ worker[n] # "none" /\ (disk[n] = 1 => disk'[n] = 1)
      /\ botched' \in BOOLEAN /\ (botched => botched') /\ late' = FALSE
  <2>1. worker \in [Child!Node -> ChildFiles] /\ disk \in [Child!Node -> {0, 1}]
    BY DEF ChildIInv, ChildTypes
  <2>2. /\ worker' \in [Child!Node -> ChildFiles]
        /\ \A m \in Child!Node : m # n => worker'[m] = worker[m]
    BY <1>1, <2>1
  <2>3. disk' = disk \/ disk' = [disk EXCEPT ![n] = 1]
    BY <1>1
  <2>4. /\ disk' \in [Child!Node -> {0, 1}] /\ (disk[n] = 1 => disk'[n] = 1)
        /\ \A m \in Child!Node : m # n => disk'[m] = disk[m]
    BY <2>1, <2>3
  <2>5. (botched' = botched \/ botched' = TRUE) /\ late' = FALSE /\ worker[n] # "none"
    BY <1>1 DEF ChildIInv
  <2>6. botched' \in BOOLEAN /\ (botched => botched')
    <3>1. botched \in BOOLEAN
      BY DEF ChildIInv, ChildTypes
    <3>2. CASE botched' = botched
      BY <3>1, <3>2
    <3>3. CASE botched' = TRUE
      BY <3>3
    <3>4. QED
      BY <2>5, <3>2, <3>3
  <2>7. QED
    BY <2>2, <2>4, <2>5, <2>6
<1>3. ASSUME NEW m \in Child!Node PROVE Working(m)'
  <2>1. Working(m) /\ disk[m] \in {0, 1}
    BY DEF ChildIInv, Child!Node, ChildTypes
  <2>2. CASE m # n
    BY <1>1, <1>2, <2>1, <2>2 DEF Working
  <2>3. CASE m = n
    BY <1>1, <2>1, <2>3 DEF Working, ChildIInv, ChildTypes
  <2>4. QED
    BY <2>2, <2>3
<1>4. ChildTypes'
  BY <1>1, <1>2 DEF ChildIInv, ChildTypes
<1>5. Apart' /\ OneAsks'
  <2>1. input # "remote" => n # "target"
    BY <1>2 DEF ChildIInv, Apart
  <2>2. input # "local" => n # "source"
    BY <1>2 DEF ChildIInv, Apart
  <2>3. "source" \in Child!Node /\ "target" \in Child!Node
    BY DEF Child!Node
  <2>4. QED
    BY <1>1, <1>2, <2>1, <2>2, <2>3 DEF ChildIInv, Apart, OneAsks, Asking
<1>6. Said'
  BY <1>1, <1>2 DEF ChildIInv, Said, Says, Settled, Asking, ChildTypes, Child!Node
<1>7. QED
  BY <1>2, <1>3, <1>4, <1>5, <1>6 DEF ChildIInv, Child!Node

\* A worker's result is recorded.
LEMMA ChildRecords ==
  ASSUME ChildIInv, NEW n \in Child!Node, Child!FinishFile(n)
  PROVE  ChildIInv'
<1>1. /\ UNCHANGED <<childGrant, input, childCall, childWire, disk, told, botched, late>>
      /\ worker[n] \in {"completed", "undone"}
      /\ row' = [row EXCEPT ![n] = worker[n]] /\ worker' = [worker EXCEPT ![n] = "none"]
  BY DEF Child!FinishFile, Child!Finished, Child!grantVars, Child!history
<1>2. /\ row' \in [Child!Node -> ChildRows] /\ worker' \in [Child!Node -> ChildFiles]
      /\ \A m \in Child!Node : /\ row'[m] = IF m = n THEN worker[n] ELSE row[m]
                               /\ worker'[m] = IF m = n THEN "none" ELSE worker[m]
  BY <1>1 DEF ChildIInv, ChildTypes, ChildRows, ChildFiles
<1>3. ChildTypes'
  BY <1>1, <1>2 DEF ChildIInv, ChildTypes
<1>4. Working("source")' /\ Working("target")'
  BY <1>1, <1>2 DEF ChildIInv, Working, Child!Node
<1>5. /\ n = "source" => input = "local" /\ row["source"] # "absent"
      /\ n = "target" => input = "remote" /\ row["target"] # "absent"
  BY <1>1 DEF ChildIInv, Working, Apart
<1>6. Apart' /\ OneAsks'
  BY <1>1, <1>2, <1>5 DEF ChildIInv, Apart, OneAsks, Asking, Child!Node
<1>7. Said'
  <2>1. n = "source" => row["source"] \notin {"undone", "completed"}
    BY <1>1 DEF ChildIInv, Working
  <2>2. n = "target" => row["target"] \notin {"undone", "completed"}
    BY <1>1 DEF ChildIInv, Working
  <2>3. row' ["source"] = (IF n = "source" THEN worker[n] ELSE row["source"])
        /\ row' ["target"] = (IF n = "target" THEN worker[n] ELSE row["target"])
    BY <1>2 DEF Child!Node
  <2>4. worker[n] = "completed" => disk[n] = 1
    BY DEF ChildIInv, Working, Child!Node
  <2>5. CASE n = "source"
    BY <1>1, <1>5, <2>1, <2>3, <2>4, <2>5 DEF ChildIInv, Said, Says
  <2>6. CASE n = "target"
    BY <1>1, <1>5, <2>2, <2>3, <2>4, <2>6 DEF ChildIInv, Said, Says, Settled, Asking
  <2>7. QED
    BY <2>5, <2>6 DEF Child!Node
<1>8. QED
  BY <1>1, <1>3, <1>4, <1>6, <1>7 DEF ChildIInv

\* A ledger is opened beside the service or a computer crashes: what runs is unknown.
LEMMA ChildOpens ==
  ASSUME ChildIInv, NEW n \in Child!Node, Child!OpenedBeside(n) \/ Child!Crash(n)
  PROVE  ChildIInv'
<1>1. /\ UNCHANGED <<childGrant, input, childWire, disk, told, botched, late>>
      /\ row' = [row EXCEPT ![n] = IF row[n] = "running" THEN "unknown" ELSE row[n]]
      /\ worker' = worker \/ worker' = [worker EXCEPT ![n] = "none"]
      /\ \/ childCall' = childCall
         \/ childCall' = [k \in Asks |-> IF childCall[k].pc = "new" THEN childCall[k]
                                         ELSE [childCall[k] EXCEPT !.pc = "answered"]]
  BY DEF Child!OpenedBeside, Child!Crash, Child!Recovered, Child!grantVars, Child!history
<1>2. /\ row' \in [Child!Node -> ChildRows] /\ worker' \in [Child!Node -> ChildFiles]
      /\ \A m \in Child!Node :
            /\ row'[m] \in {row[m], "unknown"} /\ (row'[m] # row[m] => row[m] = "running")
            /\ worker'[m] \in {worker[m], "none"}
  BY <1>1 DEF ChildIInv, ChildTypes, ChildRows, ChildFiles
<1>3. /\ childCall' \in [Asks -> [kind : {None, "local", "remote", "lookup"}, pc : ChildStages]]
      /\ \A k \in Asks : childCall'[k] = childCall[k] \/ childCall'[k].pc = "answered"
  <2>1. CASE childCall' = childCall
    BY <2>1 DEF ChildIInv, ChildTypes
  <2>2. CASE childCall' = [k \in Asks |-> IF childCall[k].pc = "new" THEN childCall[k]
                                          ELSE [childCall[k] EXCEPT !.pc = "answered"]]
    <3>1. ASSUME NEW t \in [kind : {None, "local", "remote", "lookup"}, pc : ChildStages]
          PROVE  /\ [t EXCEPT !.pc = "answered"].pc = "answered"
                 /\ [t EXCEPT !.pc = "answered"] \in [kind : {None, "local", "remote", "lookup"},
                                                       pc : ChildStages]
      BY DEF ChildStages
    <3>2. QED
      BY <2>2, <3>1 DEF ChildIInv, ChildTypes
  <2>3. QED
    BY <1>1, <2>1, <2>2
<1>4. ChildTypes'
  BY <1>1, <1>2, <1>3 DEF ChildIInv, ChildTypes
<1>5. ASSUME NEW m \in Child!Node PROVE Working(m)'
  <2>1. Working(m)
    BY DEF ChildIInv, Child!Node
  <2>2. QED
    BY <1>1, <1>2, <2>1 DEF Working
<1>6. \A k \in Asks : /\ childCall'[k].pc \in OnTheWay => childCall'[k] = childCall[k]
                      /\ Asking(k)' => Asking(k) /\ childCall'[k] = childCall[k]
  BY <1>3 DEF OnTheWay, Asking
<1>7. Apart' /\ OneAsks'
  BY <1>1, <1>2, <1>6 DEF ChildIInv, Apart, OneAsks, Child!Node
<1>8. Said'
  <2>1. Settled => Settled'
    BY <1>1, <1>6 DEF Settled
  <2>2. \A m \in Child!Node, v \in {"undone", "completed"} : row'[m] = v <=> row[m] = v
    BY <1>2
  <2>3. \A v \in {"undone", "completed"} : Says(v)' <=> Says(v)
    BY <1>1, <2>2 DEF Says, Child!Node
  <2>4. QED
    BY <1>1, <2>1, <2>2, <2>3 DEF ChildIInv, Said, Child!Node
<1>9. QED
  BY <1>1, <1>4, <1>5, <1>7, <1>8 DEF ChildIInv, Child!Node

\* The request arrives at the target, which has no receipt of it yet.
LEMMA ChildArrives == ASSUME ChildIInv, Child!Arrive PROVE ChildIInv'
<1>1. /\ childWire = "flying" /\ childWire' = "received" /\ row["target"] = "absent"
      /\ UNCHANGED <<childGrant, input, childCall, disk, told, botched, late>>
  BY DEF Child!Arrive, Child!grantVars, Child!history, ChildIInv, Apart
<1>2. /\ row' = row \/ \E v \in {"undone", "running"} : row' = [row EXCEPT !["target"] = v]
      /\ \/ worker' = worker
         \/ /\ worker' = [worker EXCEPT !["target"] = "created"]
            /\ row' = [row EXCEPT !["target"] = "running"]
  BY <1>1 DEF Child!Arrive
<1>3. /\ row' \in [Child!Node -> ChildRows] /\ worker' \in [Child!Node -> ChildFiles]
      /\ row'["source"] = row["source"] /\ worker'["source"] = worker["source"]
      /\ row'["target"] \in {"absent", "undone", "running"}
      /\ worker'["target"] = "none" \/ (worker'["target"] = "created" /\ row'["target"] = "running")
  <2>1. worker["target"] = "none"
    BY <1>1 DEF ChildIInv, Working
  <2>2. QED
    BY <1>1, <1>2, <2>1 DEF ChildIInv, ChildTypes, ChildRows, ChildFiles, Child!Node
<1>4. ChildTypes'
  BY <1>1, <1>3 DEF ChildIInv, ChildTypes
<1>5. input = "remote" /\ disk["target"] = 0 /\ ~ Settled
  BY <1>1 DEF ChildIInv, Apart, Working, Settled
<1>6. Working("source")' /\ Working("target")'
  BY <1>1, <1>3, <1>5 DEF ChildIInv, Working
<1>7. Apart' /\ OneAsks'
  BY <1>1, <1>3, <1>5 DEF ChildIInv, Apart, OneAsks, Asking
<1>8. Said'
  <2>1. ~ Says("undone") /\ ~ Says("completed")
    BY <1>1, <1>5 DEF ChildIInv, Said
  <2>2. ~ Says("undone")' /\ ~ Says("completed")'
    BY <1>1, <1>3, <2>1 DEF Says
  <2>3. QED
    BY <1>3, <2>2 DEF Said
<1>9. QED
  BY <1>1, <1>4, <1>6, <1>7, <1>8 DEF ChildIInv

\* The request leaves, which has not been sent before.
LEMMA ChildForwards ==
  ASSUME ChildIInv, NEW k \in Asks, childCall[k].pc = "probe", Child!Forward(k),
         UNCHANGED <<childGrant, input, worker, disk, botched>>
  PROVE  ChildIInv'
<1>1. /\ UNCHANGED <<row, told>> /\ late' = FALSE /\ Child!Goto(k, "sent")
      /\ childWire' = IF childCall[k].kind = "lookup" THEN childWire ELSE "flying"
  BY DEF Child!Forward, ChildIInv
<1>2. /\ childCall' \in [Asks -> [kind : {None, "local", "remote", "lookup"}, pc : ChildStages]]
      /\ \A j \in Asks : /\ childCall'[j].pc = IF j = k THEN "sent" ELSE childCall[j].pc
                         /\ childCall'[j].kind = childCall[j].kind
  BY <1>1, ChildGoes DEF ChildIInv, ChildStages
<1>3. \A j \in Asks : Asking(j)' <=> Asking(j)
  BY <1>2 DEF Asking, OnTheWay
<1>4. input = "remote"
  BY DEF ChildIInv, Apart, OnTheWay
<1>5. CASE childCall[k].kind = "lookup"
  BY <1>1, <1>2, <1>4, <1>5, ChildTells DEF ChildIInv, Asking, OnTheWay
<1>6. CASE childCall[k].kind # "lookup"
  <2>1. Asking(k) /\ childWire = "none" /\ row["target"] = "absent"
    BY <1>6 DEF ChildIInv, OneAsks, Apart, Asking, OnTheWay
  <2>2. ~ Says("undone") /\ ~ Says("completed")
    BY <1>4, <2>1 DEF ChildIInv, Said, Settled, Working
  <2>3. ChildTypes' /\ Working("source")' /\ Working("target")'
    BY <1>1, <1>2, <1>6 DEF ChildIInv, ChildTypes, Working
  <2>4. Apart'
    BY <1>1, <1>2, <1>4, <2>1 DEF ChildIInv, Apart
  <2>5. OneAsks'
    BY <1>2, <1>3, <2>1 DEF ChildIInv, OneAsks
  <2>6. Said'
    BY <1>1, <2>1, <2>2 DEF Said, Says
  <2>7. QED
    BY <1>1, <2>3, <2>4, <2>5, <2>6 DEF ChildIInv
<1>7. QED
  BY <1>5, <1>6

\* A call on its way: it goes on, or ends here or with what the target says.
LEMMA ChildRemote ==
  ASSUME ChildIInv, NEW k \in Asks,
         \/ Child!Route(k) \/ Child!Catalogued(k) \/ Child!Identified(k) \/ Child!Reply(k)
  PROVE  ChildIInv'
<1>1. /\ childCall[k].pc \in OnTheWay /\ UNCHANGED <<childGrant, input, worker, disk, botched>>
      /\ \/ Child!Identified(k)
         \/ UNCHANGED <<childWire, late>>
  BY DEF Child!Route, Child!Catalogued, Child!Identified, Child!Reply, OnTheWay, Child!grantVars
<1>2. CASE Child!Forward(k) /\ childCall[k].pc = "probe"
  BY <1>1, <1>2, ChildForwards
<1>3. ASSUME NEW p \in {"catalog", "probe"}, Child!Goto(k, p), childCall[k].pc # "sent",
             UNCHANGED <<row, told, childWire, late>>
      PROVE  ChildIInv'
  <2>1. /\ childCall' \in [Asks -> [kind : {None, "local", "remote", "lookup"}, pc : ChildStages]]
        /\ \A j \in Asks : /\ childCall'[j].pc = IF j = k THEN p ELSE childCall[j].pc
                           /\ childCall'[j].kind = childCall[j].kind
    BY <1>3, ChildGoes DEF ChildIInv, ChildStages
  <2>2. QED
    BY <1>1, <1>3, <2>1, ChildTells DEF ChildIInv, Apart, Asking, OnTheWay
<1>4. ASSUME NEW v \in {"unknown", "undone", "completed"}, Child!EndRequest(k, v),
             UNCHANGED <<childWire, late>>,
             v = "undone" => childCall[k].pc # "sent" \/ row["target"] = "undone",
             v = "completed" => row["target"] = "completed"
      PROVE  ChildIInv'
  <2>1. CASE childCall[k].kind = "lookup"
    <3>1. Child!Goto(k, "answered") /\ UNCHANGED <<row, told>>
      BY <1>4, <2>1 DEF Child!EndRequest
    <3>2. /\ childCall' \in [Asks -> [kind : {None, "local", "remote", "lookup"}, pc : ChildStages]]
          /\ \A j \in Asks : /\ childCall'[j].pc = IF j = k THEN "answered" ELSE childCall[j].pc
                             /\ childCall'[j].kind = childCall[j].kind
      BY <3>1, ChildGoes DEF ChildIInv, ChildStages
    <3>3. QED
      BY <1>1, <1>4, <3>1, <3>2, ChildTells DEF ChildIInv, Apart, Asking, OnTheWay
  <2>2. CASE childCall[k].kind # "lookup"
    <3>1. /\ Child!Goto(k, "answered") /\ told' = told \cup {v} /\ Asking(k)
          /\ row' = [row EXCEPT !["source"] = v]
      BY <1>1, <1>4, <2>2 DEF Child!EndRequest, Child!Tell, Asking
    <3>2. QED
      BY <1>1, <1>4, <3>1, ChildEnds
  <2>3. QED
    BY <2>1, <2>2
<1>5. CASE Child!Route(k) \/ Child!Catalogued(k)
  BY <1>3, <1>4, <1>5 DEF Child!Route, Child!Catalogued
<1>6. CASE Child!Identified(k)
  BY <1>2, <1>4, <1>6 DEF Child!Identified
<1>7. CASE Child!Reply(k)
  <2>1. Child!Receipt("target") \in {"unknown", "undone", "completed"}
        /\ (Child!Receipt("target") \in {"undone", "completed"} =>
               row["target"] = Child!Receipt("target"))
    BY DEF Child!Receipt, Child!Finished
  <2>2. QED
    BY <1>4, <1>7, <2>1 DEF Child!Reply
<1>8. QED
  BY <1>5, <1>6, <1>7

\* The first request binds the ID: nothing has been done or said of it.
LEMMA ChildBinds ==
  ASSUME ChildIInv, NEW k \in Asks, NEW r \in {"local", "remote"}, Child!Request(k, r),
         input = None
  PROVE  ChildIInv'
<1>1. /\ UNCHANGED <<childGrant, childWire, disk, botched, late>> /\ input' = r
      /\ \/ Child!Deny(k) /\ UNCHANGED worker
         \/ r = "local" /\ Child!Local(k)
         \/ r = "remote" /\ Child!Remote(k) /\ UNCHANGED worker
  BY DEF Child!Request, Child!grantVars
<1>2. /\ row["source"] = "absent" /\ row["target"] = "absent" /\ childWire = "none"
      /\ worker["source"] = "none" /\ worker["target"] = "none"
      /\ disk["source"] = 0 /\ disk["target"] = 0
      /\ "undone" \notin told /\ "completed" \notin told
      /\ \A j \in Asks : childCall[j].pc \notin OnTheWay
  BY RemoteAssumption DEF ChildIInv, Apart, Working, Child!Finished
<1>3. PICK p \in {"answered", "file", "route"}, v \in {"undone", "running"} :
         /\ Child!Goto(k, p) /\ row' = [row EXCEPT !["source"] = v]
         /\ told' = told \/ told' = told \cup {"denied"}
         /\ p = "route" => r = "remote"
         /\ \/ worker' = worker
            \/ r = "local" /\ v = "running" /\ worker' = [worker EXCEPT !["source"] = "created"]
  BY <1>1, <1>2 DEF Child!Deny, Child!Local, Child!Remote, Child!Tell
<1>4. /\ childCall' \in [Asks -> [kind : {None, "local", "remote", "lookup"}, pc : ChildStages]]
      /\ \A j \in Asks : /\ childCall'[j].pc = IF j = k THEN p ELSE childCall[j].pc
                         /\ childCall'[j].kind = childCall[j].kind
  BY <1>3, ChildGoes DEF ChildIInv, ChildStages
<1>5. /\ row' \in [Child!Node -> ChildRows] /\ worker' \in [Child!Node -> ChildFiles]
      /\ row'["source"] = v /\ row'["target"] = "absent" /\ worker'["target"] = "none"
      /\ worker'["source"] = "none"
         \/ (worker'["source"] = "created" /\ r = "local" /\ v = "running")
  BY <1>2, <1>3 DEF ChildIInv, ChildTypes, ChildRows, ChildFiles, Child!Node
<1>6. ChildTypes'
  BY <1>1, <1>4, <1>5 DEF ChildIInv, ChildTypes
<1>7. Working("source")' /\ Working("target")'
  BY <1>1, <1>2, <1>5 DEF Working
<1>8. Apart'
  <2>1. told' \cap Child!Finished = {}
    BY <1>2, <1>3 DEF Child!Finished
  <2>2. r # "remote" => \A j \in Asks : childCall'[j].pc \notin OnTheWay
    BY <1>2, <1>3, <1>4 DEF OnTheWay
  <2>3. QED
    BY <1>1, <1>2, <1>5, <2>1, <2>2, RemoteAssumption DEF Apart
<1>9. OneAsks'
  <2>1. \A j \in Asks : Asking(j)' => j = k
    BY <1>2, <1>4 DEF Asking
  <2>2. QED
    BY <1>1, <1>2, <2>1 DEF OneAsks
<1>10. Said'
  <2>1. ~ Says("completed")'
    BY <1>2, <1>3, <1>5 DEF Says
  <2>2. Says("undone")' => v = "undone"
    BY <1>2, <1>3, <1>5 DEF Says
  <2>3. v = "undone" => Child!Goto(k, "answered")
    BY <1>1, <1>2, <1>3 DEF Child!Deny, Child!Local, Child!Remote, Child!Tell, ChildIInv,
                            ChildTypes, Child!Node
  <2>4. v = "undone" => \A j \in Asks : ~ Asking(j)'
    <3>1. ASSUME v = "undone" PROVE \A j \in Asks : childCall'[j].pc \notin OnTheWay
      <4>1. childCall'[k].pc = "answered"
        BY <2>3, <3>1, ChildGoes DEF ChildIInv, ChildStages
      <4>2. QED
        BY <1>2, <1>4, <4>1 DEF OnTheWay
    <3>2. QED
      BY <3>1 DEF Asking
  <2>5. v = "undone" => Settled'
    BY <1>1, <1>2, <2>4 DEF Settled
  <2>6. QED
    BY <1>5, <2>1, <2>2, <2>5 DEF Said
<1>11. QED
  BY <1>1, <1>6, <1>7, <1>8, <1>9, <1>10 DEF ChildIInv

\* Whoever repeats the ID or asks of it hears of its receipt.
LEMMA ChildRepeats ==
  ASSUME ChildIInv, NEW k \in Asks,
         \/ input # None /\ \E r \in {"local", "remote"} : Child!Request(k, r)
         \/ Child!AnswerFile(k) \/ Child!Lookup(k)
  PROVE  ChildIInv'
<1>1. UNCHANGED <<childGrant, childWire, disk, botched, late>>
  BY DEF Child!Request, Child!AnswerFile, Child!Lookup, Child!grantVars
<1>2. Child!Receipt("source") \in {"unknown", row["source"]}
  BY DEF Child!Receipt
<1>3. ASSUME NEW t \in [kind : {"local", "remote", "lookup"}, pc : {"answered", "route"}],
             childCall' = [childCall EXCEPT ![k] = t],
             t.pc = "route" => t.kind = "lookup" /\ input = "remote",
             UNCHANGED <<input, row, worker>>,
             told' \subseteq told \cup {"denied", "unknown", row["source"]}
      PROVE  ChildIInv'
  <2>1. t \in [kind : {None, "local", "remote", "lookup"}, pc : ChildStages]
    BY DEF ChildStages
  <2>2. /\ childCall' \in [Asks -> [kind : {None, "local", "remote", "lookup"}, pc : ChildStages]]
        /\ \A j \in Asks : childCall'[j] = IF j = k THEN t ELSE childCall[j]
    BY <1>3, <2>1 DEF ChildIInv, ChildTypes
  <2>3. QED
    BY <1>1, <1>3, <2>2, ChildTells DEF ChildIInv, Apart, Asking, OnTheWay
<1>4. ASSUME Child!Goto(k, "answered"), UNCHANGED <<input, row, worker>>,
             told' \subseteq told \cup {"denied", "unknown", row["source"]}
      PROVE  ChildIInv'
  <2>1. /\ childCall' \in [Asks -> [kind : {None, "local", "remote", "lookup"}, pc : ChildStages]]
        /\ \A j \in Asks : /\ childCall'[j].pc = IF j = k THEN "answered" ELSE childCall[j].pc
                           /\ childCall'[j].kind = childCall[j].kind
    BY <1>4, ChildGoes DEF ChildIInv, ChildStages
  <2>2. QED
    BY <1>1, <1>4, <2>1, ChildTells DEF ChildIInv, Apart, Asking, OnTheWay
<1>5. ASSUME input # None, NEW r \in {"local", "remote"}, Child!Request(k, r)
      PROVE  ChildIInv'
  <2>1. row["source"] # "absent" /\ row = [row EXCEPT !["source"] = row["source"]]
    BY <1>5 DEF ChildIInv, Apart, ChildTypes
  <2>2. CASE input # r
    BY <1>3, <1>5, <2>2 DEF Child!Request
  <2>3. CASE input = r
    <3>1. /\ input' = input
          /\ \/ Child!Deny(k) /\ UNCHANGED worker
             \/ Child!Local(k)
             \/ Child!Remote(k) /\ UNCHANGED worker
      BY <1>5, <2>3 DEF Child!Request
    <3>2. UNCHANGED <<row, worker>> /\ Child!Goto(k, "answered")
          /\ told' \subseteq told \cup {"denied", "unknown", row["source"]}
      BY <1>2, <2>1, <3>1 DEF Child!Deny, Child!Local, Child!Remote, Child!Tell
    <3>3. QED
      BY <1>4, <3>1, <3>2
  <2>4. QED
    BY <2>2, <2>3
<1>6. CASE Child!AnswerFile(k)
  BY <1>2, <1>4, <1>6 DEF Child!AnswerFile, Child!Tell
<1>7. CASE Child!Lookup(k)
  BY <1>2, <1>3, <1>7 DEF Child!Lookup
<1>8. QED
  BY <1>5, <1>6, <1>7

\* A lookup settles the source's receipt as the target's.
LEMMA ChildFinds == ASSUME ChildIInv, NEW k \in Asks, Child!Found(k) PROVE ChildIInv'
<1>1. /\ childCall[k].pc = "sent" /\ childCall[k].kind = "lookup" /\ Child!Goto(k, "answered")
      /\ UNCHANGED <<childGrant, input, worker, childWire, disk, botched, late>>
      /\ \/ UNCHANGED <<row, told>>
         \/ /\ row["target"] \in {"completed", "undone"} /\ told' = told \cup {row["target"]}
            /\ row' = [row EXCEPT !["source"] = IF row["source"] \in Child!Finished
                                                THEN row["source"] ELSE row["target"]]
  BY DEF Child!Found, Child!Tell, Child!Finished, Child!grantVars
<1>2. /\ childCall' \in [Asks -> [kind : {None, "local", "remote", "lookup"}, pc : ChildStages]]
      /\ \A j \in Asks : /\ childCall'[j].pc = IF j = k THEN "answered" ELSE childCall[j].pc
                         /\ childCall'[j].kind = childCall[j].kind
  BY <1>1, ChildGoes DEF ChildIInv, ChildStages
<1>3. input = "remote" /\ worker["source"] = "none" /\ disk["source"] = 0
      /\ row["source"] # "absent"
  BY <1>1, RemoteAssumption DEF ChildIInv, Apart, OnTheWay
<1>4. \A j \in Asks : Asking(j)' <=> Asking(j)
  BY <1>1, <1>2 DEF Asking, OnTheWay
<1>5. row' \in [Child!Node -> ChildRows] /\ row'["target"] = row["target"]
      /\ \/ row'["source"] = row["source"]
         \/ row'["source"] = row["target"] /\ row["target"] \in {"completed", "undone"}
  BY <1>1 DEF ChildIInv, ChildTypes, ChildRows, Child!Node
<1>6. ChildTypes'
  BY <1>1, <1>2, <1>5 DEF ChildIInv, ChildTypes
<1>7. Working("source")' /\ Working("target")'
  BY <1>1, <1>3, <1>5 DEF ChildIInv, Working
<1>8. Apart'
  BY <1>1, <1>2, <1>3, <1>5, RemoteAssumption DEF ChildIInv, Apart, OnTheWay
<1>9. OneAsks'
  <2>1. \A j \in Asks : Asking(j) => childCall'[j].pc = childCall[j].pc
    BY <1>1, <1>2 DEF Asking
  <2>2. QED
    BY <1>1, <1>4, <2>1 DEF ChildIInv, OneAsks
<1>10. Said'
  <2>1. \A v \in {"completed", "undone"} : Says(v)' => Says(v) \/ row["target"] = v
    BY <1>1, <1>5 DEF Says
  <2>2. Settled => Settled'
    BY <1>1, <1>4 DEF Settled
  <2>3. QED
    BY <1>1, <1>3, <1>5, <2>1, <2>2 DEF ChildIInv, Said
<1>11. QED
  BY <1>1, <1>6, <1>7, <1>8, <1>9, <1>10 DEF ChildIInv

\* Every step of the two services keeps it.
LEMMA ChildStep == ASSUME ChildIInv, Child!DelegatedNext \/ UNCHANGED childVars PROVE ChildIInv'
<1>1. CASE UNCHANGED childVars
  <2>1. ChildTypes' /\ Working("source")' /\ Working("target")'
    BY <1>1 DEF ChildIInv, childVars, ChildTypes, Working
  <2>2. Apart' /\ OneAsks' /\ Said' /\ late' = FALSE
    BY <1>1 DEF ChildIInv, childVars, Apart, OneAsks, Asking, Said, Says, Settled
  <2>3. QED
    BY <2>1, <2>2 DEF ChildIInv
<1>2. ASSUME NEW k \in Asks, NEW r \in {"local", "remote"}, Child!Request(k, r)
      PROVE  ChildIInv'
  BY <1>2, ChildBinds, ChildRepeats
<1>3. ASSUME NEW n \in Child!Node,
             \/ Child!Issue(n) \/ Child!Revoke(n) \/ Child!FileWork(n)
             \/ Child!OpenedBeside(n) \/ Child!Crash(n)
      PROVE  ChildIInv'
  BY <1>3, ChildAdmin, ChildWorks, ChildRecords, ChildOpens DEF Child!FileWork
<1>4. CASE Child!DelegatedNext
  BY <1>2, <1>3, <1>4, ChildAdmin, ChildArrives, ChildRepeats, ChildRemote, ChildFinds
     DEF Child!DelegatedNext
<1>5. QED
  BY <1>1, <1>4

\* It says what the run checks of a child's calls.
LEMMA ChildKeeps ==
  ChildIInv => Child!ReceiptsTrue /\ Child!RevokedStops /\ Child!WrittenOnce
<1> SUFFICES ASSUME ChildIInv PROVE Child!ReceiptsTrue /\ Child!RevokedStops /\ Child!WrittenOnce
  OBVIOUS
<1>1. Child!RevokedStops
  BY DEF ChildIInv, Child!RevokedStops
<1>2. disk["source"] \in {0, 1} /\ disk["target"] \in {0, 1}
  BY DEF ChildIInv, ChildTypes, Child!Node
<1>3. input # "local" => disk["source"] = 0
  BY DEF ChildIInv, Apart
<1>4. row["target"] = "absent" => disk["target"] = 0
  BY DEF ChildIInv, Working
<1>5. Child!WrittenOnce
  BY <1>2, <1>3, <1>4 DEF ChildIInv, Apart, Child!WrittenOnce
<1>6. ASSUME Says("undone") PROVE ~ Child!Written \/ botched
  <2>1. CASE input = "local"
    BY <1>6, <2>1 DEF ChildIInv, Said, Working, Child!Written
  <2>2. CASE input # "local"
    BY <1>4, <1>6, <2>2 DEF ChildIInv, Said, Working, Apart, Settled, Child!Written
  <2>3. QED
    BY <2>1, <2>2
<1>7. ASSUME Says("completed") PROVE Child!Written
  BY <1>7 DEF ChildIInv, Said, Child!Written
<1>8. /\ row["target"] = "completed" => disk["target"] = 1
      /\ row["target"] = "undone" => disk["target"] = 0 \/ botched
  BY DEF ChildIInv, Said, Working
<1>9. \A v \in {"completed", "undone"} : v \in told \cup {row["source"]} => Says(v)
  BY DEF Says
<1>10. Child!ReceiptsTrue
  BY <1>6, <1>7, <1>8, <1>9 DEF Child!ReceiptsTrue
<1>11. QED
  BY <1>1, <1>5, <1>10

-----------------------------------------------------------------------------
(* The migration of the engine's state. *)

Filed == SUBSET (Workers \X Migrating!Entrance)
Configs == [shared : BOOLEAN, tools : {1, 2}]
Markers == [target : Accounts, before : Configs, sources : [Migrating!Entrance -> Filed],
            content : Filed]
Steps == {"idle", "stage", "intend", "mark", "compare", "configure", "choose", "finish"}

EngineTypes ==
    /\ store \in [Migrating!Store -> Filed] /\ chosen \in Accounts \cup {None}
    /\ localPending \in Markers \cup {None} /\ config \in Configs
    /\ owners \in [Migrating!Entrance -> Migrating!Store \cup {None, "agent"}]
    /\ migration \in [pc : Steps, target : Accounts \cup {None}]
    /\ recorded \in [Migrating!Entrance -> Filed]

\* While it runs nothing is open, and an entrance opens what is chosen for it; the
\* agent's marker outlives a switch that has only begun.
Opens ==
    /\ migration.pc # "idle" => \A e \in Migrating!Entrance : owners[e] = None
    /\ owners["local"] # None => owners["local"] = Migrating!Directory /\ localPending = None
    /\ owners["http"] \in {None, "http", "agent"}
    /\ owners["http"] = "http" => ~ config.shared
    /\ owners["http"] = "agent" => config.shared
    /\ chosen # None => config.shared
    /\ config.shared /\ chosen = None => localPending # None

\* How far it has come: it chooses only what holds all that was recorded.
Stages ==
    /\ migration.pc \in {"stage", "intend"} => chosen = None /\ ~ config.shared
    /\ migration.pc = "intend" =>
          migration.target \in Accounts
          /\ store[migration.target] = store["local"] \cup store["http"]
    /\ migration.pc \in {"mark", "compare", "configure", "choose"} =>
          localPending # None /\ migration.target = localPending.target
    /\ migration.pc \in {"configure", "choose"} => Migrating!Unchanged
    /\ migration.pc = "choose" => config.shared
    /\ migration.pc = "finish" => chosen # None

\* The copy holds what its sources held; whatever was recorded is where it is looked for.
Copied ==
    localPending # None =>
        localPending.content = localPending.sources["local"] \cup localPending.sources["http"]
Held == \A e \in Migrating!Entrance :
            recorded[e] \subseteq store[IF chosen = None THEN e ELSE chosen]

EngineIInv == EngineTypes /\ Opens /\ Stages /\ Copied /\ Held

\* Where an entrance looks is where its rows are held.
LEMMA EngineWhere ==
  ASSUME EngineIInv, NEW e \in Migrating!Entrance, Migrating!Where(e) # None
  PROVE  Migrating!Where(e) = IF chosen = None THEN e ELSE chosen
BY DEF EngineIInv, Opens, Migrating!Where, Migrating!Entrance, Migrating!Directory

\* Nothing is recorded.
LEMMA EngineStart == Migrating!MigrationInit => EngineIInv
<1> SUFFICES ASSUME Migrating!MigrationInit PROVE EngineIInv
  OBVIOUS
<1>1. EngineTypes
  BY DEF Migrating!MigrationInit, Migrating!NoMigration, EngineTypes, Filed, Configs, Steps
<1>2. Opens
  <2>1. ~ config.shared
    BY DEF Migrating!MigrationInit
  <2>2. owners["local"] = None /\ owners["http"] = None
    BY DEF Migrating!MigrationInit, Migrating!Entrance
  <2>3. migration.pc = "idle" /\ chosen = None
    BY DEF Migrating!MigrationInit, Migrating!NoMigration
  <2>4. QED
    BY <2>1, <2>2, <2>3, RemoteAssumption DEF Opens
<1>3. Stages
  BY DEF Migrating!MigrationInit, Migrating!NoMigration, Stages
<1>4. Copied /\ Held
  BY DEF Migrating!MigrationInit, Copied, Held
<1>5. QED
  BY <1>1, <1>2, <1>3, <1>4 DEF EngineIInv

\* The entrances start and close.
LEMMA EngineOpens ==
  ASSUME EngineIInv,
         \/ Migrating!StartLocal \/ Migrating!StartHttp
         \/ \E e \in Migrating!Entrance : Migrating!Close(e)
  PROVE  EngineIInv'
<1>1. UNCHANGED <<store, localPending, chosen, config, migration, recorded>>
  BY DEF Migrating!StartLocal, Migrating!StartHttp, Migrating!Close, Migrating!pendings
<1>2. PICK e \in Migrating!Entrance, v \in Migrating!Store \cup {None, "agent"} :
         /\ owners' = [owners EXCEPT ![e] = v]
         /\ v # None => migration.pc = "idle"
         /\ v # None /\ e = "local" => v = Migrating!Directory /\ localPending = None
         /\ e = "http" => /\ v \in {None, "http", "agent"}
                          /\ v = "http" => ~ config.shared
                          /\ v = "agent" => config.shared
  <2>1. CASE Migrating!StartLocal
    <3>1. Migrating!Directory \in Migrating!Store
      BY DEF EngineIInv, EngineTypes, Migrating!Directory, Migrating!Store, Migrating!Entrance
    <3>2. QED
      BY <2>1, <3>1 DEF Migrating!StartLocal, Migrating!Unlocked, Migrating!Entrance
  <2>2. CASE Migrating!StartHttp
    <3>1. CASE config.shared
      BY <2>2, <3>1, RemoteAssumption DEF Migrating!StartHttp, Migrating!Unlocked, Migrating!Entrance,
                            Migrating!Store
    <3>2. CASE ~ config.shared
      BY <2>2, <3>2, RemoteAssumption DEF Migrating!StartHttp, Migrating!Unlocked, Migrating!Entrance,
                            Migrating!Store
    <3>3. QED
      BY <3>1, <3>2
  <2>3. CASE \E e \in Migrating!Entrance : Migrating!Close(e)
    BY <2>3, RemoteAssumption DEF Migrating!Close
  <2>4. QED
    BY <2>1, <2>2, <2>3
<1>3. owners' \in [Migrating!Entrance -> Migrating!Store \cup {None, "agent"}]
  BY <1>2 DEF EngineIInv, EngineTypes
<1>4. owners'["local"] = (IF e = "local" THEN v ELSE owners["local"])
      /\ owners'["http"] = (IF e = "http" THEN v ELSE owners["http"])
  BY <1>2 DEF EngineIInv, EngineTypes, Migrating!Entrance
<1>5. EngineTypes'
  BY <1>1, <1>3 DEF EngineIInv, EngineTypes
<1>6. Opens'
  BY <1>1, <1>2, <1>4 DEF EngineIInv, Opens, Migrating!Entrance, Migrating!Directory
<1>7. Stages' /\ Copied' /\ Held'
  BY <1>1 DEF EngineIInv, Stages, Migrating!Unchanged, Migrating!Sources, Copied, Held
<1>8. QED
  BY <1>5, <1>6, <1>7 DEF EngineIInv

\* An entrance records where its rows are held.
LEMMA EngineRecords ==
  ASSUME EngineIInv, NEW e \in Migrating!Entrance, Migrating!Record(e)
  PROVE  EngineIInv'
<1> DEFINE w == Migrating!Where(e)
<1>1. PICK k \in Workers : /\ store' = [store EXCEPT ![w] = @ \cup {<<k, e>>}]
                           /\ recorded' = [recorded EXCEPT ![e] = @ \cup {<<k, e>>}]
  BY DEF Migrating!Record
<1>2. /\ w # None /\ w = (IF chosen = None THEN e ELSE chosen)
      /\ UNCHANGED <<localPending, chosen, config, owners, migration>>
  BY EngineWhere DEF Migrating!Record, Migrating!pendings
<1>3. w \in Migrating!Store
  BY <1>2 DEF EngineIInv, EngineTypes, Migrating!Store
<1>4. migration.pc = "idle"
  BY <1>2 DEF EngineIInv, Opens, Migrating!Where, Migrating!Entrance
<1> HIDE DEF w
<1>5. EngineTypes'
  <2>1. store' \in [Migrating!Store -> Filed]
    BY <1>1, <1>3 DEF EngineIInv, EngineTypes, Filed
  <2>2. recorded' \in [Migrating!Entrance -> Filed]
    BY <1>1 DEF EngineIInv, EngineTypes, Filed
  <2>3. QED
    BY <1>2, <2>1, <2>2 DEF EngineIInv, EngineTypes
<1>6. Opens' /\ Stages' /\ Copied'
  BY <1>2, <1>4 DEF EngineIInv, Opens, Stages, Copied, Migrating!Directory
<1>7. Held'
  <2>1. \A f \in Migrating!Entrance :
           recorded'[f] = IF f = e THEN recorded[f] \cup {<<k, e>>} ELSE recorded[f]
    BY <1>1 DEF EngineIInv, EngineTypes
  <2>2. \A s \in Migrating!Store : store[s] \subseteq store'[s]
    BY <1>1 DEF EngineIInv, EngineTypes
  <2>3. <<k, e>> \in store'[w]
    BY <1>1, <1>3 DEF EngineIInv, EngineTypes
  <2>4. \A f \in Migrating!Entrance : (IF chosen = None THEN f ELSE chosen) \in Migrating!Store
    BY DEF EngineIInv, EngineTypes, Migrating!Store
  <2>5. QED
    BY <1>2, <2>1, <2>2, <2>3, <2>4 DEF EngineIInv, Held
<1>8. QED
  BY <1>5, <1>6, <1>7 DEF EngineIInv

\* The configuration is rewritten; the migration begins, compares, fails and ends.
LEMMA EngineGoes ==
  ASSUME EngineIInv, NEW p \in Steps, Migrating!Goto(p)
  PROVE  /\ migration' \in [pc : Steps, target : Accounts \cup {None}]
         /\ migration'.pc = p /\ migration'.target = migration.target
BY DEF EngineIInv, EngineTypes, Migrating!Goto

\* Markers and stores stay, while nothing is open.
LEMMA EngineKeeps ==
  ASSUME EngineIInv, UNCHANGED <<store, localPending, chosen, owners, recorded>>,
         config' \in Configs, config.shared => config'.shared,
         config'.shared => config.shared \/ localPending # None,
         \A e \in Migrating!Entrance : owners[e] # None => (config'.shared <=> config.shared),
         migration' \in [pc : Steps, target : Accounts \cup {None}],
         migration'.pc # "idle" => \A e \in Migrating!Entrance : owners[e] = None,
         Stages'
  PROVE  EngineIInv'
<1>1. EngineTypes'
  BY DEF EngineIInv, EngineTypes
<1>2. Opens'
  BY RemoteAssumption DEF EngineIInv, Opens, Migrating!Entrance, Migrating!Directory
<1>3. Copied' /\ Held'
  BY DEF EngineIInv, Copied, Held
<1>4. QED
  BY <1>1, <1>2, <1>3 DEF EngineIInv

\* The tools of the configuration change.
LEMMA EngineTools == ASSUME EngineIInv, Migrating!AddTools PROVE EngineIInv'
<1>1. /\ config' = [config EXCEPT !.tools = 2] /\ config \in Configs /\ migration.pc = "idle"
      /\ UNCHANGED <<store, localPending, chosen, owners, recorded, migration>>
  BY DEF Migrating!AddTools, Migrating!Unlocked, Migrating!pendings, EngineIInv, EngineTypes
<1>2. config' \in Configs /\ (config'.shared <=> config.shared)
  BY <1>1 DEF Configs
<1>3. Stages'
  BY <1>1 DEF Stages
<1>4. migration' \in [pc : Steps, target : Accounts \cup {None}]
  BY <1>1 DEF EngineIInv, EngineTypes
<1>5. QED
  BY <1>1, <1>2, <1>3, <1>4, EngineKeeps

\* The migration begins, where nothing is open, or leaves.
LEMMA EngineBegins ==
  ASSUME EngineIInv,
         \/ Migrating!Begin
         \/ /\ Migrating!Leave
            /\ UNCHANGED <<store, localPending, chosen, config, owners, recorded>>
  PROVE  EngineIInv'
<1>1. /\ UNCHANGED <<store, localPending, chosen, config, owners, recorded>>
      /\ \/ /\ \A e \in Migrating!Entrance : owners[e] = None
            /\ \/ localPending # None /\ migration' = [pc |-> "mark", target |-> localPending.target]
               \/ /\ chosen = None /\ ~ config.shared
                  /\ migration' = [pc |-> "stage", target |-> None]
         \/ migration' = [pc |-> "idle", target |-> None]
  BY DEF Migrating!Begin, Migrating!Leave, Migrating!NoMigration, Migrating!Unlocked,
         Migrating!pendings
<1>2. config' \in Configs /\ (localPending # None => localPending.target \in Accounts)
  BY <1>1 DEF EngineIInv, EngineTypes, Markers
<1>3. migration' \in [pc : Steps, target : Accounts \cup {None}]
  BY <1>1, <1>2 DEF Steps
<1>4. Stages'
  BY <1>1 DEF Stages
<1>5. QED
  BY <1>1, <1>2, <1>3, <1>4, EngineKeeps

\* Its steps that write no store.
LEMMA EngineMigrates ==
  ASSUME EngineIInv,
         Migrating!Mark \/ Migrating!Compare \/ Migrating!Configure
  PROVE  EngineIInv'
<1>1. UNCHANGED <<store, localPending, chosen, owners, recorded>>
      /\ \A e \in Migrating!Entrance : owners[e] = None
  BY DEF Migrating!Mark, Migrating!Compare, Migrating!Configure, Migrating!pendings,
         EngineIInv, Opens
<1>2. CASE Migrating!Leave /\ UNCHANGED config
  BY <1>1, <1>2, EngineBegins
<1>3. localPending # None /\ migration.target = localPending.target
  BY DEF Migrating!Mark, Migrating!Compare, Migrating!Configure, EngineIInv, Stages
<1>4. CASE Migrating!Goto("compare") /\ UNCHANGED config
  <2>1. migration' \in [pc : Steps, target : Accounts \cup {None}]
        /\ migration'.pc = "compare" /\ migration'.target = migration.target
    BY <1>4, EngineGoes DEF Steps
  <2>2. Stages'
    BY <1>1, <1>3, <2>1 DEF Stages
  <2>3. config' \in Configs
    BY <1>4 DEF EngineIInv, EngineTypes
  <2>4. QED
    BY <1>1, <1>4, <2>1, <2>2, <2>3, EngineKeeps
<1>5. CASE Migrating!Goto("configure") /\ UNCHANGED config /\ Migrating!Unchanged
  <2>1. migration' \in [pc : Steps, target : Accounts \cup {None}]
        /\ migration'.pc = "configure" /\ migration'.target = migration.target
    BY <1>5, EngineGoes DEF Steps
  <2>2. Migrating!Unchanged'
    BY <1>1, <1>5 DEF Migrating!Unchanged, Migrating!Sources
  <2>3. Stages'
    BY <1>1, <1>3, <2>1, <2>2 DEF Stages
  <2>4. config' \in Configs
    BY <1>5 DEF EngineIInv, EngineTypes
  <2>5. QED
    BY <1>1, <1>5, <2>1, <2>3, <2>4, EngineKeeps
<1>6. CASE Migrating!Goto("choose") /\ config' = Migrating!Updated /\ migration.pc = "configure"
  <2>1. migration' \in [pc : Steps, target : Accounts \cup {None}]
        /\ migration'.pc = "choose" /\ migration'.target = migration.target
    BY <1>6, EngineGoes DEF Steps
  <2>2. Migrating!Unchanged'
    BY <1>1, <1>6 DEF Migrating!Unchanged, Migrating!Sources, EngineIInv, Stages
  <2>3. localPending.before \in Configs
    BY <1>3 DEF EngineIInv, EngineTypes, Markers
  <2>4. config' \in Configs /\ config'.shared
    BY <1>6, <2>3 DEF Migrating!Updated, Configs
  <2>5. Stages'
    BY <1>1, <1>3, <2>1, <2>2, <2>4 DEF Stages
  <2>6. QED
    BY <1>1, <1>3, <2>1, <2>4, <2>5, EngineKeeps
<1>7. QED
  BY <1>2, <1>4, <1>5, <1>6 DEF Migrating!Mark, Migrating!Compare, Migrating!Configure

\* The stores are copied into a new one.
LEMMA EngineStages == ASSUME EngineIInv, Migrating!Stage PROVE EngineIInv'
<1>1. /\ migration.pc = "stage" /\ UNCHANGED <<localPending, chosen, config, owners, recorded>>
      /\ \/ Migrating!Leave /\ UNCHANGED store
         \/ \E t \in Accounts :
               /\ store' = [store EXCEPT ![t] = store["local"] \cup store["http"]]
               /\ migration' = [pc |-> "intend", target |-> t]
  BY DEF Migrating!Stage, Migrating!pendings
<1>2. CASE Migrating!Leave /\ UNCHANGED store
  BY <1>1, <1>2, EngineBegins
<1>3. ASSUME NEW t \in Accounts,
             store' = [store EXCEPT ![t] = store["local"] \cup store["http"]],
             migration' = [pc |-> "intend", target |-> t]
      PROVE  EngineIInv'
  <2>1. t \in Migrating!Store /\ t # "local" /\ t # "http"
        /\ "local" \in Migrating!Store /\ "http" \in Migrating!Store
    BY RemoteAssumption DEF Migrating!Store, Migrating!Entrance
  <2>2. store' \in [Migrating!Store -> Filed] /\ store'["local"] = store["local"]
        /\ store'["http"] = store["http"] /\ store'[t] = store["local"] \cup store["http"]
    BY <1>3, <2>1 DEF EngineIInv, EngineTypes, Filed
  <2>3. migration' \in [pc : Steps, target : Accounts \cup {None}]
    BY <1>3 DEF Steps
  <2>4. EngineTypes'
    BY <1>1, <2>2, <2>3 DEF EngineIInv, EngineTypes
  <2>5. chosen = None /\ ~ config.shared
    BY <1>1 DEF EngineIInv, Stages
  <2>6. Opens'
    BY <1>1, <2>5 DEF EngineIInv, Opens, Migrating!Directory
  <2>7. Stages'
    BY <1>1, <1>3, <2>2, <2>5 DEF Stages
  <2>8. Copied' /\ Held'
    BY <1>1, <2>2, <2>5 DEF EngineIInv, Copied, Held, Migrating!Entrance
  <2>9. QED
    BY <2>4, <2>6, <2>7, <2>8 DEF EngineIInv
<1>4. QED
  BY <1>1, <1>2, <1>3

\* The agent's marker says what was copied.
LEMMA EngineIntends == ASSUME EngineIInv, Migrating!Intend PROVE EngineIInv'
<1> DEFINE m == [target |-> migration.target, before |-> config,
                 sources |-> Migrating!Sources, content |-> store[migration.target]]
<1>1. /\ migration.pc = "intend" /\ Migrating!Goto("mark") /\ localPending' = m
      /\ UNCHANGED <<store, chosen, config, owners, recorded>>
  BY DEF Migrating!Intend
<1>2. /\ chosen = None /\ ~ config.shared /\ migration.target \in Accounts
      /\ store[migration.target] = store["local"] \cup store["http"]
      /\ \A e \in Migrating!Entrance : owners[e] = None
  BY <1>1 DEF EngineIInv, Stages, Opens
<1>3. m \in Markers
  <2>1. migration.target \in Migrating!Store /\ \A e \in Migrating!Entrance : e \in Migrating!Store
    BY <1>2 DEF Migrating!Store
  <2>2. Migrating!Sources \in [Migrating!Entrance -> Filed]
    BY <2>1 DEF Migrating!Sources, EngineIInv, EngineTypes
  <2>3. store[migration.target] \in Filed /\ config \in Configs
    BY <2>1 DEF EngineIInv, EngineTypes
  <2>4. QED
    BY <1>2, <2>2, <2>3 DEF Markers
<1>4. m # None /\ m.target = migration.target
      /\ m.content = m.sources["local"] \cup m.sources["http"]
  <2>1. m # None
    BY <1>3, RemoteAssumption DEF Markers, Configs, Filed, Migrating!Entrance
  <2>2. m.sources["local"] = store["local"] /\ m.sources["http"] = store["http"]
    BY DEF Migrating!Sources, Migrating!Entrance
  <2>3. QED
    BY <1>2, <2>1, <2>2
<1> HIDE DEF m
<1>5. migration' \in [pc : Steps, target : Accounts \cup {None}]
      /\ migration'.pc = "mark" /\ migration'.target = migration.target
  BY <1>1, EngineGoes DEF Steps
<1>6. EngineTypes'
  BY <1>1, <1>3, <1>5 DEF EngineIInv, EngineTypes
<1>7. Opens'
  BY <1>1, <1>2, <1>4 DEF EngineIInv, Opens, Migrating!Entrance
<1>8. Stages'
  BY <1>1, <1>4, <1>5 DEF Stages
<1>9. Copied' /\ Held'
  BY <1>1, <1>4 DEF EngineIInv, Copied, Held
<1>10. QED
  BY <1>6, <1>7, <1>8, <1>9 DEF EngineIInv

\* The copy is chosen: it holds all that its sources, unchanged since, hold.
LEMMA EngineChooses == ASSUME EngineIInv, Migrating!Choose PROVE EngineIInv'
<1>1. /\ migration.pc = "choose" /\ UNCHANGED <<store, localPending, config, owners, recorded>>
      /\ \/ Migrating!Leave /\ UNCHANGED chosen
         \/ /\ chosen \in {None, migration.target}
            /\ chosen' = migration.target /\ Migrating!Goto("finish")
  BY DEF Migrating!Choose, Migrating!pendings
<1>2. CASE Migrating!Leave /\ UNCHANGED chosen
  BY <1>1, <1>2, EngineBegins
<1>3. CASE /\ chosen \in {None, migration.target}
           /\ chosen' = migration.target /\ Migrating!Goto("finish")
  <2>1. /\ localPending # None /\ migration.target = localPending.target
        /\ Migrating!Unchanged /\ config.shared
        /\ \A e \in Migrating!Entrance : owners[e] = None
    BY <1>1 DEF EngineIInv, Stages, Opens
  <2>2. migration.target \in Accounts /\ migration.target # None
    BY <2>1, RemoteAssumption DEF EngineIInv, EngineTypes, Markers
  <2>3. /\ store[migration.target] = store["local"] \cup store["http"]
    BY <2>1 DEF EngineIInv, Copied, Migrating!Unchanged, Migrating!Sources, Migrating!Entrance
  <2>4. migration' \in [pc : Steps, target : Accounts \cup {None}] /\ migration'.pc = "finish"
    BY <1>3, EngineGoes DEF Steps
  <2>5. EngineTypes'
    BY <1>1, <1>3, <2>2, <2>4 DEF EngineIInv, EngineTypes
  <2>6. Opens'
    BY <1>1, <2>1 DEF EngineIInv, Opens, Migrating!Entrance
  <2>7. Stages' /\ Copied'
    BY <1>1, <1>3, <2>2, <2>4 DEF EngineIInv, Stages, Copied
  <2>8. Held'
    BY <1>1, <1>3, <2>2, <2>3 DEF EngineIInv, Held, Migrating!Entrance
  <2>9. QED
    BY <2>5, <2>6, <2>7, <2>8 DEF EngineIInv
<1>4. QED
  BY <1>1, <1>2, <1>3

\* The markers go when the copy is chosen.
LEMMA EngineFinishes == ASSUME EngineIInv, Migrating!Finish PROVE EngineIInv'
<1>1. /\ migration.pc = "finish" /\ chosen # None
      /\ UNCHANGED <<store, chosen, config, owners, recorded>>
      /\ \/ UNCHANGED <<localPending, migration>>
         \/ localPending' = None /\ migration' = [pc |-> "idle", target |-> None]
  BY DEF Migrating!Finish, Migrating!Leave, Migrating!NoMigration, EngineIInv, Stages
<1>2. EngineTypes'
  BY <1>1 DEF EngineIInv, EngineTypes, Steps
<1>3. Opens'
  BY <1>1 DEF EngineIInv, Opens, Migrating!Directory
<1>4. Stages' /\ Copied' /\ Held'
  BY <1>1 DEF EngineIInv, Stages, Copied, Held
<1>5. QED
  BY <1>2, <1>3, <1>4 DEF EngineIInv

\* Every step of the entrances and of the migration keeps it.
LEMMA EngineStep ==
  ASSUME EngineIInv, Migrating!MigrationNext \/ UNCHANGED engineVars PROVE EngineIInv'
<1>1. CASE UNCHANGED engineVars
  <2>1. EngineTypes' /\ Opens'
    BY <1>1 DEF EngineIInv, engineVars, EngineTypes, Opens, Migrating!Directory
  <2>2. Stages' /\ Copied' /\ Held'
    BY <1>1 DEF EngineIInv, engineVars, Stages, Migrating!Unchanged, Migrating!Sources, Copied,
                Held
  <2>3. QED
    BY <2>1, <2>2 DEF EngineIInv
<1>2. CASE Migrating!Die
  BY <1>2, EngineBegins DEF Migrating!Die, Migrating!pendings
<1>3. CASE Migrating!Migrate
  BY <1>2, <1>3, EngineBegins, EngineStages, EngineIntends, EngineMigrates, EngineChooses,
     EngineFinishes DEF Migrating!Migrate
<1>4. CASE Migrating!MigrationNext
  BY <1>3, <1>4, EngineOpens, EngineRecords, EngineTools DEF Migrating!MigrationNext
<1>5. QED
  BY <1>1, <1>4

\* It says what the run checks of the migration.
LEMMA EngineShows == EngineIInv => Migrating!RowsKept /\ Migrating!NoSplit
<1> SUFFICES ASSUME EngineIInv PROVE Migrating!RowsKept /\ Migrating!NoSplit
  OBVIOUS
<1>1. Migrating!RowsKept
  BY EngineWhere DEF EngineIInv, Held, Migrating!RowsKept
<1>2. Migrating!NoSplit
  BY DEF EngineIInv, Opens, Migrating!Directory, Migrating!NoSplit
<1>3. QED
  BY <1>1, <1>2

-----------------------------------------------------------------------------
(* The startup registration. *)

Receipts == [id : 0 .. MaxId, confirmed : BOOLEAN]
Jobs == [of : 0 .. MaxId + 1, enabled : BOOLEAN, running : BOOLEAN]
Whats == {"nothing", "install", "uninstall", "start", "upgrade", "replace", "renew", "restore"}
Pcs == {"idle", "register", "define", "install", "create", "withdraw", "drop", "confirm",
        "unregister", "remove", "stopped", "unlink", "forget", "upgrade", "return", "start", "kick"}
Commands == [does : Whats, pc : Pcs, created : BOOLEAN, late : BOOLEAN]

\* The receipts are of registrations, the file and the job of anybody's.
StartupTypes ==
    /\ receipt \in Receipts /\ previous \in Receipts
    /\ file \in 0 .. MaxId + 1 /\ job \in Jobs /\ ids \in 0 .. MaxId
    /\ command \in Commands

\* A definition of ours is the one of the receipt, and gone before that is.
Defined ==
    /\ file \in 1 .. MaxId => file = receipt.id
    /\ command.pc = "forget" => file \notin 1 .. MaxId

\* What a command is about to enable, start or remove is its own, or came late.
Looked ==
    /\ command.pc \in {"unlink", "drop"} /\ file = MaxId + 1 => command.late
    /\ command.pc \in {"create", "remove", "kick"} /\ job.of = MaxId + 1 => command.late

StartupIInv == StartupTypes /\ Registered!JobOwned /\ Defined /\ Looked

\* What of a job may change.
LEMMA JobEdits ==
  ASSUME NEW j \in Jobs
  PROVE  /\ [j EXCEPT !.of = MaxId + 1] \in Jobs /\ [j EXCEPT !.of = MaxId + 1].of = MaxId + 1
         /\ \A b \in BOOLEAN : /\ [j EXCEPT !.enabled = b] \in Jobs
                               /\ [j EXCEPT !.enabled = b].of = j.of
                               /\ [j EXCEPT !.running = b] \in Jobs
                               /\ [j EXCEPT !.running = b].of = j.of
         /\ j.enabled \in BOOLEAN /\ j.running \in BOOLEAN /\ j.of \in 0 .. MaxId + 1
BY RemoteAssumption DEF Jobs

\* A receipt that is confirmed is of the same registration.
LEMMA ReceiptEdits ==
  ASSUME NEW r \in Receipts
  PROVE  /\ [r EXCEPT !.confirmed = TRUE] \in Receipts
         /\ [r EXCEPT !.confirmed = TRUE].id = r.id /\ r.id \in 0 .. MaxId
BY DEF Receipts

\* What of a command may change.
Stepping(c, p) == [c EXCEPT !.pc = p, !.late = FALSE]
Created(c, p, b) == [c EXCEPT !.pc = p, !.created = b]
Overtaken(c, b) == [c EXCEPT !.late = b]
LEMMA CommandSteps ==
  ASSUME NEW c \in Commands, NEW p \in Pcs
  PROVE  Stepping(c, p) \in Commands /\ Stepping(c, p).pc = p
BY DEF Commands, Stepping

LEMMA CommandCreates ==
  ASSUME NEW c \in Commands, NEW b \in BOOLEAN
  PROVE  Created(c, "install", b) \in Commands /\ Created(c, "install", b).pc = "install"
BY DEF Commands, Created, Pcs

LEMMA CommandLate ==
  ASSUME NEW c \in Commands, NEW b \in BOOLEAN
  PROVE  /\ Overtaken(c, b) \in Commands /\ Overtaken(c, b).pc = c.pc
         /\ b => Overtaken(c, b).late
BY DEF Commands, Overtaken

\* No command, and the beginning of one.
Beginning(d, p) == [does |-> d, pc |-> p, created |-> FALSE, late |-> FALSE]
LEMMA CommandBegins ==
  /\ Registered!Idle \in Commands /\ Registered!Idle.pc = "idle"
  /\ \A d \in Whats, p \in Pcs : Beginning(d, p) \in Commands /\ Beginning(d, p).pc = p
BY DEF Registered!Idle, Commands, Whats, Pcs, Beginning

\* A command goes on, begins again or fails.
LEMMA CommandMoves ==
  ASSUME StartupTypes
  PROVE  /\ \A p \in Pcs : Registered!Enter(p) => command' \in Commands /\ command'.pc = p
         /\ \A d \in Whats, p \in Pcs :
               Registered!Does(d, p) => command' \in Commands /\ command'.pc = p
         /\ Registered!Fail => command' \in Commands /\ command'.pc \in {"idle", "return"}
<1>1. command \in Commands
  BY DEF StartupTypes
<1>2. ASSUME NEW p \in Pcs, Registered!Enter(p)
      PROVE  command' \in Commands /\ command'.pc = p
  <2>1. command' = Stepping(command, p)
    BY <1>2 DEF Registered!Enter, Stepping
  <2>2. QED
    BY <1>1, <2>1, CommandSteps
<1>3. ASSUME NEW d \in Whats, NEW p \in Pcs, Registered!Does(d, p)
      PROVE  command' \in Commands /\ command'.pc = p
  <2>1. command' = Beginning(d, p)
    BY <1>3 DEF Registered!Does, Registered!Idle, Beginning
  <2>2. QED
    BY <2>1, CommandBegins
<1>4. Registered!Fail => command' \in Commands /\ command'.pc \in {"idle", "return"}
  <2>1. "restore" \in Whats /\ "return" \in Pcs
    BY DEF Whats, Pcs
  <2>2. Registered!Fail => Registered!Does("restore", "return") \/ command' = Registered!Idle
    BY DEF Registered!Fail
  <2>3. QED
    BY <1>3, <2>1, <2>2, CommandBegins
<1>5. QED
  BY <1>2, <1>3, <1>4

\* Nothing, and what is new.
LEMMA StartupNone ==
  /\ Registered!NoReceipt \in Receipts /\ Registered!NoReceipt.id = 0
  /\ Registered!NoJob \in Jobs /\ Registered!NoJob.of = 0
  /\ \A i \in 0 .. MaxId : [id |-> i, confirmed |-> FALSE] \in Receipts
  /\ \A i \in 0 .. MaxId + 1 : /\ [of |-> i, enabled |-> TRUE, running |-> TRUE] \in Jobs
                               /\ [of |-> i, enabled |-> TRUE, running |-> TRUE].of = i
BY RemoteAssumption
DEF Registered!NoReceipt, Registered!NoJob, Registered!NoId, Receipts, Jobs

\* No registration, or the one from before.
LEMMA StartupStart == Registered!StartupInit => StartupIInv
<1> SUFFICES ASSUME Registered!StartupInit PROVE StartupIInv
  OBVIOUS
<1>0. command \in Commands /\ command.pc = "idle"
  <2>1. command = Registered!Idle
    BY DEF Registered!StartupInit
  <2>2. QED
    BY <2>1, CommandBegins
<1>1. CASE /\ receipt = Registered!NoReceipt /\ file = Registered!NoId
           /\ job = Registered!NoJob /\ ids = 0
  BY <1>0, <1>1, StartupNone, RemoteAssumption
  DEF Registered!StartupInit, StartupIInv, StartupTypes, Registered!JobOwned, Registered!Id,
      Registered!NoId, Defined, Looked
<1>2. CASE /\ 1 \in Legacy /\ receipt = [id |-> 1, confirmed |-> TRUE] /\ file = 1
           /\ job = [of |-> 1, enabled |-> TRUE, running |-> TRUE] /\ ids = 1
  <2>1. 1 \in 0 .. MaxId /\ 1 \in 0 .. MaxId + 1
    BY <1>2, RemoteAssumption
  <2>2. receipt \in Receipts /\ receipt.id = 1
    BY <1>2, <2>1 DEF Receipts
  <2>3. job \in Jobs /\ job.of = 1
    BY <1>2, <2>1 DEF Jobs
  <2>4. QED
    BY <1>0, <1>2, <2>1, <2>2, <2>3, StartupNone
    DEF Registered!StartupInit, StartupIInv, StartupTypes, Registered!JobOwned, Defined, Looked
<1>3. QED
  BY <1>1, <1>2 DEF Registered!StartupInit

\* Others may come late.
LEMMA StartupLate ==
  ASSUME StartupTypes, NEW S, Registered!Exchanged(S)
  PROVE  /\ command' \in Commands /\ command'.pc = command.pc
         /\ command.late \/ command.pc \in S => command'.late
<1> DEFINE b == command.late \/ command.pc \in S
<1>1. command \in Commands
  BY DEF StartupTypes
<1>2. b \in BOOLEAN
  BY <1>1 DEF Commands
<1>3. command' = Overtaken(command, b)
  BY DEF Registered!Exchanged, Overtaken
<1> HIDE DEF b
<1>4. /\ Overtaken(command, b) \in Commands /\ Overtaken(command, b).pc = command.pc
      /\ b => Overtaken(command, b).late
  BY <1>1, <1>2, CommandLate
<1>5. command' \in Commands /\ command'.pc = command.pc /\ (b => command'.late)
  BY <1>3, <1>4
<1>6. QED
  BY <1>5 DEF b

\* The user and other programs.
LEMMA StartupEdits ==
  ASSUME StartupIInv, Registered!EditFile \/ Registered!EditJob \/ Registered!Vanish
  PROVE  /\ StartupIInv'
         /\ file = MaxId + 1 => file' = MaxId + 1
         /\ job.of = MaxId + 1 => job' = job
<1>0. StartupTypes /\ job \in Jobs /\ MaxId \in Nat
  BY RemoteAssumption DEF StartupIInv, StartupTypes
<1>1. CASE Registered!EditFile
  <2>1. /\ UNCHANGED <<receipt, previous, job, ids>> /\ file # MaxId + 1 /\ file' = MaxId + 1
        /\ command' \in Commands /\ command'.pc = command.pc
        /\ command.late \/ command.pc \in {"unlink", "drop"} => command'.late
    BY <1>0, <1>1, StartupLate DEF Registered!EditFile, Registered!Other
  <2>2. QED
    BY <1>0, <2>1 DEF StartupIInv, StartupTypes, Registered!JobOwned, Defined, Looked
<1>2. CASE Registered!EditJob \/ Registered!Vanish
  <2>1. /\ UNCHANGED <<receipt, previous, file, ids>> /\ job.of # MaxId + 1
        /\ \/ /\ job' = [job EXCEPT !.of = MaxId + 1]
              /\ command' \in Commands /\ command'.pc = command.pc
              /\ command.late \/ command.pc \in {"create", "remove", "kick"} => command'.late
           \/ job' = [job EXCEPT !.enabled = ~job.enabled] /\ command' = command
           \/ job' = [job EXCEPT !.running = ~job.running] /\ command' = command
           \/ job' = Registered!NoJob /\ command' = command
    BY <1>0, <1>2, StartupLate DEF Registered!EditJob, Registered!Vanish, Registered!Other
  <2> DEFINE after == /\ command' \in Commands /\ command'.pc = command.pc
                      /\ command.late \/ command.pc \in {"create", "remove", "kick"} => command'.late
  <2>2. /\ job' \in Jobs
        /\ (job'.of \in {job.of, 0} /\ command' = command) \/ (job'.of = MaxId + 1 /\ after)
    <3>1. \/ job' = [job EXCEPT !.of = MaxId + 1] /\ after
          \/ job' = [job EXCEPT !.enabled = ~job.enabled] /\ command' = command
          \/ job' = [job EXCEPT !.running = ~job.running] /\ command' = command
          \/ job' = Registered!NoJob /\ command' = command
      BY <2>1
    <3>2. job.enabled \in BOOLEAN /\ job.running \in BOOLEAN
      BY <1>0, JobEdits
    <3> HIDE DEF after
    <3>3. QED
      BY <1>0, <3>1, <3>2, JobEdits, StartupNone
  <2>3. QED
    BY <1>0, <2>1, <2>2
    DEF StartupIInv, StartupTypes, Registered!JobOwned, Registered!Id, Defined, Looked
<1>3. QED
  BY <1>1, <1>2

\* A command about to enable, start or remove something has just seen that it is its own, and one
\* about to forget the receipt that the definition is gone.
LEMMA StartupLooks ==
  ASSUME StartupIInv, Registered!Run
  PROVE  /\ command' \in Commands
         /\ command'.pc \in {"unlink", "drop"} => file' # MaxId + 1
         /\ command'.pc \in {"create", "remove", "kick"} => job'.of # MaxId + 1
         /\ command'.pc = "forget" => file' \notin 1 .. MaxId
<1>0. /\ StartupTypes /\ receipt.id \in 0 .. MaxId /\ command \in Commands /\ MaxId \in Nat
      /\ receipt.id # MaxId + 1 /\ 0 # MaxId + 1 /\ 0 \notin 1 .. MaxId
  <2>1. StartupTypes /\ receipt.id \in 0 .. MaxId /\ MaxId \in Nat
    BY ReceiptEdits, RemoteAssumption DEF StartupIInv, StartupTypes
  <2>2. QED
    BY <2>1 DEF StartupTypes
<1>1. CASE Registered!Begin \/ Registered!Register \/ Registered!Upgrade \/ Registered!Return
            \/ Registered!Die \/ Registered!Kick
  BY <1>0, <1>1, CommandMoves, CommandBegins
  DEF Registered!Begin, Registered!Register, Registered!Upgrade, Registered!Return,
      Registered!Die, Registered!Kick, Whats, Pcs
<1>2. CASE Registered!Define
  <2>1. \/ Registered!Fail
        \/ command' = Created(command, "install", file = Registered!NoId)
    BY <1>2 DEF Registered!Define, Created
  <2>2. (file = Registered!NoId) \in BOOLEAN /\ "install" \in Pcs
    BY DEF Pcs
  <2>3. QED
    BY <1>0, <2>1, <2>2, CommandMoves, CommandCreates
<1>3. CASE Registered!Install
  <2>1. /\ job' = job /\ file' = file
        /\ \/ Registered!Enter("withdraw") \/ Registered!Fail \/ Registered!Enter("confirm")
           \/ job.of \in {0, receipt.id} /\ Registered!Enter("create")
    BY <1>3 DEF Registered!Install, Registered!Conflict, Registered!JobOurs, Registered!NoId
  <2>2. QED
    BY <1>0, <2>1, CommandMoves DEF Pcs
<1>3a. CASE Registered!Create
  BY <1>0, <1>3a, CommandMoves DEF Registered!Create, Pcs
<1>3b. CASE Registered!Confirm
  <2>1. \/ Registered!Enter("withdraw") \/ Registered!Fail \/ command' = Registered!Idle
    BY <1>3b DEF Registered!Confirm, Registered!Conflict
  <2>2. QED
    BY <1>0, <2>1, CommandMoves, CommandBegins DEF Pcs
<1>4. CASE Registered!Withdraw
  <2>1. file' = file /\ ((file = receipt.id /\ Registered!Enter("drop")) \/ Registered!Fail)
    BY <1>4 DEF Registered!Withdraw
  <2>2. QED
    BY <1>0, <2>1, CommandMoves DEF Pcs
<1>5. CASE Registered!Drop
  BY <1>0, <1>5, CommandMoves DEF Registered!Drop
<1>6. CASE Registered!Unregister
  <2>1. /\ job' = job
        /\ \/ command' = Registered!Idle \/ Registered!Fail \/ Registered!Enter("stopped")
           \/ job.of \in {0, receipt.id} /\ Registered!Enter("remove")
    BY <1>6 DEF Registered!Unregister, Registered!JobOurs, Registered!NoId
  <2>2. QED
    BY <1>0, <2>1, CommandMoves, CommandBegins DEF Pcs
<1>7. CASE Registered!Remove
  BY <1>0, <1>7, CommandMoves DEF Registered!Remove, Pcs
<1>8. CASE Registered!Stopped
  <2>1. /\ file' = file
        /\ \/ Registered!Fail
           \/ file = 0 /\ Registered!Enter("forget")
           \/ file = receipt.id /\ Registered!Enter("unlink")
    BY <1>8 DEF Registered!Stopped, Registered!FileOurs, Registered!NoId
  <2>2. QED
    BY <1>0, <2>1, CommandMoves DEF Pcs
<1>9. CASE Registered!Unlink
  BY <1>0, <1>9, CommandMoves DEF Registered!Unlink, Registered!NoId, Pcs
<1>10. CASE Registered!Forget
  <2>1. \/ Registered!Fail \/ Registered!Does("renew", "register")
        \/ Registered!Enter("register") \/ command' = Registered!Idle
    BY <1>10 DEF Registered!Forget
  <2>2. QED
    BY <1>0, <2>1, CommandMoves, CommandBegins DEF Pcs, Whats
<1>11. CASE Registered!Start
  <2>1. /\ job' = job
        /\ \/ command' = Registered!Idle
           \/ job.of = receipt.id /\ Registered!Enter("kick")
    BY <1>11 DEF Registered!Start, Registered!Registered
  <2>2. QED
    BY <1>0, <2>1, CommandMoves, CommandBegins DEF Pcs
<1>12. QED
  BY <1>1, <1>2, <1>3, <1>3a, <1>3b, <1>4, <1>5, <1>6, <1>7, <1>8, <1>9, <1>10, <1>11
  DEF Registered!Run

\* Commands that change a file or only themselves.
LEMMA StartupFiles ==
  ASSUME StartupIInv,
         \/ Registered!Begin \/ Registered!Define \/ Registered!Install
         \/ Registered!Withdraw \/ Registered!Drop
         \/ Registered!Unregister \/ Registered!Stopped \/ Registered!Unlink
         \/ Registered!Start \/ Registered!Die
  PROVE  /\ UNCHANGED <<receipt, previous, job, ids>>
         /\ file' \in {file, 0, receipt.id}
         /\ file = MaxId + 1 /\ file' # file => command.pc \in {"unlink", "drop"}
<1>1. /\ UNCHANGED <<receipt, previous, job, ids>> /\ file' \in {file, 0, receipt.id}
      /\ \/ file' = file \/ command.pc \in {"unlink", "drop"}
         \/ file \in {0, receipt.id}
  BY DEF Registered!Begin, Registered!Define, Registered!Install, Registered!Withdraw,
         Registered!Drop, Registered!Unregister, Registered!Stopped, Registered!Unlink, Registered!Start,
         Registered!Die, Registered!FileOurs, Registered!NoId
<1>2. receipt.id \in 0 .. MaxId /\ MaxId \in Nat
  BY ReceiptEdits, RemoteAssumption DEF StartupIInv, StartupTypes
<1>3. QED
  BY <1>1, <1>2

\* Commands that change the job: one that the manager registers is of the file.
LEMMA StartupJobs ==
  ASSUME StartupIInv, Registered!Create \/ Registered!Remove \/ Registered!Kick
  PROVE  /\ UNCHANGED <<receipt, previous, file, ids>>
         /\ job' \in Jobs /\ (job'.of \in {job.of, 0} \/ (job.of = 0 /\ job'.of = file))
         /\ job.of = MaxId + 1 /\ job' # job => command.pc \in {"create", "remove", "kick"}
<1>0. StartupTypes
  BY DEF StartupIInv
<1>1. UNCHANGED <<receipt, previous, file, ids>>
  BY DEF Registered!Create, Registered!Remove, Registered!Kick
<1>2. CASE Registered!Create
  <2>1. /\ command.pc = "create"
        /\ \/ job' = job \/ job' = [job EXCEPT !.enabled = TRUE, !.running = TRUE]
           \/ job.of = 0 /\ job' = [of |-> file, enabled |-> TRUE, running |-> TRUE]
    BY <1>2 DEF Registered!Create, Registered!NoId
  <2>2. /\ [job EXCEPT !.enabled = TRUE, !.running = TRUE] \in Jobs
        /\ [job EXCEPT !.enabled = TRUE, !.running = TRUE].of = job.of
    BY <1>0 DEF StartupTypes, Jobs
  <2>3. job.of = 0 => job.of # MaxId + 1
    BY RemoteAssumption
  <2>4. QED
    BY <1>0, <1>1, <2>1, <2>2, <2>3, StartupNone DEF StartupTypes
<1>3. CASE Registered!Remove
  <2>1. /\ job' \in {job, Registered!NoJob, [job EXCEPT !.enabled = FALSE]}
        /\ command.pc = "remove"
    BY <1>3 DEF Registered!Remove, Registered!Removed
  <2>2. QED
    BY <1>0, <1>1, <2>1, JobEdits, StartupNone DEF StartupTypes
<1>4. CASE Registered!Kick
  <2>1. job' \in {job, [job EXCEPT !.running = TRUE]} /\ command.pc = "kick"
    BY <1>4 DEF Registered!Kick
  <2>2. QED
    BY <1>0, <1>1, <2>1, JobEdits DEF StartupTypes
<1>5. QED
  BY <1>2, <1>3, <1>4

\* Commands that change a receipt: what the old one names is named by the new one, or by
\* the one that is saved.
LEMMA StartupReceipts ==
  ASSUME StartupIInv,
         \/ Registered!Register \/ Registered!Confirm \/ Registered!Forget
         \/ Registered!Upgrade \/ Registered!Return
  PROVE  /\ UNCHANGED <<file, job>>
         /\ receipt' \in Receipts /\ previous' \in Receipts /\ ids' \in 0 .. MaxId
         /\ Registered!JobOwned' /\ (file \in 1 .. MaxId => file = receipt'.id)
<1>0. /\ StartupTypes /\ UNCHANGED <<file, job>> /\ receipt.id \in 0 .. MaxId
      /\ MaxId \in Nat /\ (file \in 1 .. MaxId => file = receipt.id)
      /\ (command.pc = "forget" => file \notin 1 .. MaxId)
      /\ (job.of \in 1 .. MaxId => job.of \in {receipt.id, previous.id})
  BY ReceiptEdits, RemoteAssumption
  DEF StartupIInv, StartupTypes, Defined, Registered!Register, Registered!Confirm,
      Registered!Forget, Registered!Upgrade, Registered!Return, Registered!JobOwned,
      Registered!Id
<1>2. CASE Registered!Register
  <2>1. /\ previous' = previous
        /\ \/ receipt' = receipt /\ ids' = ids
           \/ /\ receipt' = [id |-> ids + 1, confirmed |-> FALSE] /\ ids' = ids + 1
              /\ ids # MaxId /\ job.of = 0 /\ file = 0
    BY <1>2 DEF Registered!Register, Registered!NoId
  <2>2. ids # MaxId => ids + 1 \in 0 .. MaxId
    BY <1>0, RemoteAssumption DEF StartupTypes
  <2>3. receipt' \in Receipts /\ ids' \in 0 .. MaxId
    BY <1>0, <2>1, <2>2, StartupNone DEF StartupTypes
  <2>4. Registered!JobOwned' /\ (file \in 1 .. MaxId => file = receipt'.id)
    BY <1>0, <2>1 DEF Registered!JobOwned, Registered!Id
  <2>5. QED
    BY <1>0, <2>1, <2>3, <2>4 DEF StartupTypes
<1>3. CASE Registered!Confirm
  <2>1. /\ ids' = ids
        /\ \/ receipt' = receipt /\ previous' = previous
           \/ /\ job.of = receipt.id /\ receipt' = [receipt EXCEPT !.confirmed = TRUE]
              /\ previous' \in {previous, Registered!NoReceipt}
    BY <1>3 DEF Registered!Confirm, Registered!Registered
  <2>2. QED
    BY <1>0, <2>1, ReceiptEdits, StartupNone DEF StartupTypes, Registered!JobOwned, Registered!Id
<1>4. CASE Registered!Forget
  <2>1. /\ ids' = ids /\ previous' = previous /\ command.pc = "forget"
        /\ \/ receipt' = receipt
           \/ job.of = 0 /\ receipt' \in {previous, Registered!NoReceipt}
    BY <1>4 DEF Registered!Forget, Registered!Gone, Registered!NoId
  <2>2. QED
    BY <1>0, <2>1, StartupNone DEF StartupTypes, Registered!JobOwned, Registered!Id
<1>5. CASE Registered!Upgrade
  <2>1. /\ ids' = ids /\ receipt' = receipt
        /\ \/ previous' = previous
           \/ previous = Registered!NoReceipt /\ previous' = receipt
    BY <1>5 DEF Registered!Upgrade
  <2>2. QED
    BY <1>0, <2>1, StartupNone DEF StartupTypes, Registered!JobOwned, Registered!Id
<1>6. CASE Registered!Return
  <2>1. /\ ids' = ids /\ previous' = previous
        /\ receipt' = receipt \/ (receipt.id = 0 /\ receipt' = previous)
    BY <1>6 DEF Registered!Return, Registered!NoId
  <2>2. QED
    BY <1>0, <2>1 DEF StartupTypes, Registered!JobOwned, Registered!Id
<1>7. QED
  BY <1>2, <1>3, <1>4, <1>5, <1>6

\* Every command.
LEMMA StartupRuns ==
  ASSUME StartupIInv, Registered!Run
  PROVE  /\ StartupIInv'
         /\ file = MaxId + 1 /\ file' # file => command.late
         /\ job.of = MaxId + 1 /\ job' # job => command.late
<1>0. /\ StartupTypes /\ receipt.id \in 0 .. MaxId /\ MaxId \in Nat /\ job \in Jobs
      /\ file \in 0 .. MaxId + 1 /\ (file \in 1 .. MaxId => file = receipt.id)
      /\ job.of \in 1 .. MaxId => job.of \in {receipt.id, previous.id}
  BY ReceiptEdits, RemoteAssumption
  DEF StartupIInv, StartupTypes, Defined, Registered!JobOwned, Registered!Id
<1>1. Looked' /\ command' \in Commands /\ (command'.pc = "forget" => file' \notin 1 .. MaxId)
  BY StartupLooks DEF Looked
<1>2. CASE \/ Registered!Begin \/ Registered!Define \/ Registered!Install
           \/ Registered!Withdraw \/ Registered!Drop
           \/ Registered!Unregister \/ Registered!Stopped \/ Registered!Unlink
           \/ Registered!Start \/ Registered!Die
  <2>1. /\ UNCHANGED <<receipt, previous, job, ids>> /\ file' \in {file, 0, receipt.id}
        /\ file = MaxId + 1 /\ file' # file => command.pc \in {"unlink", "drop"}
    BY <1>2, StartupFiles
  <2>2. file' \in 0 .. MaxId + 1 /\ (file' \in 1 .. MaxId => file' = receipt'.id)
    BY <1>0, <2>1
  <2>3. StartupIInv'
    BY <1>0, <1>1, <2>1, <2>2
    DEF StartupIInv, StartupTypes, Defined, Registered!JobOwned, Registered!Id
  <2>4. QED
    BY <2>1, <2>3 DEF StartupIInv, Looked
<1>3. CASE Registered!Create \/ Registered!Remove \/ Registered!Kick
  <2>1. /\ UNCHANGED <<receipt, previous, file, ids>>
        /\ job' \in Jobs /\ (job'.of \in {job.of, 0} \/ (job.of = 0 /\ job'.of = file))
        /\ job.of = MaxId + 1 /\ job' # job => command.pc \in {"create", "remove", "kick"}
    BY <1>3, StartupJobs
  <2>2. job'.of \in 1 .. MaxId => job'.of \in {receipt'.id, previous'.id}
    BY <1>0, <2>1
  <2>3. StartupIInv'
    BY <1>0, <1>1, <2>1, <2>2
    DEF StartupIInv, StartupTypes, Defined, Registered!JobOwned, Registered!Id
  <2>4. QED
    BY <2>1, <2>3 DEF StartupIInv, Looked
<1>4. CASE \/ Registered!Register \/ Registered!Confirm \/ Registered!Forget
           \/ Registered!Upgrade \/ Registered!Return
  <2>1. /\ UNCHANGED <<file, job>>
        /\ receipt' \in Receipts /\ previous' \in Receipts /\ ids' \in 0 .. MaxId
        /\ Registered!JobOwned' /\ (file \in 1 .. MaxId => file = receipt'.id)
    BY <1>4, StartupReceipts
  <2>2. QED
    BY <1>0, <1>1, <2>1 DEF StartupIInv, StartupTypes, Defined
<1>5. QED
  BY <1>2, <1>3, <1>4 DEF Registered!Run

\* Every step of the startup manager and of the commands.
LEMMA StartupStep ==
  ASSUME StartupIInv, [Registered!StartupNext]_jobVars
  PROVE  StartupIInv'
<1>1. CASE Registered!StartupNext
  BY <1>1, StartupEdits, StartupRuns DEF Registered!StartupNext
<1>2. CASE UNCHANGED jobVars
  BY <1>2 DEF jobVars, StartupIInv, StartupTypes, Registered!JobOwned, Defined, Looked
<1>3. QED
  BY <1>1, <1>2

\* A file or job of somebody else's stays, unless it came late.
LEMMA StartupSpares ==
  ASSUME StartupIInv, [Registered!StartupNext]_jobVars
  PROVE  /\ file = Registered!Other /\ file' # Registered!Other => command.late
         /\ job.of = Registered!Other /\ job' # job => command.late
<1>1. CASE Registered!StartupNext
  BY <1>1, StartupEdits, StartupRuns DEF Registered!StartupNext, Registered!Other
<1>2. CASE UNCHANGED jobVars
  BY <1>2 DEF jobVars
<1>3. QED
  BY <1>1, <1>2

-----------------------------------------------------------------------------
(* A connector's sessions with the HTTP service. *)

Sends == {"initialize", "initialized", "call"}

\* What a client and a task are made of.
Shaped(t) ==
    t = [pc |-> t.pc, kind |-> t.kind, holds |-> t.holds, renewed |-> t.renewed,
         expired |-> t.expired, notified |-> t.notified, answer |-> t.answer]
Formed(r) == r = [pc |-> r.pc, sid |-> r.sid, grant |-> r.grant]

\* Of a client's request q, its task r and the count e of what was dispatched: no call of
\* it can be dispatched, and none was.
Unrun(q, r, e) == q.kind # "call" /\ r = Http!NoTask /\ e = 0

\* A client t that has sent no call, or is told that it failed, has run none.
Asked(t, q, r, e) ==
    /\ Shaped(t) /\ t.pc \in {"idle", "send", "wait"}
    /\ \/ t.pc = "send"
       \/ t.pc = "wait" /\ t.kind # "call"
       \/ t.pc = "idle" /\ t.answer \in {None, "failed"}
       => Unrun(q, r, e)
    /\ t.answer = "completed" => q = Http!NoRequest /\ r = Http!NoTask /\ e = 1
    /\ t.pc # "idle" => t.answer = None /\ t.kind \in Sends
    /\ t.pc = "wait" /\ q # Http!NoRequest => q.kind = t.kind

\* A request gets one task, which dispatches once.
Served(q, r, e) ==
    /\ q # Http!NoRequest => q.kind \in Sends
    /\ q # Http!NoRequest /\ q.kind # "call" => Unrun(q, r, e)
    /\ Formed(r) /\ e \in {0, 1}
    /\ r # Http!NoTask => /\ r.pc \in {"begin", "catalog", "execute"}
                          /\ e = IF r.pc = "execute" THEN 1 ELSE 0
    /\ r = Http!NoTask /\ q.kind = "call" => e = 0

HttpTypes ==
    /\ httpConn = [c \in Accounts |-> httpConn[c]] /\ httpTask = [c \in Accounts |-> httpTask[c]]
    /\ connector = [c \in Accounts |-> connector[c]]
    /\ executed = [c \in Accounts |-> executed[c]]
Calls ==
    \A c \in Accounts : /\ Asked(connector[c], httpConn[c], httpTask[c], executed[c])
                        /\ Served(httpConn[c], httpTask[c], executed[c])
Quieted == server = "closed" =>
    \A c \in Accounts : httpConn[c] = Http!NoRequest /\ httpTask[c] = Http!NoTask
Housed == sessions = [s \in Sid |-> sessions[s]]
Sized ==
    Housed /\ Cardinality(Http!Open) <= MaxSessions /\ Cardinality(Http!Tasks) <= MaxDispatch

HttpIInv == HttpTypes /\ Calls /\ Quieted /\ Sized


\* A client u whose request of the kind k is to be sent, or whose call has ended.
Sending(u, k) == Shaped(u) /\ u.pc = "send" /\ u.kind = k /\ u.answer = None
Ended(u, answer) == Shaped(u) /\ u.pc = "idle" /\ u.answer = answer

\* A client has the same fields whatever one of them is set to.
LEMMA SetsOne ==
  ASSUME NEW t, Shaped(t), NEW v
  PROVE  /\ Shaped([t EXCEPT !.pc = v]) /\ Shaped([t EXCEPT !.kind = v])
         /\ Shaped([t EXCEPT !.renewed = v]) /\ Shaped([t EXCEPT !.holds = v])
         /\ Shaped([t EXCEPT !.expired = v]) /\ Shaped([t EXCEPT !.notified = v])
         /\ Shaped([t EXCEPT !.answer = v])
<1>1. Shaped([t EXCEPT !.pc = v]) 
  BY DEF Shaped
<1>2. Shaped([t EXCEPT !.kind = v])
  BY DEF Shaped
<1>3. Shaped([t EXCEPT !.renewed = v]) 
  BY DEF Shaped
<1>4. Shaped([t EXCEPT !.holds = v])
  BY DEF Shaped
<1>5. Shaped([t EXCEPT !.expired = v]) 
  BY DEF Shaped
<1>6. Shaped([t EXCEPT !.notified = v])
  BY DEF Shaped
<1>7. Shaped([t EXCEPT !.answer = v])
  BY DEF Shaped
<1>8. QED
  BY <1>1, <1>2, <1>3, <1>4, <1>5, <1>6, <1>7

\* A task that goes on.
LEMMA TaskShapes ==
  ASSUME NEW r, Formed(r), NEW p
  PROVE  LET s == [r EXCEPT !.pc = p] IN Formed(s) /\ s.pc = p
  BY DEF Formed

\* What a client that sends or has ended asks for.
LEMMA SendingAsked ==
  ASSUME NEW u, NEW k \in Sends, Sending(u, k), NEW q, NEW r, NEW e, Unrun(q, r, e)
  PROVE  Asked(u, q, r, e)
  BY RemoteAssumption DEF Sending, Asked, Unrun

\* Nothing of a call was run, or what is answered does not say that.
Answerable(a, q, r, e) ==
    \/ a = "failed" /\ Unrun(q, r, e)
    \/ a \in {"unknown", "running"}
    \/ a = "completed" /\ q = Http!NoRequest /\ r = Http!NoTask /\ e = 1

\* And what one that has ended was told.
LEMMA EndedAsked ==
  ASSUME NEW u, NEW a, Ended(u, a), NEW q, NEW r, NEW e,
         Answerable(a, q, r, e)
  PROVE  Asked(u, q, r, e)
<1>1. CASE a = "failed" /\ Unrun(q, r, e)
  BY <1>1, RemoteAssumption DEF Ended, Asked, Unrun
<1>2. CASE a \in {"unknown", "running"}
  BY <1>2, RemoteAssumption DEF Ended, Asked
<1>3. CASE a = "completed" /\ q = Http!NoRequest /\ r = Http!NoTask /\ e = 1
  BY <1>3, RemoteAssumption DEF Ended, Asked
<1>4. QED
  BY <1>1, <1>2, <1>3 DEF Answerable

\* A call may end with such an answer.
LEMMA EndsAsked ==
  ASSUME NEW c, NEW a, NEW sid, NEW q, NEW r, NEW e, Answerable(a, q, r, e)
  PROVE  Asked(Http!Ends(c, a, sid), q, r, e)
<1>1. Shaped(Http!Resting)
  BY DEF Shaped, Http!Resting
<1>2. Shaped(Http!Ends(c, a, sid))
  BY <1>1, SetsOne DEF Http!Ends
<1>3. Ended(Http!Ends(c, a, sid), a)
  BY <1>2 DEF Ended, Http!Ends, Http!Resting
<1>4. QED
  BY <1>3, EndedAsked

\* What a client sends next keeps the session, or has none: with a new one, for an expired
\* one of a call, or of a handshake.
Holding(u, sid) == [u EXCEPT !.holds = sid]
Anew(u) == [u EXCEPT !.holds = None, !.expired = TRUE, !.notified = FALSE]
Again(u) == [u EXCEPT !.holds = None, !.notified = TRUE]

\* What a client that waits sends next.
LEMMA SendsAsked ==
  ASSUME NEW c, NEW k \in Sends, NEW sid, NEW q, NEW r, NEW e, Unrun(q, r, e),
         Shaped(connector[c]), connector[c].answer = None
  PROVE  /\ Asked(Http!Send(c, k), q, r, e) /\ Asked(Holding(Http!Send(c, k), sid), q, r, e)
         /\ Asked(Anew(Http!Send(c, k)), q, r, e) /\ Asked(Again(Http!Send(c, k)), q, r, e)
<1>1. PICK u : u = Http!Send(c, k)
  OBVIOUS
<1>2. Shaped(u)
  BY <1>1, SetsOne DEF Http!Send
<1>3. u.pc = "send" /\ u.kind = k /\ u.answer = None
  BY <1>1 DEF Http!Send, Shaped
<1>4. Sending(u, k)
  BY <1>2, <1>3 DEF Sending
<1>5. Sending(Holding(u, sid), k)
  <2>1. Shaped(Holding(u, sid))
    BY <1>2, SetsOne DEF Holding
  <2>2. QED
    BY <1>2, <1>3, <2>1 DEF Sending, Holding, Shaped
<1>6. Sending(Anew(u), k)
  <2>1. Shaped(Anew(u))
    BY <1>2, SetsOne DEF Anew
  <2>2. QED
    BY <1>2, <1>3, <2>1 DEF Sending, Anew, Shaped
<1>7. Sending(Again(u), k)
  <2>1. Shaped(Again(u))
    BY <1>2, SetsOne DEF Again
  <2>2. QED
    BY <1>2, <1>3, <2>1 DEF Sending, Again, Shaped
<1>8. QED
  BY <1>1, <1>4, <1>5, <1>6, <1>7, SendingAsked

\* A request may be repeated with a new token.
Renewing(t) == [t EXCEPT !.pc = "send", !.renewed = TRUE]
LEMMA RenewsAsked ==
  ASSUME NEW t, Shaped(t), t.kind \in Sends, t.answer = None, NEW q, NEW r, NEW e,
         Unrun(q, r, e)
  PROVE  Asked(Renewing(t), q, r, e)
<1>1. Shaped(Renewing(t))
  BY SetsOne DEF Renewing
<1>2. Renewing(t).pc = "send" /\ Renewing(t).kind = t.kind /\ Renewing(t).answer = t.answer
  BY DEF Renewing, Shaped
<1>3. QED
  BY <1>1, <1>2, SendingAsked DEF Sending

\* A client that waits is told the truth by whatever answer it hears.
LEMMA HttpHears ==
  ASSUME HttpIInv, NEW c \in Accounts, Http!At(c, "wait"), NEW status, NEW sid,
         Http!Hears(c, status, sid), NEW r, NEW e,
         connector[c].kind # "call" => r = Http!NoTask /\ e = 0,
         status \in {"unauthorized", "expired", "rejected"} => r = Http!NoTask /\ e = 0,
         connector[c].kind = "call" /\ status = "ok" => r = Http!NoTask /\ e = 1,
         status \in {"unauthorized", "expired", "rejected", "error", "running", "ok"}
  PROVE  \E u : /\ Asked(u, Http!NoRequest, r, e)
                /\ connector' = [connector EXCEPT ![c] = u]
<1> DEFINE t == connector[c]
           q == Http!NoRequest
<1>1. /\ Shaped(t) /\ t.pc = "wait" /\ t.kind \in Sends /\ t.answer = None
  BY DEF HttpIInv, Calls, Asked, Http!At
<1>2. q.kind # "call"
  BY RemoteAssumption DEF Http!NoRequest
<1>3. ASSUME r = Http!NoTask, e = 0 PROVE Unrun(q, r, e)
  BY <1>2, <1>3 DEF Unrun
<1>4. CASE status = "unauthorized"
  <2>1. Unrun(q, r, e)
    BY <1>3, <1>4
  <2>2. Asked(Renewing(t), q, r, e)
    BY <1>1, <2>1, RenewsAsked
  <2>3. Asked(Http!Rejected(c), q, r, e)
    BY <2>1, EndsAsked DEF Http!Rejected, Answerable
  <2>4. \/ connector' = [connector EXCEPT ![c] = Renewing(t)]
        \/ connector' = [connector EXCEPT ![c] = Http!Rejected(c)]
    BY <1>4 DEF Http!Hears, Http!Unauthorized, Renewing
  <2>5. QED
    BY <2>2, <2>3, <2>4
<1>5. Asked(Http!Unconfirmed(c), q, r, e)
  <2>1. CASE t.kind = "call" \/ t.expired
    BY <2>1, EndsAsked DEF Http!Unconfirmed, Answerable
  <2>2. CASE ~(t.kind = "call" \/ t.expired)
    <3>1. Unrun(q, r, e)
      BY <1>3, <2>2
    <3>2. QED
      BY <2>2, <3>1, EndsAsked DEF Http!Unconfirmed, Answerable
  <2>3. QED
    BY <2>1, <2>2
<1>6. CASE status = "expired"
  <2>1. Unrun(q, r, e)
    BY <1>3, <1>6
  <2>2. connector' = [connector EXCEPT ![c] = Http!Expired(c)]
    BY <1>6 DEF Http!Hears
  <2>3. Asked(Http!Rejected(c), q, r, e)
    BY <2>1, EndsAsked DEF Http!Rejected, Answerable
  <2>4. /\ Asked(Anew(Http!Send(c, "initialize")), q, r, e)
        /\ Asked(Again(Http!Send(c, "initialize")), q, r, e)
    BY <1>1, <2>1, SendsAsked DEF Sends
  <2>5. Asked(Http!Expired(c), q, r, e)
    BY <1>5, <2>3, <2>4 DEF Http!Expired, Anew, Again
  <2>6. QED
    BY <2>2, <2>5
<1>7. CASE status = "rejected"
  <2>1. Asked(Http!Rejected(c), q, r, e)
    BY <1>3, <1>7, EndsAsked DEF Http!Rejected, Answerable
  <2>2. connector' = [connector EXCEPT ![c] = Http!Rejected(c)]
    BY <1>7 DEF Http!Hears
  <2>3. QED
    BY <2>1, <2>2
<1>8. CASE status = "error"
  BY <1>5, <1>8 DEF Http!Hears
<1>9. CASE status = "running"
  <2>1. Asked(Http!Ends(c, "running", t.holds), q, r, e)
    BY EndsAsked DEF Answerable
  <2>2. connector' = [connector EXCEPT ![c] = Http!Ends(c, "running", t.holds)]
    BY <1>9 DEF Http!Hears
  <2>3. QED
    BY <2>1, <2>2
<1>10. CASE status = "ok" /\ t.kind = "initialize"
  <2>1. Unrun(q, r, e) => Asked(Holding(Http!Send(c, "initialized"), sid), q, r, e)
    BY <1>1, SendsAsked DEF Sends
  <2>2. connector' = [connector EXCEPT ![c] = Holding(Http!Send(c, "initialized"), sid)]
    BY <1>10 DEF Http!Hears, Http!Continues, Holding
  <2>3. Unrun(q, r, e)
    BY <1>3, <1>10
  <2>4. QED
    BY <2>1, <2>2, <2>3
<1>11. CASE status = "ok" /\ t.kind = "initialized"
  <2>1. Unrun(q, r, e) => Asked(Http!Send(c, "call"), q, r, e)
    BY <1>1, SendsAsked DEF Sends
  <2>2. connector' = [connector EXCEPT ![c] = Http!Send(c, "call")]
    BY <1>11 DEF Http!Hears, Http!Continues
  <2>3. Unrun(q, r, e)
    BY <1>3, <1>11
  <2>4. QED
    BY <2>1, <2>2, <2>3
<1>12. CASE status = "ok" /\ t.kind = "call"
  <2>1. Asked(Http!Ends(c, "completed", t.holds), q, r, e)
    BY <1>12, EndsAsked DEF Answerable
  <2>2. connector' = [connector EXCEPT ![c] = Http!Ends(c, "completed", t.holds)]
    BY <1>12 DEF Http!Hears, Http!Continues
  <2>3. QED
    BY <2>1, <2>2
<1>13. QED
  BY <1>1, <1>4, <1>6, <1>7, <1>8, <1>9, <1>10, <1>11, <1>12 DEF Sends

\* The reply to a connection, with what is then left of its task and of what was run.
LEMMA HttpReplies ==
  ASSUME HttpIInv, NEW c \in Accounts, NEW status, NEW sid, Http!Reply(c, status, sid),
         Http!Connected(c), NEW r, NEW e,
         httpConn[c].kind # "call" => r = Http!NoTask /\ e = 0,
         status \in {"unauthorized", "expired", "rejected"} => r = Http!NoTask /\ e = 0,
         httpConn[c].kind = "call" /\ status = "ok" => r = Http!NoTask /\ e = 1,
         status \in {"unauthorized", "expired", "rejected", "error", "running", "ok"},
         ~Http!At(c, "wait") => Asked(connector[c], Http!NoRequest, r, e)
  PROVE  /\ httpConn' = [httpConn EXCEPT ![c] = Http!NoRequest]
         /\ \E u : /\ Asked(u, Http!NoRequest, r, e)
                   /\ connector' = [connector EXCEPT ![c] = u]
<1>1. httpConn' = [httpConn EXCEPT ![c] = Http!NoRequest]
  BY DEF Http!Reply
<1>2. CASE Http!At(c, "wait")
  <2>1. httpConn[c].kind = connector[c].kind
    BY <1>2 DEF HttpIInv, Calls, Asked, Http!At, Http!Connected
  <2>2. Http!Hears(c, status, sid)
    BY <1>2 DEF Http!Reply
  <2>3. QED
    BY <1>1, <1>2, <2>1, <2>2, HttpHears
<1>3. CASE ~Http!At(c, "wait")
  <2>1. connector' = connector
    BY <1>3 DEF Http!Reply
  <2>2. connector' = [connector EXCEPT ![c] = connector[c]]
    BY <2>1 DEF HttpIInv, HttpTypes
  <2>3. QED
    BY <1>1, <1>3, <2>2
<1>4. QED
  BY <1>2, <1>3

\* What one client does.
LEMMA HttpLocal ==
  ASSUME HttpIInv, NEW c \in Accounts, NEW t, NEW q, NEW r, NEW e,
         connector' = [connector EXCEPT ![c] = t], httpConn' = [httpConn EXCEPT ![c] = q],
         httpTask' = [httpTask EXCEPT ![c] = r], executed' = [executed EXCEPT ![c] = e],
         Asked(t, q, r, e), Served(q, r, e), server' = server,
         server = "closed" => q = Http!NoRequest /\ r = Http!NoTask,
         Sized'
  PROVE  HttpIInv'
<1>1. HttpTypes'
  BY DEF HttpIInv, HttpTypes
<1>2. Calls'
  <2>1. SUFFICES ASSUME NEW b \in Accounts
                 PROVE  /\ Asked(connector'[b], httpConn'[b], httpTask'[b], executed'[b])
                        /\ Served(httpConn'[b], httpTask'[b], executed'[b])
    BY DEF Calls
  <2>2. CASE b = c
    <3>1. connector'[b] = t /\ httpConn'[b] = q /\ httpTask'[b] = r /\ executed'[b] = e
      BY <2>2 DEF HttpIInv, HttpTypes
    <3>2. QED
      BY <3>1
  <2>3. CASE b # c
    <3>1. /\ connector'[b] = connector[b] /\ httpConn'[b] = httpConn[b]
          /\ httpTask'[b] = httpTask[b] /\ executed'[b] = executed[b]
      BY <2>3 DEF HttpIInv, HttpTypes
    <3>2. QED
      BY <3>1 DEF HttpIInv, Calls
  <2>4. QED
    BY <2>2, <2>3
<1>3. Quieted'
  BY DEF HttpIInv, HttpTypes, Quieted
<1>4. QED
  BY <1>1, <1>2, <1>3 DEF HttpIInv

\* What is open and which tasks there are, of a finite number.
LEMMA HttpFinite ==
  /\ IsFiniteSet(Http!Open) /\ Cardinality(Http!Open) \in Nat
  /\ IsFiniteSet(Http!Tasks) /\ Cardinality(Http!Tasks) \in Nat
  /\ IsFiniteSet(Http!Open') /\ Cardinality(Http!Open') \in Nat
  /\ IsFiniteSet(Http!Tasks') /\ Cardinality(Http!Tasks') \in Nat
<1>1. Http!Open \subseteq Sid /\ Http!Tasks \subseteq Accounts
  BY DEF Http!Open, Http!Tasks
<1>2. Http!Open' \subseteq Sid /\ Http!Tasks' \subseteq Accounts
  BY DEF Http!Open, Http!Tasks
<1>3. IsFiniteSet(Sid) /\ IsFiniteSet(Accounts)
  BY RemoteAssumption
<1>4. QED
  BY <1>1, <1>2, <1>3, FS_Subset, FS_CardinalityType

\* The service counts as this module does.
LEMMA SameCardinality == \A S : Http!Cardinality(S) = Cardinality(S)
  BY DEF Http!Cardinality, Cardinality

\* No more are kept than before.
LEMMA SizedLess ==
  ASSUME HttpIInv, Housed', Http!Open' \subseteq Http!Open, Http!Tasks' \subseteq Http!Tasks
  PROVE  Sized'
<1>1. /\ Cardinality(Http!Open') <= Cardinality(Http!Open)
      /\ Cardinality(Http!Tasks') <= Cardinality(Http!Tasks)
  BY HttpFinite, FS_Subset
<1>2. QED
  BY <1>1, HttpFinite, RemoteAssumption DEF HttpIInv, Sized, Housed

\* One session more, or one task, where there was room for it.
LEMMA SizedMore ==
  ASSUME HttpIInv, Housed',
         \/ Http!Open' \subseteq Http!Open
         \/ Cardinality(Http!Open) < MaxSessions /\ \E s : Http!Open' \subseteq Http!Open \cup {s},
         \/ Http!Tasks' \subseteq Http!Tasks
         \/ Cardinality(Http!Tasks) < MaxDispatch /\ \E c : Http!Tasks' \subseteq Http!Tasks \cup {c}
  PROVE  Sized'
<1>1. ASSUME NEW S, IsFiniteSet(S), Cardinality(S) \in Nat, NEW n \in Nat, Cardinality(S) < n,
             NEW s, NEW T, T \subseteq S \cup {s}
      PROVE  Cardinality(T) <= n
  <2>1. /\ IsFiniteSet(S \cup {s})
        /\ Cardinality(S \cup {s}) = Cardinality(S) \/ Cardinality(S \cup {s}) = Cardinality(S) + 1
    BY <1>1, FS_AddElement
  <2>2. Cardinality(T) <= Cardinality(S \cup {s}) /\ IsFiniteSet(T)
    BY <1>1, <2>1, FS_Subset
  <2>3. Cardinality(T) \in Nat
    BY <2>2, FS_CardinalityType
  <2>4. QED
    BY <1>1, <2>1, <2>2, <2>3
<1>2. Cardinality(Http!Open') <= MaxSessions
  <2>1. CASE Http!Open' \subseteq Http!Open
    <3>1. Cardinality(Http!Open') <= Cardinality(Http!Open)
      BY <2>1, HttpFinite, FS_Subset
    <3>2. QED
      BY <3>1, HttpFinite, RemoteAssumption DEF HttpIInv, Sized
  <2>2. CASE /\ Cardinality(Http!Open) < MaxSessions
             /\ \E s : Http!Open' \subseteq Http!Open \cup {s}
    BY <1>1, <2>2, HttpFinite, RemoteAssumption
  <2>3. QED
    BY <2>1, <2>2
<1>3. Cardinality(Http!Tasks') <= MaxDispatch
  <2>1. CASE Http!Tasks' \subseteq Http!Tasks
    <3>1. Cardinality(Http!Tasks') <= Cardinality(Http!Tasks)
      BY <2>1, HttpFinite, FS_Subset
    <3>2. QED
      BY <3>1, HttpFinite, RemoteAssumption DEF HttpIInv, Sized
  <2>2. CASE /\ Cardinality(Http!Tasks) < MaxDispatch
             /\ \E c : Http!Tasks' \subseteq Http!Tasks \cup {c}
    BY <1>1, <2>2, HttpFinite, RemoteAssumption
  <2>3. QED
    BY <2>1, <2>2
<1>4. QED
  BY <1>2, <1>3 DEF Sized, Housed

\* What a client leaves alone.
LEMMA HttpStays ==
  ASSUME HttpIInv, NEW c \in Accounts
  PROVE  /\ connector = [connector EXCEPT ![c] = connector[c]]
         /\ httpConn = [httpConn EXCEPT ![c] = httpConn[c]]
         /\ httpTask = [httpTask EXCEPT ![c] = httpTask[c]]
         /\ executed = [executed EXCEPT ![c] = executed[c]]
         /\ Asked(connector[c], httpConn[c], httpTask[c], executed[c])
         /\ Served(httpConn[c], httpTask[c], executed[c])
         /\ server = "closed" => httpConn[c] = Http!NoRequest /\ httpTask[c] = Http!NoTask
  BY DEF HttpIInv, HttpTypes, Calls, Quieted

\* The same sessions, and no more tasks than there are.
LEMMA SizedStays ==
  ASSUME HttpIInv, UNCHANGED sessions, NEW c \in Accounts, NEW r,
         httpTask' = [httpTask EXCEPT ![c] = r], r = Http!NoTask \/ httpTask[c] # Http!NoTask
  PROVE  Sized'
<1>1. Http!Open' = Http!Open
  BY DEF Http!Open
<1>2. Http!Tasks' \subseteq Http!Tasks
  BY DEF Http!Tasks, HttpIInv, HttpTypes
<1>3. Housed'
  BY DEF HttpIInv, Sized, Housed
<1>4. QED
  BY <1>1, <1>2, <1>3, SizedLess

\* Execute.
LEMMA HttpExecute ==
  ASSUME HttpIInv, NEW c \in Accounts, Http!Execute(c)
  PROVE  HttpIInv'
<1> DEFINE t == connector[c]
           q == httpConn[c]
           r == httpTask[c]
<1>1. /\ Asked(t, q, r, executed[c]) /\ Served(q, r, executed[c]) /\ Shaped(t) /\ t.pc = "idle"
      /\ server = "closed" => q = Http!NoRequest /\ r = Http!NoTask
  BY HttpStays DEF Http!Execute, Http!At, Asked
<1>2. PICK k, u : /\ k \in Sends /\ u = [Http!Send(c, k) EXCEPT !.answer = None]
                  /\ connector' = [connector EXCEPT ![c] = u]
  BY DEF Http!Execute, Sends
<1>3. Sending(u, k)
  <2>1. Shaped(Http!Send(c, k))
    BY <1>1, SetsOne DEF Http!Send
  <2>2. Http!Send(c, k).pc = "send" /\ Http!Send(c, k).kind = k
    BY <1>1 DEF Http!Send, Shaped
  <2>3. PICK v : v = Http!Send(c, k)
    OBVIOUS
  <2>4. Shaped(v) /\ v.pc = "send" /\ v.kind = k /\ u = [v EXCEPT !.answer = None]
    BY <1>2, <2>1, <2>2, <2>3
  <2>5. Shaped(u) /\ u.pc = "send" /\ u.kind = k /\ u.answer = None
    BY <2>4 DEF Shaped
  <2>6. QED
    BY <2>5 DEF Sending
<1>4. PICK e : /\ executed' = [executed EXCEPT ![c] = e] /\ Unrun(q, r, e)
               /\ Served(q, r, e)
  <2>1. CASE t.answer \in {None, "failed"}
    <3>1. executed' = [executed EXCEPT ![c] = executed[c]]
      BY <2>1, HttpStays DEF Http!Execute
    <3>2. Unrun(q, r, executed[c])
      BY <1>1, <2>1 DEF Asked
    <3>3. QED
      BY <1>1, <3>1, <3>2
  <2>2. CASE t.answer \notin {None, "failed"}
    <3>1. /\ q = Http!NoRequest /\ r = Http!NoTask /\ executed' = [executed EXCEPT ![c] = 0]
      BY <2>2 DEF Http!Execute, Http!Connected, Http!Tasks
    <3>2. Unrun(q, r, 0)
      BY <3>1, RemoteAssumption DEF Unrun, Http!NoRequest
    <3>3. Served(q, r, 0)
      BY <1>1, <3>1 DEF Served
    <3>4. QED
      BY <3>1, <3>2, <3>3
  <2>3. QED
    BY <2>1, <2>2
<1>5. Asked(u, q, r, e)
  BY <1>2, <1>3, <1>4, SendingAsked
<1>6. /\ UNCHANGED <<server, sessions>> /\ httpConn' = [httpConn EXCEPT ![c] = q]
      /\ httpTask' = [httpTask EXCEPT ![c] = r]
  BY HttpStays DEF Http!Execute, Http!serverVars
<1>7. Sized'
  <2>1. Http!Open' = Http!Open /\ Http!Tasks' = Http!Tasks
    BY <1>6 DEF Http!Execute, Http!serverVars, Http!Open, Http!Tasks
  <2>2. Housed'
    BY <1>6 DEF HttpIInv, Sized, Housed
  <2>3. QED
    BY <2>1, <2>2, SizedLess
<1>8. QED
  BY <1>1, <1>2, <1>4, <1>5, <1>6, <1>7, HttpLocal

\* A request arrives.
LEMMA HttpDeliver ==
  ASSUME HttpIInv, NEW c \in Accounts, Http!Deliver(c)
  PROVE  HttpIInv'
<1> DEFINE t == connector[c]
           r == httpTask[c]
           e == executed[c]
<1>1. /\ Asked(t, httpConn[c], r, e) /\ Served(httpConn[c], r, e) /\ Shaped(t) /\ t.pc = "send"
      /\ t.kind \in Sends /\ t.answer = None /\ r = Http!NoTask /\ e = 0
  BY HttpStays DEF Http!Deliver, Http!At, Asked, Unrun
<1>2. PICK q : /\ q.kind = t.kind /\ q # Http!NoRequest
               /\ httpConn' = [httpConn EXCEPT ![c] = q]
  <2>1. PICK v : /\ v = [kind |-> t.kind, sid |-> t.holds, grant |-> httpGrant[c],
                         good |-> token[c] = "good"]
                 /\ httpConn' = [httpConn EXCEPT ![c] = v]
    BY DEF Http!Deliver
  <2>2. v.kind = t.kind
    BY <2>1
  <2>3. Http!NoRequest.kind = None /\ None \notin Sends
    BY RemoteAssumption DEF Http!NoRequest, Sends
  <2>4. QED
    BY <1>1, <2>1, <2>2, <2>3
<1>3. PICK u : u = [t EXCEPT !.pc = "wait"] /\ connector' = [connector EXCEPT ![c] = u]
  BY DEF Http!Deliver
<1>4. Shaped(u) /\ u.pc = "wait" /\ u.kind = t.kind /\ u.answer = None
  BY <1>1, <1>3 DEF Shaped
<1>5. q.kind # "call" => Unrun(q, r, e)
  BY <1>1 DEF Unrun
<1>6. Asked(u, q, r, e)
  BY <1>1, <1>2, <1>4, <1>5, RemoteAssumption DEF Asked
<1>7. Served(q, r, e)
  BY <1>1, <1>2, <1>5 DEF Served
<1>8. /\ server = "up" /\ UNCHANGED <<server, sessions, httpTask, executed>>
      /\ httpTask' = [httpTask EXCEPT ![c] = r] /\ executed' = [executed EXCEPT ![c] = e]
  BY HttpStays DEF Http!Deliver
<1>9. Sized'
  BY <1>1, <1>8, SizedStays
<1>10. QED
  BY <1>2, <1>3, <1>6, <1>7, <1>8, <1>9, HttpLocal

\* A client does something of its own.
LEMMA HttpClient ==
  ASSUME HttpIInv, NEW c \in Accounts, NEW u, connector' = [connector EXCEPT ![c] = u],
         Asked(u, httpConn[c], httpTask[c], executed[c]),
         UNCHANGED <<server, sessions, httpConn, httpTask, executed>>
  PROVE  HttpIInv'
<1>1. /\ httpConn' = [httpConn EXCEPT ![c] = httpConn[c]]
      /\ httpTask' = [httpTask EXCEPT ![c] = httpTask[c]]
      /\ executed' = [executed EXCEPT ![c] = executed[c]]
      /\ Served(httpConn[c], httpTask[c], executed[c])
      /\ server = "closed" => httpConn[c] = Http!NoRequest /\ httpTask[c] = Http!NoTask
  BY HttpStays
<1>2. Http!Open' = Http!Open /\ Http!Tasks' = Http!Tasks
  BY DEF Http!Open, Http!Tasks
<1>3. Housed'
  BY DEF HttpIInv, Sized, Housed
<1>4. Sized'
  BY <1>2, <1>3, SizedLess
<1>5. QED
  BY <1>1, <1>4, HttpLocal

\* A request is lost, or a gateway answers it.
LEMMA HttpLost ==
  ASSUME HttpIInv, NEW c \in Accounts, Http!Lost(c) \/ Http!GatewayRejects(c)
  PROVE  HttpIInv'
<1> DEFINE t == connector[c]
           q == httpConn[c]
           r == httpTask[c]
           e == executed[c]
<1>1. Asked(t, q, r, e)
  BY HttpStays
<1>2. UNCHANGED <<server, sessions, httpConn, httpTask, executed>>
  BY DEF Http!Lost, Http!GatewayRejects, Http!serverVars
<1>3. CASE Http!Lost(c)
  <2>1. connector' = [connector EXCEPT ![c] = Http!Unconfirmed(c)] /\ t.pc \in {"send", "wait"}
    BY <1>3 DEF Http!Lost, Http!At
  <2>2. CASE t.kind = "call" \/ t.expired
    <3>1. Answerable("unknown", q, r, e)
      BY DEF Answerable
    <3>2. Asked(Http!Unconfirmed(c), q, r, e)
      BY <2>2, <3>1, EndsAsked DEF Http!Unconfirmed
    <3>3. QED
      BY <1>2, <2>1, <3>2, HttpClient
  <2>3. CASE ~(t.kind = "call" \/ t.expired)
    <3>1. Answerable("failed", q, r, e)
      BY <1>1, <2>1, <2>3 DEF Answerable, Asked
    <3>2. Asked(Http!Unconfirmed(c), q, r, e)
      BY <2>3, <3>1, EndsAsked DEF Http!Unconfirmed
    <3>3. QED
      BY <1>2, <2>1, <3>2, HttpClient
  <2>4. QED
    BY <2>2, <2>3
<1>4. CASE Http!GatewayRejects(c)
  <2>1. connector' = [connector EXCEPT ![c] = Http!Rejected(c)] /\ t.pc = "send"
    BY <1>4 DEF Http!GatewayRejects, Http!At
  <2>2. Answerable("failed", q, r, e)
    BY <1>1, <2>1 DEF Answerable, Asked
  <2>3. Asked(Http!Rejected(c), q, r, e)
    BY <2>2, EndsAsked DEF Http!Rejected
  <2>4. QED
    BY <1>2, <2>1, <2>3, HttpClient
<1>5. QED
  BY <1>3, <1>4

\* The end of a connection: what is then left is that the call is told the truth.
LEMMA HttpAnswered ==
  ASSUME HttpIInv, NEW c \in Accounts, NEW status, NEW sid, Http!Reply(c, status, sid),
         Http!Connected(c), NEW r, Formed(r), httpTask' = [httpTask EXCEPT ![c] = r],
         UNCHANGED <<server, executed>>, Sized',
         httpConn[c].kind # "call" => r = Http!NoTask,
         status \in {"unauthorized", "expired", "rejected"} => r = Http!NoTask /\ executed[c] = 0,
         httpConn[c].kind = "call" /\ status = "ok" => r = Http!NoTask /\ executed[c] = 1,
         status \in {"unauthorized", "expired", "rejected", "error", "running", "ok"},
         r \in {httpTask[c], Http!NoTask}
  PROVE  HttpIInv'
<1> DEFINE t == connector[c]
           q == httpConn[c]
           e == executed[c]
           n == Http!NoRequest
<1>1. Asked(t, q, httpTask[c], e) /\ Served(q, httpTask[c], e) /\ q # n /\ server # "closed"
  BY HttpStays DEF Http!Connected
<1>2. executed' = [executed EXCEPT ![c] = e]
  BY HttpStays
<1>3. q.kind # "call" => r = Http!NoTask /\ e = 0
  BY <1>1 DEF Served, Unrun
<1>4. n.kind # "call"
  BY RemoteAssumption DEF Http!NoRequest
<1>5. Asked(t, n, r, e)
  <2>1. Unrun(q, httpTask[c], e) => Unrun(n, r, e)
    BY <1>4 DEF Unrun
  <2>2. QED
    BY <1>1, <2>1 DEF Asked
<1>6. /\ httpConn' = [httpConn EXCEPT ![c] = n]
      /\ \E u : Asked(u, n, r, e) /\ connector' = [connector EXCEPT ![c] = u]
  BY <1>3, <1>5, HttpReplies
<1>7. Served(n, r, e)
  BY <1>1, <1>4 DEF Served
<1>8. QED
  BY <1>1, <1>2, <1>6, <1>7, HttpLocal

\* Requests that are not authenticated, and handshakes.
LEMMA HttpHandshakes ==
  ASSUME HttpIInv, NEW c \in Accounts,
         \/ Http!Unauthenticated(c) \/ Http!Initialize(c) \/ Http!Initialized(c)
  PROVE  HttpIInv'
<1> DEFINE q == httpConn[c]
           r == httpTask[c]
           e == executed[c]
<1>1. /\ Asked(connector[c], q, r, e) /\ Served(q, r, e)
      /\ httpTask = [httpTask EXCEPT ![c] = r] /\ Formed(r) /\ r \in {r, Http!NoTask}
  BY HttpStays DEF Served
<1>2. CASE Http!Unauthenticated(c)
  <2>1. /\ Http!Connected(c) /\ r = Http!NoTask /\ UNCHANGED <<server, sessions, httpTask, executed>>
        /\ \E status \in {"error", "unauthorized"} : Http!Reply(c, status, None)
    BY <1>2 DEF Http!Unauthenticated
  <2>2. e = 0 \/ q.kind # "call"
    BY <1>1, <2>1 DEF Served
  <2>3. e = 0
    BY <1>1, <2>1, <2>2 DEF Served, Unrun, Http!Connected
  <2>4. Sized'
    BY <1>1, <2>1, SizedStays
  <2>5. QED
    BY <1>1, <2>1, <2>3, <2>4, HttpAnswered
<1>3. ASSUME q.kind \in {"initialize", "initialized"} PROVE Http!Connected(c) /\ r = Http!NoTask /\ e = 0
  <2>1. q # Http!NoRequest
    BY <1>3, RemoteAssumption DEF Http!NoRequest
  <2>2. QED
    BY <1>1, <1>3, <2>1 DEF Served, Unrun, Http!Connected
<1>4. CASE Http!Initialize(c)
  <2>1. /\ q.kind = "initialize" /\ UNCHANGED <<server, httpTask, executed>>
    BY <1>4 DEF Http!Initialize
  <2>2. PICK status, sid : status \in {"error", "ok"} /\ Http!Reply(c, status, sid)
    BY <1>4 DEF Http!Initialize
  <2>3. Http!Tasks' = Http!Tasks
    BY <2>1 DEF Http!Tasks
  <2>4. Sized'
    <3>1. CASE UNCHANGED sessions
      BY <1>1, <2>1, <3>1, SizedStays
    <3>2. CASE /\ Cardinality(Http!Open) < MaxSessions
               /\ \E s, a : sessions' = [sessions EXCEPT ![s] = a]
      <4>1. PICK s, a : sessions' = [sessions EXCEPT ![s] = a]
        BY <3>2
      <4>2. Housed' /\ Http!Open' \subseteq Http!Open \cup {s}
        BY <4>1 DEF HttpIInv, Sized, Housed, Http!Open
      <4>3. QED
        BY <2>3, <3>2, <4>2, SizedMore
    <3>3. CASE ~(Http!Cardinality(Http!Open) >= MaxSessions)
      <4>1. \E s, a : sessions' = [sessions EXCEPT ![s] = a]
        BY <1>4, <3>3 DEF Http!Initialize
      <4>2. Cardinality(Http!Open) < MaxSessions
        BY <3>3, SameCardinality, HttpFinite, RemoteAssumption
      <4>3. QED
        BY <3>2, <4>1, <4>2
    <3>4. CASE Http!Cardinality(Http!Open) >= MaxSessions
      BY <1>4, <3>1, <3>4 DEF Http!Initialize
    <3>5. QED
      BY <3>3, <3>4
  <2>5. QED
    BY <1>1, <1>3, <2>1, <2>2, <2>4, HttpAnswered
<1>5. CASE Http!Initialized(c)
  <2>1. /\ q.kind = "initialized" /\ UNCHANGED <<server, httpTask, executed>>
    BY <1>5 DEF Http!Initialized
  <2>2. PICK status \in {"expired", "ok"} : Http!Reply(c, status, None)
    BY <1>5 DEF Http!Initialized
  <2>3. Http!Tasks' = Http!Tasks
    BY <2>1 DEF Http!Tasks
  <2>4. Sized'
    <3>1. CASE UNCHANGED sessions
      BY <1>1, <2>1, <3>1, SizedStays
    <3>2. CASE /\ Http!Usable(q.sid, c, httpGrant[c])
               /\ sessions' = [sessions EXCEPT ![q.sid].ready = TRUE]
      <4>1. Housed' /\ Http!Open' \subseteq Http!Open
        BY <3>2 DEF HttpIInv, Sized, Housed, Http!Open, Http!Usable
      <4>2. QED
        BY <2>3, <4>1, SizedLess
    <3>3. QED
      BY <1>5, <3>1, <3>2 DEF Http!Initialized
  <2>5. QED
    BY <1>1, <1>3, <2>1, <2>2, <2>4, HttpAnswered
<1>6. QED
  BY <1>2, <1>4, <1>5

\* A call gets its task.
LEMMA HttpAdmit ==
  ASSUME HttpIInv, NEW c \in Accounts, Http!Admit(c)
  PROVE  HttpIInv'
<1> DEFINE t == connector[c]
           q == httpConn[c]
           e == executed[c]
<1>1. /\ Asked(t, q, httpTask[c], e) /\ Served(q, httpTask[c], e)
      /\ q.kind = "call" /\ httpTask[c] = Http!NoTask
      /\ UNCHANGED <<server, sessions, executed>>
      /\ httpTask = [httpTask EXCEPT ![c] = httpTask[c]]
      /\ httpConn = [httpConn EXCEPT ![c] = q] /\ connector = [connector EXCEPT ![c] = t]
      /\ executed = [executed EXCEPT ![c] = e]
      /\ server = "closed" => q = Http!NoRequest
  BY HttpStays DEF Http!Admit
<1>2. q # Http!NoRequest /\ e = 0 /\ Http!Connected(c)
  BY <1>1, RemoteAssumption DEF Served, Http!NoRequest, Http!Connected
<1>3. Formed(Http!NoTask)
  BY DEF Formed, Http!NoTask
<1>4. CASE Http!Cardinality(Http!Tasks) >= MaxDispatch
  <2>1. Http!Reply(c, "error", None) /\ UNCHANGED httpTask
    BY <1>4 DEF Http!Admit
  <2>2. Sized'
    BY <1>1, <2>1, SizedStays
  <2>3. QED
    BY <1>1, <1>2, <1>3, <2>1, <2>2, HttpAnswered
<1>5. CASE ~(Http!Cardinality(Http!Tasks) >= MaxDispatch)
  <2>1. PICK r : /\ r = [pc |-> "begin", sid |-> q.sid, grant |-> httpGrant[c]]
                 /\ httpTask' = [httpTask EXCEPT ![c] = r]
    BY <1>5 DEF Http!Admit
  <2>2. Formed(r) /\ r.pc = "begin"
    BY <2>1 DEF Formed
  <2>3. UNCHANGED <<httpConn, connector>>
    BY <1>5 DEF Http!Admit
  <2>4. Cardinality(Http!Tasks) < MaxDispatch
    BY <1>5, SameCardinality, HttpFinite, RemoteAssumption
  <2>5. Sized'
    <3>1. Http!Open' = Http!Open /\ Housed'
      BY <1>1 DEF Http!Open, HttpIInv, Sized, Housed
    <3>2. Http!Tasks' \subseteq Http!Tasks \cup {c}
      BY <2>1 DEF Http!Tasks, HttpIInv, HttpTypes
    <3>3. QED
      BY <2>4, <3>1, <3>2, SizedMore
  <2>6. Asked(t, q, r, e)
    BY <1>1, <1>2 DEF Asked, Unrun
  <2>7. Served(q, r, e)
    BY <1>1, <1>2, <2>2 DEF Served
  <2>8. /\ connector' = [connector EXCEPT ![c] = t] /\ httpConn' = [httpConn EXCEPT ![c] = q]
        /\ executed' = [executed EXCEPT ![c] = e] /\ server # "closed"
    BY <1>1, <1>2, <2>3
  <2>9. QED
    BY <1>1, <2>1, <2>5, <2>6, <2>7, <2>8, HttpLocal
<1>6. QED
  BY <1>4, <1>5

\* The end of a task.
LEMMA HttpDone ==
  ASSUME HttpIInv, NEW c \in Accounts, NEW status, Http!Done(c, status),
         httpTask[c] # Http!NoTask, UNCHANGED <<server, sessions, executed>>,
         status \in {"expired", "rejected"} => executed[c] = 0,
         status = "ok" => executed[c] = 1,
         status \in {"expired", "rejected", "error", "ok"}
  PROVE  HttpIInv'
<1> DEFINE t == connector[c]
           q == httpConn[c]
           e == executed[c]
           n == Http!NoTask
<1>1. /\ Asked(t, q, httpTask[c], e) /\ Served(q, httpTask[c], e)
      /\ httpConn = [httpConn EXCEPT ![c] = q] /\ connector = [connector EXCEPT ![c] = t]
      /\ executed = [executed EXCEPT ![c] = e]
      /\ httpTask' = [httpTask EXCEPT ![c] = n]
  BY HttpStays DEF Http!Done
<1>2. Formed(n)
  BY DEF Formed, Http!NoTask
<1>3. Sized'
  BY <1>1, SizedStays
<1>4. CASE Http!Connected(c)
  <2>1. Http!Reply(c, status, None)
    BY <1>4 DEF Http!Done
  <2>2. QED
    BY <1>1, <1>2, <1>3, <1>4, <2>1, HttpAnswered
<1>5. CASE ~Http!Connected(c)
  <2>1. UNCHANGED <<httpConn, connector>> /\ q = Http!NoRequest
    BY <1>5 DEF Http!Done, Http!Connected
  <2>2. Asked(t, q, n, e)
    BY <1>1, <2>1 DEF Asked, Unrun
  <2>3. q.kind # "call"
    BY <2>1, RemoteAssumption DEF Http!NoRequest
  <2>4. Served(q, n, e)
    BY <1>1, <1>2, <2>1, <2>3 DEF Served
  <2>5. QED
    BY <1>1, <1>3, <2>1, <2>2, <2>4, HttpLocal
<1>6. QED
  BY <1>4, <1>5

\* A task goes on, to its catalog or to the engine.
LEMMA HttpGoesOn ==
  ASSUME HttpIInv, NEW c \in Accounts, NEW p \in {"catalog", "execute"}, NEW e,
         httpTask' = [httpTask EXCEPT ![c].pc = p], executed' = [executed EXCEPT ![c] = e],
         e = IF p = "execute" THEN 1 ELSE 0, httpTask[c] # Http!NoTask,
         UNCHANGED <<server, sessions, httpConn, connector>>
  PROVE  HttpIInv'
<1> DEFINE t == connector[c]
           q == httpConn[c]
<1>1. PICK r : r = [httpTask[c] EXCEPT !.pc = p] /\ httpTask' = [httpTask EXCEPT ![c] = r]
  OBVIOUS
<1>2. /\ Asked(t, q, httpTask[c], executed[c]) /\ Served(q, httpTask[c], executed[c])
      /\ httpConn' = [httpConn EXCEPT ![c] = q] /\ connector' = [connector EXCEPT ![c] = t]
      /\ server = "closed" => httpTask[c] = Http!NoTask
  BY HttpStays
<1>3. Formed(r) /\ r.pc = p
  BY <1>1, <1>2 DEF Formed, Served
<1>4. r # Http!NoTask
  BY <1>3 DEF Http!NoTask
<1>5. Asked(t, q, r, e)
  BY <1>2 DEF Asked, Unrun
<1>6. Served(q, r, e)
  <2>1. e \in {0, 1} /\ e = IF r.pc = "execute" THEN 1 ELSE 0
    BY <1>3
  <2>2. q # Http!NoRequest => q.kind \in Sends /\ q.kind = "call"
    BY <1>2 DEF Served, Unrun
  <2>3. QED
    BY <1>3, <1>4, <2>1, <2>2 DEF Served
<1>7. Sized'
  BY <1>1, SizedStays
<1>8. QED
  BY <1>1, <1>2, <1>5, <1>6, <1>7, HttpLocal

\* What a task comes to.
LEMMA HttpTasked ==
  ASSUME HttpIInv, NEW c \in Accounts,
         \/ Http!Begin(c) \/ Http!Unlisted(c) \/ Http!Dispatches(c) \/ Http!Executed(c)
         \/ Http!Receipt(c)
  PROVE  HttpIInv'
<1> DEFINE r == httpTask[c]
           e == executed[c]
<1>1. Served(httpConn[c], r, e) /\ executed = [executed EXCEPT ![c] = e]
  BY HttpStays
<1>2. ASSUME r.pc \in {"begin", "catalog", "execute"} PROVE r # Http!NoTask
  BY <1>2 DEF Http!NoTask
<1>3. CASE Http!Begin(c)
  <2>1. r # Http!NoTask /\ e = 0 /\ UNCHANGED <<server, sessions, executed>>
    BY <1>1, <1>2, <1>3 DEF Http!Begin, Served
  <2>2. CASE \E status \in {"expired", "rejected"} : Http!Done(c, status)
    BY <2>1, <2>2, HttpDone
  <2>3. CASE /\ httpTask' = [httpTask EXCEPT ![c].pc = "catalog"]
             /\ UNCHANGED <<httpConn, connector, token>>
    BY <1>1, <2>1, <2>3, HttpGoesOn
  <2>4. QED
    BY <1>3, <2>2, <2>3 DEF Http!Begin
<1>4. CASE Http!Unlisted(c)
  <2>1. r # Http!NoTask /\ e = 0 /\ UNCHANGED <<server, sessions, executed>>
    BY <1>1, <1>2, <1>4 DEF Http!Unlisted, Served
  <2>2. \E status \in {"error", "rejected"} : Http!Done(c, status)
    BY <1>4 DEF Http!Unlisted
  <2>3. QED
    BY <2>1, <2>2, HttpDone
<1>5. CASE Http!Dispatches(c)
  <2>1. r # Http!NoTask /\ e = 0 /\ UNCHANGED <<server, sessions>>
    BY <1>1, <1>2, <1>5 DEF Http!Dispatches, Served
  <2>2. CASE Http!Done(c, "error") /\ UNCHANGED executed
    BY <2>1, <2>2, HttpDone
  <2>3. CASE /\ executed' = [executed EXCEPT ![c] = @ + 1]
             /\ httpTask' = [httpTask EXCEPT ![c].pc = "execute"]
             /\ UNCHANGED <<httpConn, connector, token>>
    <3>1. executed' = [executed EXCEPT ![c] = 1]
      BY <2>1, <2>3
    <3>2. QED
      BY <2>1, <2>3, <3>1, HttpGoesOn
  <2>4. QED
    BY <1>5, <2>2, <2>3 DEF Http!Dispatches
<1>6. CASE Http!Executed(c)
  <2>1. r # Http!NoTask /\ e = 1 /\ UNCHANGED <<server, sessions, executed>>
    BY <1>1, <1>2, <1>6 DEF Http!Executed, Served
  <2>2. \E status \in {"error", "ok"} : Http!Done(c, status)
    BY <1>6 DEF Http!Executed
  <2>3. QED
    BY <2>1, <2>2, HttpDone
<1>7. CASE Http!Receipt(c)
  <2>1. /\ Http!Connected(c) /\ Http!Reply(c, "running", None) /\ r # Http!NoTask
        /\ UNCHANGED <<server, sessions, httpTask, executed>>
    BY <1>7 DEF Http!Receipt, Http!Tasks
  <2>2. httpTask' = [httpTask EXCEPT ![c] = r]
    BY <2>1, HttpStays
  <2>3. Sized'
    BY <2>1, <2>2, SizedStays
  <2>4. httpConn[c].kind = "call" /\ Formed(r)
    BY <1>1, <2>1 DEF Served, Unrun, Http!Connected
  <2>5. QED
    BY <2>1, <2>2, <2>3, <2>4, HttpAnswered
<1>8. QED
  BY <1>3, <1>4, <1>5, <1>6, <1>7

\* The service ends or starts, and its sessions lapse.
LEMMA HttpHost ==
  ASSUME HttpIInv,
         \/ Http!Close \/ Http!Closed \/ Http!Killed \/ Http!Start
         \/ \E s \in Sid : Http!SessionLapses(s)
  PROVE  HttpIInv'
<1> DEFINE q == Http!NoRequest
           r == Http!NoTask
<1>1. UNCHANGED <<connector, executed>>
  BY DEF Http!Close, Http!Closed, Http!Killed, Http!Start, Http!SessionLapses, Http!environment
<1>2. CASE Http!Killed
  <2>1. /\ httpConn' = [c \in Accounts |-> q] /\ httpTask' = [c \in Accounts |-> r]
        /\ sessions' = [s \in Sid |-> Http!NoSession]
    BY <1>2 DEF Http!Killed
  <2>2. HttpTypes'
    BY <1>1, <2>1 DEF HttpIInv, HttpTypes
  <2>3. Calls'
    <3>1. SUFFICES ASSUME NEW c \in Accounts
                   PROVE  /\ Asked(connector[c], q, r, executed[c])
                          /\ Served(q, r, executed[c])
      BY <1>1, <2>1 DEF Calls
    <3>2. /\ Asked(connector[c], httpConn[c], httpTask[c], executed[c])
          /\ Served(httpConn[c], httpTask[c], executed[c])
      BY HttpStays
    <3>3. q.kind # "call" /\ Formed(r)
      BY RemoteAssumption DEF Http!NoRequest, Http!NoTask, Formed
    <3>4. Asked(connector[c], q, r, executed[c])
      BY <3>2, <3>3 DEF Asked, Unrun
    <3>5. Served(q, r, executed[c])
      BY <3>2, <3>3 DEF Served
    <3>6. QED
      BY <3>4, <3>5
  <2>4. Quieted'
    BY <2>1 DEF Quieted
  <2>5. Sized'
    <3>1. Http!Open' \subseteq Http!Open /\ Http!Tasks' \subseteq Http!Tasks /\ Housed'
      BY <2>1 DEF Http!Open, Http!Tasks, Housed
    <3>2. QED
      BY <3>1, SizedLess
  <2>6. QED
    BY <2>2, <2>3, <2>4, <2>5 DEF HttpIInv
<1>3. CASE ~Http!Killed
  <2>1. UNCHANGED <<httpConn, httpTask>>
    BY <1>3 DEF Http!Close, Http!Closed, Http!Start, Http!SessionLapses
  <2>2. HttpTypes' /\ Calls'
    BY <1>1, <2>1 DEF HttpIInv, HttpTypes, Calls
  <2>3. Quieted'
    <3>1. ASSUME Http!Closed, NEW c \in Accounts PROVE httpConn[c] = q /\ httpTask[c] = r
      BY <3>1 DEF Http!Closed, Http!Connected, Http!Tasks
    <3>2. Http!Closed \/ server' # "closed" \/ server' = server
      BY <1>3 DEF Http!Close, Http!Start, Http!SessionLapses
    <3>3. QED
      BY <2>1, <3>1, <3>2 DEF HttpIInv, Quieted
  <2>4. Http!Tasks' \subseteq Http!Tasks
    BY <2>1 DEF Http!Tasks
  <2>5. Housed' /\ Http!Open' \subseteq Http!Open
    <3>1. CASE UNCHANGED sessions
      BY <3>1 DEF HttpIInv, Sized, Housed, Http!Open
    <3>2. CASE sessions' = [s \in Sid |-> Http!NoSession]
      BY <3>2 DEF Housed, Http!Open
    <3>3. CASE \E s \in Sid : sessions' = [sessions EXCEPT ![s] = Http!NoSession]
      BY <3>3 DEF HttpIInv, Sized, Housed, Http!Open
    <3>4. QED
      BY <1>3, <3>1, <3>2, <3>3 DEF Http!Close, Http!Closed, Http!Start, Http!SessionLapses
  <2>6. Sized'
    BY <2>4, <2>5, SizedLess
  <2>7. QED
    BY <2>2, <2>3, <2>6 DEF HttpIInv
<1>4. QED
  BY <1>2, <1>3

\* Tokens and grants are no part of it.
LEMMA HttpSame ==
  ASSUME HttpIInv, UNCHANGED <<server, sessions, httpConn, httpTask, connector, executed>>
  PROVE  HttpIInv'
<1>1. HttpTypes' /\ Calls' /\ Quieted'
  BY DEF HttpIInv, HttpTypes, Calls, Quieted
<1>2. Http!Open' = Http!Open /\ Http!Tasks' = Http!Tasks /\ Housed'
  BY DEF Http!Open, Http!Tasks, HttpIInv, Sized, Housed
<1>3. Sized'
  BY <1>2, SizedLess
<1>4. QED
  BY <1>1, <1>3 DEF HttpIInv

\* Nothing is asked for at first.
LEMMA HttpStart == Http!HttpInit => HttpIInv
<1> SUFFICES ASSUME Http!HttpInit PROVE HttpIInv
  OBVIOUS
<1>1. HttpTypes /\ Housed
  BY DEF Http!HttpInit, HttpTypes, Housed
<1>2. Calls
  <2>1. SUFFICES ASSUME NEW c \in Accounts
                 PROVE  /\ Asked(Http!Resting, Http!NoRequest, Http!NoTask, 0)
                        /\ Served(Http!NoRequest, Http!NoTask, 0)
    BY DEF Http!HttpInit, Calls
  <2>2. Http!NoRequest.kind = None /\ None # "call" /\ None # "completed"
    BY RemoteAssumption DEF Http!NoRequest
  <2>3. Unrun(Http!NoRequest, Http!NoTask, 0)
    BY <2>2 DEF Unrun
  <2>4. /\ Shaped(Http!Resting) /\ Http!Resting.pc = "idle" /\ Http!Resting.answer = None
        /\ Formed(Http!NoTask)
    BY DEF Shaped, Formed, Http!Resting, Http!NoTask
  <2>5. Asked(Http!Resting, Http!NoRequest, Http!NoTask, 0)
    BY <2>2, <2>3, <2>4 DEF Asked
  <2>6. Served(Http!NoRequest, Http!NoTask, 0)
    BY <2>2, <2>4 DEF Served
  <2>7. QED
    BY <2>5, <2>6
<1>3. Quieted
  BY DEF Http!HttpInit, Quieted
<1>4. Sized
  <2>1. Http!Open = {} /\ Http!Tasks = {}
    BY DEF Http!HttpInit, Http!Open, Http!Tasks
  <2>2. QED
    BY <1>1, <2>1, FS_EmptySet, RemoteAssumption DEF Sized
<1>5. QED
  BY <1>1, <1>2, <1>3, <1>4 DEF HttpIInv

\* Every step of the service and its connectors.
LEMMA HttpStep == HttpIInv /\ (Http!HttpNext \/ UNCHANGED httpVars) => HttpIInv'
<1> SUFFICES ASSUME HttpIInv, Http!HttpNext \/ UNCHANGED httpVars PROVE HttpIInv'
  OBVIOUS
<1>1. CASE UNCHANGED httpVars
  BY <1>1, HttpSame DEF httpVars
<1>2. ASSUME NEW c \in Accounts,
             \/ Http!Execute(c) \/ Http!Deliver(c) \/ Http!Lost(c) \/ Http!GatewayRejects(c)
             \/ Http!Unauthenticated(c) \/ Http!Initialize(c) \/ Http!Initialized(c)
             \/ Http!Admit(c) \/ Http!Begin(c) \/ Http!Unlisted(c) \/ Http!Dispatches(c)
             \/ Http!Executed(c) \/ Http!Receipt(c)
      PROVE  HttpIInv'
  BY <1>2, HttpExecute, HttpDeliver, HttpLost, HttpHandshakes, HttpAdmit, HttpTasked
<1>3. ASSUME NEW c \in Accounts,
             Http!TokenLapses(c) \/ Http!Revoked(c) \/ Http!LogsIn(c)
      PROVE  HttpIInv'
  BY <1>3, HttpSame DEF Http!TokenLapses, Http!Revoked, Http!LogsIn, Http!serverVars
<1>4. QED
  BY <1>1, <1>2, <1>3, HttpHost DEF Http!HttpNext

\* What the service promises.
LEMMA HttpKeeps == HttpIInv => Http!RejectedUnrun /\ Http!HttpBounded
<1> SUFFICES ASSUME HttpIInv PROVE Http!RejectedUnrun /\ Http!HttpBounded
  OBVIOUS
<1>1. Http!RejectedUnrun
  <2>1. SUFFICES ASSUME NEW c \in Accounts
                 PROVE  /\ connector[c].answer = "failed" => executed[c] = 0
                        /\ connector[c].answer = "completed" => executed[c] = 1
                        /\ executed[c] <= 1
    BY DEF Http!RejectedUnrun
  <2>2. QED
    BY HttpStays, RemoteAssumption DEF Asked, Served, Unrun
<1>2. Http!HttpBounded
  BY SameCardinality DEF HttpIInv, Quieted, Sized, Http!HttpBounded, Http!Tasks
<1>3. QED
  BY <1>1, <1>2
-----------------------------------------------------------------------------
(* The parts together.                                                     *)

partVars == <<part, remoteVars, hostVars>>

RemoteIInv ==
    /\ EnrollIInv /\ RelayIInv /\ RouterIInv /\ LedgerIInv /\ ChildIInv
    /\ EngineIInv /\ StartupIInv /\ HttpIInv /\ Resumes

\* Each part starts in its own initial state.
LEMMA RemoteStart == PartInit => RemoteIInv
BY EnrollStart, EnrollNoRow, RelayStart, RouterStart, LedgerStart, ChildStart, EngineStart, StartupStart,
   HttpStart
DEF PartInit, RemoteIInv

\* A step of one part leaves the others as they are.
LEMMA RemoteSteps ==
  ASSUME [PartNext]_partVars
  PROVE  /\ [Next]_vars /\ (Relay!Next \/ UNCHANGED relayVars) /\ [Router!Next]_routerVars
         /\ (Delegated!Next \/ UNCHANGED opVars) /\ (Child!DelegatedNext \/ UNCHANGED childVars)
         /\ (Migrating!MigrationNext \/ UNCHANGED engineVars)
         /\ [Registered!StartupNext]_jobVars /\ (Http!HttpNext \/ UNCHANGED httpVars)
<1>1. CASE UNCHANGED partVars
  BY <1>1 DEF partVars, remoteVars, hostVars
<1>2. CASE RemoteNext
  BY <1>2 DEF RemoteNext, EnrollmentNext, RelayNext, hostVars
<1>3. CASE HostNext
  BY <1>3 DEF HostNext, ServiceNext, remoteVars
<1>4. QED
  BY <1>1, <1>2, <1>3 DEF PartNext

\* So each keeps its invariant.
LEMMA RemoteStep ==
  ASSUME RemoteIInv, [PartNext]_partVars
  PROVE  RemoteIInv'
<1>1. EnrollIInv' /\ RouterIInv' /\ StartupIInv'
  BY RemoteSteps, EnrollStep, RouterStep, StartupStep DEF RemoteIInv
<1>2. RelayIInv' /\ LedgerIInv' /\ ChildIInv'
  BY RemoteSteps, RelayStep, LedgerStep, ChildStep DEF RemoteIInv
<1>3. EngineIInv' /\ HttpIInv'
  BY RemoteSteps, EngineStep, HttpStep DEF RemoteIInv
<1>4. Resumes'
  BY RemoteSteps, EnrollResumes DEF RemoteIInv
<1>5. QED
  BY <1>1, <1>2, <1>3, <1>4 DEF RemoteIInv

\* In every state of every part.
LEMMA RemoteInvariant == PartSpec => []RemoteIInv
BY RemoteStart, RemoteStep, PTL DEF PartSpec, partVars

\* Nobody reads a success that did not happen or an outcome that is unknown as a failure,
\* through the relay or over HTTP with requests repeated, lost and answered by a gateway;
\* after a migration or a refused one every row is in the database that is opened; and a
\* child's receipts are what the file and the ledger say.
THEOREM RemoteRecordsTrue == PartSpec => []RecordsTrue
<1>1. RemoteIInv => RecordsTrue
  BY RelayKeeps, HttpKeeps, EngineShows, ChildKeeps DEF RemoteIInv, RecordsTrue
<1>2. QED
  BY <1>1, RemoteInvariant, PTL

\* A device has one open channel, its current one, both services open one engine, a service
\* that has closed is quiet and keeps no more than it may, and what a grant allowed ends
\* with it; and a computer is registered once, where the exchange binds an attempt to its
\* endpoint.
THEOREM RemoteOneCurrent ==
  ASSUME Binds = TRUE
  PROVE  PartSpec => []OneCurrent
<1>1. RemoteIInv => OneCurrent
  BY EnrollOne, RelayKeeps, HttpKeeps, EngineShows, ChildKeeps DEF RemoteIInv, OneCurrent
<1>2. QED
  BY <1>1, RemoteInvariant, PTL

\* No call runs twice, through the router, by the ledger or of a delegated child, and no
\* startup job is left that nobody owns.
THEOREM RemoteOnceAndOwned == PartSpec => []OnceAndOwned
<1>1. RemoteIInv => OnceAndOwned
  BY RouterKeeps, LedgerKeeps, ChildKeeps DEF RemoteIInv, OnceAndOwned, StartupIInv
<1>2. QED
  BY <1>1, RemoteInvariant, PTL

\* A saved grant is deleted only from a recorded recovery slot after the receipt was saved,
\* so that the saved row's grant is always the one in the first slot; and a startup file or
\* job of somebody else's stays, but for one that came between a command's last look and the
\* step it looked for.
THEOREM RemoteOthersKept == PartSpec => OthersKept
<1>1. ASSUME RemoteIInv, [PartNext]_partVars
      PROVE  [\A s \in Slots : vault[s] # None /\ vault'[s] # vault[s] =>
                 /\ vault'[s] = None
                 /\ \E i \in DOMAIN slots : slots[i] = s
                 /\ reg # None /\ reg.device # None]_vars
  BY <1>1, RemoteSteps, EnrollStep DEF RemoteIInv
<1>2. ASSUME RemoteIInv, [PartNext]_partVars
      PROVE  [/\ file = Registered!Other /\ file' # Registered!Other => command.late
              /\ job.of = Registered!Other /\ job' # job => command.late]_(Registered!startupVars)
  BY <1>2, RemoteSteps, StartupSpares DEF RemoteIInv
<1>3. RemoteIInv => Resumable
  BY EnrollmentAssumption DEF RemoteIInv, Resumes, Resumable
<1>4. QED
  BY <1>1, <1>2, <1>3, RemoteInvariant, PTL
  DEF PartSpec, partVars, OthersKept, GrantKept, Registered!OthersKept

\* The relay and the HTTP service alone, not held to one caller or one fault.
THEOREM RelayHonest == Relay!Spec => [](Relay!OutcomeHonest /\ Relay!OpenIsCurrent)
<1>1. RelayIInv /\ [Relay!Next]_(Relay!vars) => RelayIInv'
  BY RelayStep DEF Relay!vars, relayVars
<1>2. QED
  BY <1>1, RelayStart, RelayKeeps, PTL DEF Relay!Spec

\* A call that is answered as failed never runs, whatever is repeated runs once, and a
\* service that has closed is quiet.
THEOREM HttpHonest == Http!HttpSpec => [](Http!RejectedUnrun /\ Http!HttpBounded)
<1>1. HttpIInv /\ [Http!HttpNext]_(Http!httpVars) => HttpIInv'
  BY HttpStep DEF Http!httpVars, Http!serverVars, Http!environment, httpVars
<1>2. QED
  BY <1>1, HttpStart, HttpKeeps, PTL DEF Http!HttpSpec
=============================================================================
