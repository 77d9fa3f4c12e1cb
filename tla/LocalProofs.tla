------------------------------ MODULE LocalProofs ------------------------------
EXTENDS MCLocal, FiniteSetTheorems, WellFoundedInduction, TLAPS

\* The parts count as everybody does.
LEMMA OneCardinality ==
  ASSUME NEW S
  PROVE  /\ Plugin!Cardinality(S) = Cardinality(S)
         /\ Direct!Cardinality(S) = Cardinality(S)
         /\ Terminal!Cardinality(S) = Cardinality(S)
         /\ Gateway!Cardinality(S) = Cardinality(S)
         /\ Controller!Cardinality(S) = Cardinality(S)
         /\ Remote!Cardinality(S) = Cardinality(S)
  BY DEF Cardinality, Plugin!Cardinality, Direct!Cardinality, Terminal!Cardinality,
         Gateway!Cardinality, Controller!Cardinality, Remote!Cardinality

-----------------------------------------------------------------------------
(* Plugin sessions. *)

Stale == {"unusable", "expired", "closed"}
PluginUsers == {"call", "send", "status", "sweep", "stop"}
PluginHold == [at : {"free", "retiring", "opening", "checking", "calling"},
               by : {"nobody", "open", "failure", "close", "sweep", "call", "send",
                     "status", "stop"}]

PluginTypes ==
    /\ shut \in BOOLEAN /\ shutdown \in Nat
    /\ state \in [Plugin!Sessions -> {"none", "opening", "open"} \cup Stale]
    /\ confirmed \in [Plugin!Sessions -> BOOLEAN]
    /\ alive \in [Plugin!Sessions -> BOOLEAN]
    /\ busy \in [Plugin!Sessions -> BOOLEAN]
    /\ background \in [Plugin!Sessions -> BOOLEAN]
    /\ holder \in [Plugin!Sessions -> PluginHold]

\* What the record of a session says of it: it was told to end before it is
\* known to have ended, and whoever holds it knows its state.
PluginStates == \A s \in Plugin!Sessions :
    /\ alive[s] => state[s] # "none" /\ ~confirmed[s]
    /\ confirmed[s] => state[s] \in Stale
    /\ holder[s].at = "opening" => state[s] = "opening"
    /\ holder[s].at = "retiring" => state[s] \in Stale
    /\ holder[s].at \in {"checking", "calling"} => state[s] = "open"
    /\ holder[s].at = "checking" => holder[s].by \in PluginUsers

\* Sessions are entered in their order, and close() is done with those up to
\* shutdown.
PluginClosing == \A s \in Plugin!Sessions :
    /\ state[s] # "none" => 1 .. s - 1 \subseteq Plugin!Entered
    /\ s <= shutdown => state[s] \notin {"opening", "open"}
    /\ holder[s].by = "close" =>
          shut /\ holder[s].at = "retiring" /\ s = shutdown + 1

\* Nothing is shut down before close().
PluginShut == \A s \in Plugin!Sessions : s <= shutdown => shut

\* Work in the background is known as such before it begins.
PluginWork ==
    /\ ended = {}
    /\ \A s \in Plugin!Sessions :
          /\ state[s] = "open" /\ busy[s] => background[s]
          /\ state[s] \in {"none", "opening"} => ~busy[s]
          /\ holder[s].at = "calling" /\ holder[s].by = "send" => background[s]

Unconfirmed == {s \in Plugin!Entered : ~confirmed[s]}

PluginIInv ==
    /\ PluginTypes /\ PluginStates /\ PluginClosing /\ PluginShut /\ PluginWork
    /\ Cardinality(Unconfirmed) <= PluginRoom

\* There are finitely many sessions.
LEMMA PluginFinite ==
  /\ IsFiniteSet(Plugin!Sessions)
  /\ \A S \in SUBSET Plugin!Sessions : IsFiniteSet(S) /\ Cardinality(S) \in Nat
<1>1. IsFiniteSet(Plugin!Sessions)
  <2>1. 1 \in Int /\ PluginOpened \in Int
    BY LocalAssumption
  <2>2. IsFiniteSet(1 .. PluginOpened)
    BY <2>1, FS_Interval
  <2>3. QED
    BY <2>2 DEF Plugin!Sessions
<1>2. QED
  BY <1>1, FS_Subset, FS_CardinalityType

\* No session.
LEMMA PluginStart == Plugin!PluginInit => PluginIInv
<1> SUFFICES ASSUME Plugin!PluginInit PROVE PluginIInv
  OBVIOUS
<1>1. PluginTypes
  BY DEF Plugin!PluginInit, PluginTypes, PluginHold, Plugin!Free
<1>2. PluginStates /\ PluginWork
  BY DEF Plugin!PluginInit, PluginStates, PluginWork, Plugin!Free
<1>3. PluginClosing /\ PluginShut
  BY LocalAssumption
  DEF Plugin!PluginInit, PluginClosing, PluginShut, Plugin!Free, Plugin!Sessions, Stale
<1>4. Cardinality(Unconfirmed) <= PluginRoom
  <2>1. Unconfirmed = {}
    BY DEF Unconfirmed, Plugin!Entered, Plugin!PluginInit
  <2>2. QED
    BY <2>1, FS_EmptySet, LocalAssumption
<1>5. QED
  BY <1>1, <1>2, <1>3, <1>4 DEF PluginIInv

\* Nothing that stays unconfirmed is added: the pool is no fuller.
LEMMA NoFuller ==
  ASSUME PluginIInv, Unconfirmed' \subseteq Unconfirmed
  PROVE  Cardinality(Unconfirmed') <= PluginRoom
<1>1. Unconfirmed \in SUBSET Plugin!Sessions
  BY DEF Unconfirmed, Plugin!Entered
<1>2. Cardinality(Unconfirmed') <= Cardinality(Unconfirmed)
  BY <1>1, PluginFinite, FS_Subset
<1>3. Cardinality(Unconfirmed) \in Nat /\ Cardinality(Unconfirmed') \in Nat
  BY <1>1, PluginFinite
<1>4. QED
  BY <1>2, <1>3, LocalAssumption DEF PluginIInv

\* _retire, of a session that nobody else is retiring: nothing known to go on
\* is ended, but by close() or with its process.
LEMMA PluginRetires ==
  ASSUME PluginIInv, NEW s \in Plugin!Sessions, NEW as \in Stale,
         NEW by \in {"failure", "close", "sweep", "call", "send", "status", "stop"},
         Plugin!Retire(s, as, by),
         state[s] # "none", holder[s].at # "retiring",
         by = "close" => shut /\ s = shutdown + 1,
         state[s] = "open" /\ busy[s] => as = "unusable" \/ by = "close"
  PROVE  PluginIInv'
<1>0. /\ state' = [state EXCEPT ![s] = as]
      /\ holder' = [holder EXCEPT ![s] = [at |-> "retiring", by |-> by]]
      /\ background' = [background EXCEPT ![s] = FALSE]
      /\ ended' = ended
      /\ UNCHANGED <<shut, shutdown, confirmed, alive, busy>>
  BY DEF Plugin!Retire, Plugin!Hold
<1>1. PluginTypes'
  BY <1>0 DEF PluginIInv, PluginTypes, PluginHold
<1>2. \A t \in Plugin!Sessions : t # s =>
         state'[t] = state[t] /\ holder'[t] = holder[t] /\ background'[t] = background[t]
  BY <1>0 DEF PluginIInv, PluginTypes
<1>3. /\ state'[s] = as /\ as # "none" /\ as # "opening" /\ as # "open"
      /\ holder'[s].at = "retiring" /\ holder'[s].by = by
  BY <1>0 DEF PluginIInv, PluginTypes, Stale
<1>4. Plugin!Entered' = Plugin!Entered
  BY <1>2, <1>3 DEF Plugin!Entered
<1>5. PluginStates'
  <2>1. ASSUME NEW t \in Plugin!Sessions
        PROVE  /\ alive'[t] => state'[t] # "none" /\ ~confirmed'[t]
               /\ confirmed'[t] => state'[t] \in Stale
    <3>1. /\ alive[t] => state[t] # "none" /\ ~confirmed[t]
          /\ confirmed[t] => state[t] \in Stale
      BY DEF PluginIInv, PluginStates
    <3>2. CASE t = s
      BY <1>0, <1>3, <3>1, <3>2
    <3>3. CASE t # s
      BY <1>0, <1>2, <3>1, <3>3
    <3>4. QED
      BY <3>2, <3>3
  <2>2. \A t \in Plugin!Sessions :
          /\ holder'[t].at = "opening" => state'[t] = "opening"
          /\ holder'[t].at = "retiring" => state'[t] \in Stale
          /\ holder'[t].at \in {"checking", "calling"} => state'[t] = "open"
          /\ holder'[t].at = "checking" => holder'[t].by \in PluginUsers
    BY <1>2, <1>3 DEF PluginIInv, PluginStates
  <2>3. QED
    BY <2>1, <2>2 DEF PluginStates
<1>6. PluginClosing' /\ PluginShut'
  <2>1. PluginShut'
    BY <1>0 DEF PluginIInv, PluginShut
  <2>2. \A t \in Plugin!Sessions : state'[t] # "none" => 1 .. t - 1 \subseteq Plugin!Entered'
    BY <1>0, <1>2, <1>3, <1>4 DEF PluginIInv, PluginClosing
  <2>3. \A t \in Plugin!Sessions : t <= shutdown' => state'[t] \notin {"opening", "open"}
    BY <1>0, <1>2, <1>3 DEF PluginIInv, PluginClosing
  <2>4. \A t \in Plugin!Sessions : holder'[t].by = "close" =>
           shut' /\ holder'[t].at = "retiring" /\ t = shutdown' + 1
    BY <1>0, <1>2, <1>3 DEF PluginIInv, PluginClosing
  <2>5. QED
    BY <2>1, <2>2, <2>3, <2>4 DEF PluginClosing
<1>7. PluginWork'
  BY <1>0, <1>2, <1>3 DEF PluginIInv, PluginWork
<1>8. Unconfirmed' = Unconfirmed
  BY <1>0, <1>4 DEF Unconfirmed
<1>9. QED
  BY <1>1, <1>5, <1>6, <1>7, <1>8 DEF PluginIInv

\* The end of _retire: what ended is confirmed, and stays so.
LEMMA PluginRetired ==
  ASSUME PluginIInv, NEW s \in Plugin!Sessions, Plugin!Retired(s)
  PROVE  PluginIInv'
<1>0. /\ holder[s].at = "retiring"
      /\ \/ alive' = [alive EXCEPT ![s] = FALSE] /\ busy' = [busy EXCEPT ![s] = FALSE]
         \/ UNCHANGED <<alive, busy>>
      /\ confirmed' = [confirmed EXCEPT ![s] = ~alive'[s]]
      /\ shutdown' = IF holder[s].by = "close" THEN s ELSE shutdown
      /\ holder' = [holder EXCEPT ![s] = [at |-> "free", by |-> "nobody"]]
      /\ UNCHANGED <<shut, state, background, ended>>
  BY DEF Plugin!Retired, Plugin!Held, Plugin!Confirmed, Plugin!Release, Plugin!Free
<1>1. PluginTypes'
  <2>1. /\ alive' \in [Plugin!Sessions -> BOOLEAN] /\ busy' \in [Plugin!Sessions -> BOOLEAN]
        /\ confirmed' \in [Plugin!Sessions -> BOOLEAN]
    BY <1>0 DEF PluginIInv, PluginTypes
  <2>2. shutdown' \in Nat
    BY <1>0, LocalAssumption DEF PluginIInv, PluginTypes, Plugin!Sessions
  <2>3. holder' \in [Plugin!Sessions -> PluginHold]
    BY <1>0 DEF PluginIInv, PluginTypes, PluginHold
  <2>4. QED
    BY <1>0, <2>1, <2>2, <2>3 DEF PluginIInv, PluginTypes
<1>2. \A t \in Plugin!Sessions :
         /\ t # s => /\ holder'[t] = holder[t] /\ confirmed'[t] = confirmed[t]
                     /\ alive'[t] = alive[t] /\ busy'[t] = busy[t]
         /\ alive'[t] => alive[t]
         /\ busy'[t] => busy[t]
  BY <1>0 DEF PluginIInv, PluginTypes
<1>3. /\ confirmed'[s] <=> ~alive'[s]
      /\ holder'[s].at = "free" /\ holder'[s].by = "nobody"
      /\ state[s] \in Stale
  BY <1>0 DEF PluginIInv, PluginTypes, PluginStates
<1>4. PluginStates'
  BY <1>0, <1>2, <1>3 DEF PluginIInv, PluginStates
<1>5. PluginClosing'
  <2>1. \A t \in Plugin!Sessions :
           t <= shutdown' => t <= shutdown \/ (t = s /\ state[s] \in Stale)
                             \/ (t = shutdown + 1 /\ s = t)
    BY <1>0, <1>3 DEF PluginIInv, PluginClosing, PluginTypes, Plugin!Sessions
  <2>2. \A t \in Plugin!Sessions : holder'[t].by = "close" => t # s /\ holder[s].by # "close"
    BY <1>0, <1>2, <1>3 DEF PluginIInv, PluginClosing
  <2>3. \A t \in Plugin!Sessions : state[t] # "none" => 1 .. t - 1 \subseteq Plugin!Entered'
    BY <1>0 DEF PluginIInv, PluginClosing, Plugin!Entered
  <2>4. \A t \in Plugin!Sessions : t <= shutdown' => state[t] \notin {"opening", "open"}
    BY <1>3, <2>1 DEF PluginIInv, PluginClosing, Stale
  <2>5. \A t \in Plugin!Sessions : holder'[t].by = "close" =>
           shut /\ holder'[t].at = "retiring" /\ t = shutdown' + 1
    BY <1>0, <1>2, <2>2 DEF PluginIInv, PluginClosing
  <2>6. QED
    BY <1>0, <2>3, <2>4, <2>5 DEF PluginClosing
<1>55. PluginShut'
  BY <1>0 DEF PluginIInv, PluginTypes, PluginShut, PluginClosing, Plugin!Sessions
<1>6. PluginWork'
  BY <1>0, <1>2, <1>3 DEF PluginIInv, PluginWork
<1>7. Unconfirmed' \subseteq Unconfirmed
  BY <1>0, <1>2, <1>3 DEF PluginIInv, PluginStates, Unconfirmed, Plugin!Entered
<1>8. QED
  BY <1>1, <1>4, <1>5, <1>6, <1>55, <1>7, NoFuller DEF PluginIInv

\* A session is admitted while there is room and the pool is not closed.
LEMMA PluginAdmits ==
  ASSUME PluginIInv, NEW s \in Plugin!Sessions, Plugin!Admit(s)
  PROVE  PluginIInv'
<1>11. ~shut /\ Cardinality(Unconfirmed) < PluginRoom
  <2>1. Plugin!Admits
    BY DEF Plugin!Admit
  <2>2. QED
    BY <2>1, OneCardinality DEF Plugin!Admits, Unconfirmed
<1>0. /\ state[s] = "none" /\ 1 .. s - 1 \subseteq Plugin!Entered
      /\ state' = [state EXCEPT ![s] = "opening"]
      /\ alive' = [alive EXCEPT ![s] = TRUE]
      /\ holder' = [holder EXCEPT ![s] = [at |-> "opening", by |-> "open"]]
      /\ UNCHANGED <<shut, shutdown, confirmed, busy, background, ended>>
  BY DEF Plugin!Admit, Plugin!Hold
<1>1. PluginTypes'
  BY <1>0 DEF PluginIInv, PluginTypes, PluginHold
<1>2. \A t \in Plugin!Sessions : t # s =>
         state'[t] = state[t] /\ holder'[t] = holder[t] /\ alive'[t] = alive[t]
  BY <1>0 DEF PluginIInv, PluginTypes
<1>3. /\ state'[s] = "opening" /\ ~confirmed[s]
      /\ holder'[s].at = "opening" /\ holder'[s].by = "open"
  BY <1>0 DEF PluginIInv, PluginTypes, PluginStates, Stale
<1>4. PluginStates'
  BY <1>0, <1>2, <1>3 DEF PluginIInv, PluginStates, Stale
<1>5. Plugin!Entered \subseteq Plugin!Entered'
  BY <1>0, <1>2, <1>3 DEF Plugin!Entered
<1>6. PluginClosing'
  <2>1. ~(s <= shutdown)
    BY <1>11 DEF PluginIInv, PluginShut
  <2>2. \A t \in Plugin!Sessions : state'[t] # "none" => 1 .. t - 1 \subseteq Plugin!Entered'
    BY <1>0, <1>2, <1>5 DEF PluginIInv, PluginClosing
  <2>3. QED
    BY <1>0, <1>2, <1>3, <2>1, <2>2 DEF PluginIInv, PluginClosing
<1>12. PluginShut'
  BY <1>0 DEF PluginIInv, PluginShut
<1>7. PluginWork'
  BY <1>0, <1>2, <1>3 DEF PluginIInv, PluginWork
<1>8. Unconfirmed' = Unconfirmed \cup {s} /\ s \notin Unconfirmed
  BY <1>0, <1>2, <1>3 DEF Unconfirmed, Plugin!Entered
<1>9. Cardinality(Unconfirmed') <= PluginRoom
  <2>1. Unconfirmed \in SUBSET Plugin!Sessions
    BY DEF Unconfirmed, Plugin!Entered
  <2>2. IsFiniteSet(Unconfirmed) /\ Cardinality(Unconfirmed) \in Nat
    BY <2>1, PluginFinite
  <2>3. Cardinality(Unconfirmed') = Cardinality(Unconfirmed) + 1
    BY <1>8, <2>2, FS_AddElement
  <2>4. QED
    BY <1>11, <2>2, <2>3, LocalAssumption
<1>10. QED
  BY <1>1, <1>4, <1>6, <1>7, <1>9, <1>12 DEF PluginIInv

\* Whoever holds a session goes on with it, or leaves it as it is.
LEMMA PluginHolds ==
  ASSUME PluginIInv, NEW s \in Plugin!Sessions,
         holder[s].at # "retiring",
         \E h \in PluginHold :
            /\ holder' = [holder EXCEPT ![s] = h]
            /\ h.by # "close" /\ h.at \in {"free", "checking", "calling"}
            /\ h.at # "free" => state[s] = "open" /\ h.by \in PluginUsers
            /\ h.at = "calling" /\ h.by = "send" => background'[s],
         state' = state \/ (state' = [state EXCEPT ![s] = "open"] /\ holder[s].at = "opening"
                            /\ ~busy[s]),
         \/ background' = background
         \/ background' = [background EXCEPT ![s] = TRUE],
         busy' = busy \/ (/\ busy' = [busy EXCEPT ![s] = TRUE]
                          /\ background[s] /\ state[s] = "open"),
         UNCHANGED <<shut, shutdown, confirmed, alive, ended>>
  PROVE  PluginIInv'
<1>0. PICK h \in PluginHold :
         /\ holder' = [holder EXCEPT ![s] = h]
         /\ h.by # "close" /\ h.at \in {"free", "checking", "calling"}
         /\ h.at # "free" => state[s] = "open" /\ h.by \in PluginUsers
         /\ h.at = "calling" /\ h.by = "send" => background'[s]
  OBVIOUS
<1>1. PluginTypes'
  BY <1>0 DEF PluginIInv, PluginTypes
<1>2. \A t \in Plugin!Sessions :
         /\ t # s => /\ holder'[t] = holder[t] /\ state'[t] = state[t] /\ busy'[t] = busy[t]
         /\ background[t] => background'[t]
  BY <1>0 DEF PluginIInv, PluginTypes
<1>3. /\ holder'[s] = h
      /\ state'[s] = state[s] \/ (state[s] = "opening" /\ state'[s] = "open" /\ ~busy[s])
  BY <1>0 DEF PluginIInv, PluginTypes, PluginStates
<1>4. Plugin!Entered' = Plugin!Entered
  BY <1>2, <1>3 DEF Plugin!Entered
<1>5. PluginStates'
  BY <1>0, <1>2, <1>3 DEF PluginIInv, PluginStates, Stale
<1>6. PluginClosing' /\ PluginShut'
  BY <1>0, <1>2, <1>3, <1>4 DEF PluginIInv, PluginClosing, PluginShut
<1>7. PluginWork'
  <2>1. busy'[s] => busy[s] \/ (background[s] /\ state[s] = "open")
    BY DEF PluginIInv, PluginTypes
  <2>2. QED
    BY <1>0, <1>2, <1>3, <2>1 DEF PluginIInv, PluginWork
<1>8. Unconfirmed' = Unconfirmed
  BY <1>4 DEF Unconfirmed
<1>9. QED
  BY <1>1, <1>5, <1>6, <1>7, <1>8 DEF PluginIInv

\* Sessions are entered in their order: the last one counts them.
LEMMA PluginCounted ==
  ASSUME PluginIInv, NEW s \in Plugin!Entered
  PROVE  s \in Nat /\ s <= Cardinality(Plugin!Entered)
<1>1. Plugin!Entered \in SUBSET Plugin!Sessions
  BY DEF Plugin!Entered
<1>2. s \in Nat /\ s > 0 /\ 1 .. s \subseteq Plugin!Entered
  <2>1. 1 .. s - 1 \subseteq Plugin!Entered /\ s \in Plugin!Sessions
    BY <1>1 DEF PluginIInv, PluginClosing, Plugin!Entered
  <2>2. s \in 1 .. PluginOpened
    BY <2>1 DEF Plugin!Sessions
  <2>3. \A t \in 1 .. s : t \in 1 .. s - 1 \/ t = s
    BY <2>2, LocalAssumption
  <2>4. QED
    BY <2>1, <2>2, <2>3, LocalAssumption
<1>3. Cardinality(1 .. s) = s
  BY <1>2, FS_Interval
<1>4. QED
  BY <1>1, <1>2, <1>3, PluginFinite, FS_Subset

\* What is left to show of a step that leaves the sessions alone.
LEMMA PluginLeaves ==
  ASSUME PluginIInv,
         UNCHANGED <<state, confirmed, alive, busy, background, holder, ended>>,
         shut' \in BOOLEAN, shut => shut', shutdown' = shutdown \/ shut', shutdown' \in Nat,
         \A t \in Plugin!Sessions :
            /\ t <= shutdown' => state[t] \notin {"opening", "open"}
            /\ holder[t].by = "close" => t = shutdown' + 1
  PROVE  PluginIInv'
<1>1. Plugin!Entered' = Plugin!Entered /\ Unconfirmed' = Unconfirmed
  BY DEF Unconfirmed, Plugin!Entered
<1>2. PluginTypes' /\ PluginStates' /\ PluginWork'
  BY DEF PluginIInv, PluginTypes, PluginStates, PluginWork
<1>3. PluginClosing'
  BY <1>1 DEF PluginIInv, PluginTypes, PluginClosing
<1>4. PluginShut'
  BY DEF PluginIInv, PluginTypes, PluginShut
<1>5. QED
  BY <1>1, <1>2, <1>3, <1>4 DEF PluginIInv

\* close() goes on to the next session, or is over: it passes no session that
\* is open.
LEMMA PluginCloses ==
  ASSUME PluginIInv,
         \/ Plugin!Sweep \/ Plugin!Refuse \/ Plugin!Close \/ Plugin!CloseEnds
         \/ \E s \in Plugin!Sessions : Plugin!CloseNext(s) /\ confirmed[s]
  PROVE  PluginIInv'
<1>1. UNCHANGED <<state, confirmed, alive, busy, background, holder, ended>>
  BY DEF Plugin!Sweep, Plugin!Refuse, Plugin!Close, Plugin!CloseEnds, Plugin!CloseNext,
         Plugin!sessions
<1>2. /\ shut' \in BOOLEAN
      /\ shut => shut'
      /\ shutdown' = shutdown \/ shut'
      /\ shutdown' \in Nat
  <2>1. shut \in BOOLEAN /\ shutdown \in Nat /\ PluginOpened + 1 \in Nat
    BY LocalAssumption DEF PluginIInv, PluginTypes
  <2>2. CASE Plugin!Sweep \/ Plugin!Refuse \/ Plugin!Close \/ Plugin!CloseEnds
    BY <2>1, <2>2 DEF Plugin!Sweep, Plugin!Refuse, Plugin!Close, Plugin!CloseEnds
  <2>3. ASSUME NEW s \in Plugin!Sessions, Plugin!CloseNext(s), confirmed[s]
        PROVE  shut' = shut /\ shut /\ shutdown' = s /\ s \in Nat
    BY <2>3, LocalAssumption DEF Plugin!CloseNext, Plugin!Sessions
  <2>4. QED
    BY <2>1, <2>2, <2>3
<1>3. ASSUME NEW t \in Plugin!Sessions
      PROVE  /\ t <= shutdown' => state[t] \notin {"opening", "open"}
             /\ holder[t].by = "close" => t = shutdown' + 1
  <2>1. CASE shutdown' = shutdown
    BY <2>1 DEF PluginIInv, PluginClosing
  <2>2. CASE Plugin!CloseEnds
    <3>1. shutdown = Cardinality(Plugin!Entered)
      BY <2>2, OneCardinality DEF Plugin!CloseEnds
    <3>2. t \in Plugin!Entered => t <= shutdown /\ t \in Nat
      BY <3>1, PluginCounted
    <3>3. holder[t].by # "close"
      BY <3>2 DEF PluginIInv, PluginClosing, PluginStates, PluginTypes, Plugin!Entered,
                  Stale
    <3>4. QED
      BY <3>2, <3>3 DEF PluginIInv, PluginClosing, Plugin!Entered
  <2>3. ASSUME NEW s \in Plugin!Sessions, Plugin!CloseNext(s), confirmed[s]
        PROVE  /\ t <= shutdown' => state[t] \notin {"opening", "open"}
               /\ holder[t].by = "close" => t = shutdown' + 1
    <3>1. shutdown' = s /\ s = shutdown + 1 /\ holder[s].at = "free"
      BY <2>3 DEF Plugin!CloseNext, Plugin!Held
    <3>2. state[s] \in Stale
      BY <2>3 DEF PluginIInv, PluginStates
    <3>3. t <= s => t <= shutdown \/ t = s
      BY <3>1, LocalAssumption DEF PluginIInv, PluginTypes, Plugin!Sessions
    <3>4. holder[t].by # "close"
      BY <3>1 DEF PluginIInv, PluginClosing
    <3>5. QED
      BY <3>1, <3>2, <3>3, <3>4 DEF PluginIInv, PluginClosing, Stale
  <2>4. QED
    BY <2>1, <2>2, <2>3 DEF Plugin!Sweep, Plugin!Refuse, Plugin!Close
<1>4. QED
  BY <1>1, <1>2, <1>3, PluginLeaves

\* Time passes, work ends and processes die.
LEMMA PluginAges ==
  ASSUME PluginIInv, NEW s \in Plugin!Sessions,
         Plugin!Unuse(s) \/ Plugin!WorkEnds(s) \/ Plugin!Die(s)
  PROVE  PluginIInv'
<1>1. UNCHANGED <<shut, shutdown, state, confirmed, background, holder, ended>>
  BY DEF Plugin!Unuse, Plugin!WorkEnds, Plugin!Die
<1>2. /\ alive' \in [Plugin!Sessions -> BOOLEAN] /\ busy' \in [Plugin!Sessions -> BOOLEAN]
      /\ \A t \in Plugin!Sessions : (alive'[t] => alive[t]) /\ (busy'[t] => busy[t])
  BY DEF PluginIInv, PluginTypes, Plugin!Unuse, Plugin!WorkEnds, Plugin!Die
<1>3. Plugin!Entered' = Plugin!Entered /\ Unconfirmed' = Unconfirmed
  BY <1>1 DEF Unconfirmed, Plugin!Entered
<1>4. QED
  BY <1>1, <1>2, <1>3
  DEF PluginIInv, PluginTypes, PluginStates, PluginClosing, PluginShut, PluginWork

\* A session that is checked, called or refreshed is used on or retired.
LEMMA PluginUses ==
  ASSUME PluginIInv, NEW s \in Plugin!Sessions,
         \/ Plugin!Opened(s) \/ Plugin!Fail(s)
         \/ \E by \in {"call", "send", "status", "sweep"} : Plugin!Refresh(s, by)
         \/ Plugin!Stop(s) \/ Plugin!Checked(s) \/ Plugin!GiveUp(s) \/ Plugin!Return(s)
  PROVE  PluginIInv'
<1> USE DEF Plugin!Held
<1>0. /\ holder[s] \in PluginHold
      /\ holder[s].at # "retiring" => holder[s].by # "close"
      /\ busy[s] \in BOOLEAN /\ background[s] \in BOOLEAN
      /\ [at |-> "free", by |-> "nobody"] \in PluginHold
  BY DEF PluginIInv, PluginTypes, PluginClosing, PluginHold
<1>1. CASE Plugin!Opened(s)
  <2>1. ~busy[s]
    BY <1>1 DEF Plugin!Opened, PluginIInv, PluginWork, PluginStates
  <2>2. QED
    BY <1>0, <1>1, <2>1, PluginHolds DEF Plugin!Opened, Plugin!Release, Plugin!Free
<1>2. CASE Plugin!Fail(s)
  <2>1. state[s] # "none"
    BY <1>2 DEF Plugin!Fail, PluginIInv, PluginStates
  <2>2. QED
    BY <1>2, <2>1, PluginRetires DEF Plugin!Fail, Stale
<1>3. ASSUME NEW by \in PluginUsers, Plugin!GoOn(s, by),
             holder[s].at # "retiring", state[s] = "open"
      PROVE  PluginIInv'
  <2>0. UNCHANGED <<shut, shutdown, state, confirmed, alive, busy, ended>>
    BY <1>3 DEF Plugin!GoOn
  <2>1. background' = background \/ background' = [background EXCEPT ![s] = TRUE]
    <3>1. background' = [background EXCEPT ![s] = background[s] \/ by = "send"]
      BY <1>3 DEF Plugin!GoOn
    <3>2. background \in [Plugin!Sessions -> BOOLEAN]
      BY DEF PluginIInv, PluginTypes
    <3>3. CASE background[s] \/ by = "send"
      BY <3>1, <3>3
    <3>4. CASE ~(background[s] \/ by = "send")
      BY <3>1, <3>2, <3>4
    <3>5. QED
      BY <3>3, <3>4
  <2>2. by = "send" => background'[s]
    BY <1>3 DEF Plugin!GoOn, PluginIInv, PluginTypes
  <2>3. CASE by \in {"call", "send"}
    <3>1. holder' = [holder EXCEPT ![s] = [at |-> "calling", by |-> by]]
      BY <1>3, <2>3 DEF Plugin!GoOn, Plugin!Hold
    <3>2. [at |-> "calling", by |-> by] \in PluginHold
      BY <2>3 DEF PluginHold
    <3>3. QED
      BY <1>3, <2>0, <2>1, <2>2, <2>3, <3>1, <3>2, PluginHolds DEF PluginUsers
  <2>4. CASE by \notin {"call", "send"}
    <3>1. holder' = [holder EXCEPT ![s] = [at |-> "free", by |-> "nobody"]]
      BY <1>3, <2>4 DEF Plugin!GoOn, Plugin!Release, Plugin!Free
    <3>2. QED
      BY <1>0, <1>3, <2>0, <2>1, <3>1, PluginHolds
  <2>5. QED
    BY <2>3, <2>4
<1>4. ASSUME NEW by \in PluginUsers, Plugin!Check(s, by),
             holder[s].at # "retiring", state[s] = "open"
      PROVE  PluginIInv'
  <2>1. [at |-> "checking", by |-> by] \in PluginHold
    BY DEF PluginHold, PluginUsers
  <2>2. QED
    BY <1>4, <2>1, PluginHolds DEF Plugin!Check, Plugin!Hold, PluginUsers
<1>5. ASSUME NEW by \in PluginUsers \ {"stop"}, Plugin!Refresh(s, by)
      PROVE  PluginIInv'
  <2>1. state[s] = "open" /\ holder[s].at = "free"
    BY <1>5 DEF Plugin!Refresh
  <2>2. CASE Plugin!Retire(s, "unusable", by)
    BY <2>1, <2>2, PluginRetires DEF Stale, PluginUsers
  <2>3. CASE ~background[s] /\ Plugin!Retire(s, "expired", by)
    BY <2>1, <2>3, PluginRetires DEF Stale, PluginIInv, PluginWork, PluginUsers
  <2>4. QED
    BY <1>3, <1>4, <1>5, <2>1, <2>2, <2>3 DEF Plugin!Refresh
<1>6. CASE Plugin!Stop(s)
  <2>1. state[s] # "none" /\ holder[s].at = "free"
    BY <1>6 DEF Plugin!Stop
  <2>2. CASE Plugin!Retire(s, "unusable", "stop")
    BY <2>1, <2>2, PluginRetires DEF Stale
  <2>3. CASE /\ ~(state[s] = "open" /\ ~alive[s])
             /\ ~(state[s] = "open" /\ alive[s] /\ background[s])
             /\ Plugin!Retire(s, "closed", "stop")
    BY <2>1, <2>3, PluginRetires DEF Stale, PluginIInv, PluginWork
  <2>4. CASE state[s] = "open" /\ Plugin!Check(s, "stop")
    BY <1>4, <2>1, <2>4 DEF PluginUsers
  <2>5. QED
    BY <1>6, <2>2, <2>3, <2>4 DEF Plugin!Stop
<1>7. CASE Plugin!Checked(s)
  <2> DEFINE by == holder[s].by
  <2>1. holder[s].at = "checking" /\ state[s] = "open"
    BY <1>7 DEF Plugin!Checked, PluginIInv, PluginStates
  <2>2. by \in PluginUsers
    BY <2>1 DEF PluginIInv, PluginStates
  <2>3. CASE Plugin!GoOn(s, by)
    BY <1>3, <2>1, <2>2, <2>3
  <2>4. CASE Plugin!Retire(s, "unusable", by)
    BY <2>1, <2>2, <2>4, PluginRetires DEF Stale, PluginUsers
  <2>5. CASE /\ ~busy[s]
             /\ Plugin!Retire(s, IF by = "stop" THEN "closed" ELSE "expired", by)
    BY <2>1, <2>2, <2>5, PluginRetires DEF Stale, PluginUsers
  <2>6. QED
    BY <1>7, <2>3, <2>4, <2>5 DEF Plugin!Checked, Plugin!Active
<1>8. CASE Plugin!GiveUp(s)
  BY <1>0, <1>8, PluginHolds DEF Plugin!GiveUp, Plugin!Release, Plugin!Free
<1>9. CASE Plugin!Return(s)
  <2>1. /\ holder[s].at = "calling" /\ state[s] = "open"
        /\ holder[s].by = "send" => background[s]
    BY <1>9 DEF Plugin!Return, PluginIInv, PluginStates, PluginWork
  <2>2. busy' = busy \/ (holder[s].by = "send" /\ busy' = [busy EXCEPT ![s] = TRUE])
    <3>1. busy' = [busy EXCEPT ![s] = busy[s] \/ holder[s].by = "send"]
      BY <1>9 DEF Plugin!Return
    <3>2. busy \in [Plugin!Sessions -> BOOLEAN]
      BY DEF PluginIInv, PluginTypes
    <3>3. CASE busy[s]
      BY <3>1, <3>2, <3>3
    <3>4. CASE ~busy[s]
      BY <3>1, <3>2, <3>4
    <3>5. QED
      BY <3>3, <3>4
  <2>3. /\ holder' = [holder EXCEPT ![s] = [at |-> "free", by |-> "nobody"]]
        /\ UNCHANGED <<shut, shutdown, state, confirmed, alive, background, ended>>
    BY <1>9 DEF Plugin!Return, Plugin!Release, Plugin!Free
  <2>4. QED
    BY <1>0, <2>1, <2>2, <2>3, PluginHolds
<1>10. QED
  BY <1>1, <1>2, <1>5, <1>6, <1>7, <1>8, <1>9 DEF PluginUsers

\* Every step of the pool keeps the invariant.
LEMMA PluginStep ==
  ASSUME PluginIInv, [Plugin!PluginNext]_pluginVars
  PROVE  PluginIInv'
<1>1. CASE UNCHANGED pluginVars
  BY <1>1
  DEF pluginVars, PluginIInv, PluginTypes, PluginStates, PluginClosing, PluginShut, PluginWork,
      Unconfirmed, Plugin!Entered
<1>2. CASE Plugin!Sweep \/ Plugin!Refuse \/ Plugin!Close \/ Plugin!CloseEnds
  BY <1>2, PluginCloses
<1>3. ASSUME NEW s \in Plugin!Sessions, Plugin!CloseNext(s)
      PROVE  PluginIInv'
  <2>1. CASE confirmed[s]
    BY <1>3, <2>1, PluginCloses
  <2>2. CASE ~confirmed[s]
    <3>1. /\ shut /\ s = shutdown + 1 /\ state[s] # "none" /\ holder[s].at = "free"
          /\ Plugin!Retire(s, "closed", "close")
      BY <1>3, <2>2 DEF Plugin!CloseNext, Plugin!Held, Plugin!Entered
    <3>2. QED
      BY <3>1, PluginRetires DEF Stale
  <2>3. QED
    BY <2>1, <2>2
<1>4. ASSUME NEW s \in Plugin!Sessions, Plugin!ExpireIdle(s)
      PROVE  PluginIInv'
  BY <1>4, PluginUses DEF Plugin!ExpireIdle
<1>5. QED
  BY <1>1, <1>2, <1>3, <1>4, PluginAdmits, PluginUses, PluginRetired, PluginAges
  DEF Plugin!PluginNext

\* The properties of the pool follow from its invariant.
LEMMA PluginKeeps ==
  ASSUME PluginIInv
  PROVE  Plugin!PluginCapacity /\ Plugin!ClosedForGood /\ Plugin!WorkSpared
<1>1. Plugin!PluginCapacity
  <2> DEFINE A == {s \in Plugin!Sessions : alive[s]}
  <2>1. A \subseteq Unconfirmed /\ A \in SUBSET Plugin!Sessions
        /\ Unconfirmed \in SUBSET Plugin!Sessions
    BY DEF PluginIInv, PluginStates, Unconfirmed, Plugin!Entered
  <2>2. Cardinality(A) <= Cardinality(Unconfirmed)
        /\ Cardinality(A) \in Nat /\ Cardinality(Unconfirmed) \in Nat
    BY <2>1, PluginFinite, FS_Subset
  <2>3. Cardinality(A) <= PluginRoom
    BY <2>2, LocalAssumption DEF PluginIInv
  <2>4. QED
    BY <2>3, OneCardinality DEF Plugin!PluginCapacity
<1>2. Plugin!ClosedForGood
  BY LocalAssumption DEF Plugin!ClosedForGood, Plugin!Sessions, PluginIInv, PluginClosing, PluginTypes
<1>3. Plugin!WorkSpared
  BY DEF Plugin!WorkSpared, PluginIInv, PluginWork
<1>4. QED
  BY <1>1, <1>2, <1>3

-----------------------------------------------------------------------------
(* The listener for peers. *)

RemoteTools == Tool \cup {"operations_get", None}
RemoteCall == [cert : Cert \cup {None}, op : OpId \cup {None}, tool : RemoteTools,
               server : {"none", "reading", "running", "closed"}]
RemoteRecord == [tool : RemoteTools, state : {"running", "completed"}]
RemoteRun == [cert : Cert, op : OpId, tool : RemoteTools, permitted : BOOLEAN]

RemoteTypes ==
    /\ exchange \in [Remote!Calls -> RemoteCall]
    /\ records \in [Cert \X OpId -> RemoteRecord \cup {None}]
    /\ runs \subseteq RemoteRun /\ denied \subseteq Cert \X OpId
    /\ \A k \in Remote!Calls : exchange[k].server \in {"reading", "running"} =>
          exchange[k].cert \in Cert /\ exchange[k].op \in OpId

\* What ran has a record, and what has a record ran, once and with permission.
RemoteRuns ==
    /\ \A e \in runs : e.permitted /\ records[<<e.cert, e.op>>] # None
    /\ \A e, f \in runs : e.cert = f.cert /\ e.op = f.op => e = f
    /\ \A p \in Cert, o \in OpId : records[<<p, o>>] # None =>
          \E e \in runs : e.cert = p /\ e.op = o /\ e.tool = records[<<p, o>>].tool

\* A connection runs what has a record; what ran while its clients know nothing
\* of it is still run by a connection; and what was confirmed ran.
RemoteTold ==
    /\ \A k \in Remote!Calls : exchange[k].server = "running" =>
          LET record == records[<<exchange[k].cert, exchange[k].op>>]
          IN  record # None /\ record.tool = exchange[k].tool
    /\ \A e \in runs : <<e.cert, e.op>> \in denied =>
          \E k \in Remote!Calls :
             exchange[k].server = "running" /\ exchange[k].cert = e.cert /\ exchange[k].op = e.op
    /\ \A a \in confirms : \E e \in runs :
          e.cert = a.cert /\ e.op = a.op /\ a.tool \in {e.tool, "operations_get"}

RemoteIInv ==
    RemoteTypes /\ RemoteRuns /\ RemoteTold /\ Cardinality(Remote!Serving) <= MaxLinks

\* There are finitely many calls.
LEMMA RemoteFinite ==
  \A S \in SUBSET Remote!Calls : IsFiniteSet(S) /\ Cardinality(S) \in Nat
<1>1. IsFiniteSet(Remote!Calls)
  <2>1. 1 \in Int /\ MaxCalls \in Int
    BY LocalAssumption
  <2>2. IsFiniteSet(1 .. MaxCalls)
    BY <2>1, FS_Interval
  <2>3. QED
    BY <2>2 DEF Remote!Calls
<1>2. QED
  BY <1>1, FS_Subset, FS_CardinalityType

\* No call yet.
LEMMA RemoteStart == Remote!PeersInit => RemoteIInv
<1> SUFFICES ASSUME Remote!PeersInit PROVE RemoteIInv
  OBVIOUS
<1>1. /\ exchange = [k \in Remote!Calls |-> [cert |-> None, op |-> None, tool |-> None,
                                             server |-> "none"]]
      /\ runs = {} /\ confirms = {} /\ denied = Cert \X OpId
  BY DEF Remote!PeersInit, Remote!NoCall, Remote!Operations
<1>2. records = [i \in Cert \X OpId |-> None]
  <2>1. {Remote!InternalId(c[1], c[2]) : c \in Remote!Operations} = Cert \X OpId
    BY DEF Remote!InternalId, Remote!Operations
  <2>2. QED
    BY <2>1 DEF Remote!PeersInit
<1>3. RemoteTypes
  <2>1. [cert |-> None, op |-> None, tool |-> None, server |-> "none"] \in RemoteCall
    BY DEF RemoteCall, RemoteTools
  <2>2. QED
    BY <1>1, <1>2, <2>1 DEF RemoteTypes
<1>4. RemoteRuns
  BY <1>1, <1>2 DEF RemoteRuns
<1>5. RemoteTold
  BY <1>1 DEF RemoteTold
<1>6. Cardinality(Remote!Serving) <= MaxLinks
  <2>1. Remote!Serving = {}
    BY <1>1 DEF Remote!Serving
  <2>2. QED
    BY <2>1, FS_EmptySet, LocalAssumption
<1>7. QED
  BY <1>3, <1>4, <1>5, <1>6 DEF RemoteIInv

\* A step after which no further connection is served leaves enough room.
LEMMA NoMoreServed ==
  ASSUME RemoteIInv, Remote!Serving' \subseteq Remote!Serving
  PROVE  Cardinality(Remote!Serving') <= MaxLinks
<1>1. Remote!Serving \in SUBSET Remote!Calls
  BY DEF Remote!Serving
<1>2. Cardinality(Remote!Serving') <= Cardinality(Remote!Serving)
  BY <1>1, RemoteFinite, FS_Subset
<1>3. Cardinality(Remote!Serving) \in Nat /\ Cardinality(Remote!Serving') \in Nat
  BY <1>1, RemoteFinite
<1>4. QED
  BY <1>2, <1>3, LocalAssumption DEF RemoteIInv

\* The end of a call, whose client is told the truth or nothing.
LEMMA RemoteReplies ==
  ASSUME RemoteIInv, NEW k \in Remote!Calls, NEW answer, Remote!Replies(k, answer),
         UNCHANGED <<records, runs>>,
         answer \in {"running", "completed"} =>
            \E e \in runs : /\ e.cert = exchange[k].cert /\ e.op = exchange[k].op
                            /\ exchange[k].tool \in {e.tool, "operations_get"},
         exchange[k].server = "running" => answer # "denied"
  PROVE  RemoteIInv'
<1> DEFINE gone == [cert |-> None, op |-> None, tool |-> None, server |-> "closed"]
<1>1. exchange' = [exchange EXCEPT ![k] = gone]
  <2>1. Remote!Over = gone
    BY DEF Remote!Over, Remote!NoCall
  <2>2. QED
    BY <2>1 DEF Remote!Replies, Remote!Becomes
<1>2. PICK told \in {answer, "unknown"} : Remote!Tells(exchange[k], told)
  BY DEF Remote!Replies
<1>3. /\ exchange'[k].server = "closed"
      /\ \A j \in Remote!Calls : j # k => exchange'[j] = exchange[j]
  BY <1>1 DEF RemoteIInv, RemoteTypes
<1>4. RemoteTypes'
  <2>1. gone \in RemoteCall
    BY DEF RemoteCall, RemoteTools
  <2>2. exchange' \in [Remote!Calls -> RemoteCall]
    BY <1>1, <2>1 DEF RemoteIInv, RemoteTypes
  <2>3. denied' \subseteq denied
    BY <1>2 DEF Remote!Tells
  <2>4. QED
    BY <1>3, <2>2, <2>3 DEF RemoteIInv, RemoteTypes
<1>5. RemoteRuns'
  BY DEF RemoteIInv, RemoteRuns
<1>6. ASSUME NEW e \in runs, <<e.cert, e.op>> \in denied'
      PROVE  \E j \in Remote!Calls :
                exchange'[j].server = "running" /\ exchange'[j].cert = e.cert /\ exchange'[j].op = e.op
  <2>1. <<e.cert, e.op>> \in denied
        /\ (told # "denied" => ~(e.cert = exchange[k].cert /\ e.op = exchange[k].op))
    BY <1>2, <1>6 DEF Remote!Tells
  <2>2. PICK j \in Remote!Calls :
           exchange[j].server = "running" /\ exchange[j].cert = e.cert /\ exchange[j].op = e.op
    BY <2>1 DEF RemoteIInv, RemoteTold
  <2>3. j # k
    BY <1>2, <2>1, <2>2
  <2>4. QED
    BY <1>3, <2>2, <2>3
<1>7. ASSUME NEW a \in confirms'
      PROVE  \E e \in runs :
                e.cert = a.cert /\ e.op = a.op /\ a.tool \in {e.tool, "operations_get"}
  <2>1. CASE a \in confirms
    BY <2>1 DEF RemoteIInv, RemoteTold
  <2>2. CASE a \notin confirms
    <3>1. /\ told \in {"running", "completed"}
          /\ a.cert = exchange[k].cert /\ a.op = exchange[k].op /\ a.tool = exchange[k].tool
      BY <1>2, <2>2 DEF Remote!Tells
    <3>2. QED
      BY <1>2, <3>1
  <2>3. QED
    BY <2>1, <2>2
<1>8. RemoteTold'
  BY <1>3, <1>6, <1>7 DEF RemoteIInv, RemoteTold
<1>9. Remote!Serving' \subseteq Remote!Serving
  BY <1>3 DEF Remote!Serving
<1>10. QED
  BY <1>4, <1>5, <1>8, <1>9, NoMoreServed DEF RemoteIInv

\* A call that is not served, or begins to be.
LEMMA RemoteDials ==
  ASSUME RemoteIInv, NEW k \in Remote!Calls, Remote!Dial(k)
  PROVE  RemoteIInv'
<1>1. PICK p \in Cert, o \in OpId, t \in Tool \cup {"operations_get"} :
         LET link == [cert |-> p, op |-> o, tool |-> t, server |-> "reading"]
         IN  /\ exchange[k] = Remote!NoCall
             /\ \/ Remote!Becomes(k, Remote!Over)
                   /\ (Remote!Tells(link, "denied") \/ Remote!Tells(link, "unknown"))
                \/ /\ Cardinality(Remote!Serving) < MaxLinks
                   /\ Remote!Becomes(k, link) /\ UNCHANGED <<denied, confirms>>
             /\ UNCHANGED <<records, runs>>
  BY OneCardinality DEF Remote!Dial, Remote!Ledger, Remote!Lookup
<1> DEFINE gone == [cert |-> None, op |-> None, tool |-> None, server |-> "closed"]
           link == [cert |-> p, op |-> o, tool |-> t, server |-> "reading"]
<1>2. Remote!Over = gone
  BY DEF Remote!Over, Remote!NoCall
<1>3. /\ \/ exchange' = [exchange EXCEPT ![k] = gone]
         \/ /\ Cardinality(Remote!Serving) < MaxLinks
            /\ exchange' = [exchange EXCEPT ![k] = link]
      /\ denied' \subseteq denied /\ confirms' = confirms
      /\ UNCHANGED <<records, runs>>
  <2>1. CASE Remote!Tells(link, "denied") \/ Remote!Tells(link, "unknown")
    <3>1. denied' \subseteq denied /\ confirms' = confirms
      BY <2>1 DEF Remote!Tells
    <3>2. QED
      BY <1>1, <1>2, <3>1 DEF Remote!Becomes
  <2>2. CASE UNCHANGED <<denied, confirms>>
    BY <1>1, <1>2, <2>2 DEF Remote!Becomes
  <2>3. QED
    BY <1>1, <2>1, <2>2
<1>4. exchange[k].server = "none"
  BY <1>1 DEF Remote!NoCall
<1>5. /\ \A j \in Remote!Calls : j # k => exchange'[j] = exchange[j]
      /\ exchange'[k] = gone \/ (exchange'[k] = link /\ Cardinality(Remote!Serving) < MaxLinks)
  BY <1>3 DEF RemoteIInv, RemoteTypes
<1>6. RemoteTypes'
  <2>1. gone \in RemoteCall /\ link \in RemoteCall
    BY DEF RemoteCall, RemoteTools
  <2>2. exchange' \in [Remote!Calls -> RemoteCall]
    BY <1>3, <2>1 DEF RemoteIInv, RemoteTypes
  <2>3. QED
    BY <1>3, <1>5, <2>2 DEF RemoteIInv, RemoteTypes
<1>7. RemoteRuns'
  BY <1>3 DEF RemoteIInv, RemoteRuns
<1>8. RemoteTold'
  <2>1. \A j \in Remote!Calls : exchange'[j].server = "running" \/ exchange[j].server = "running"
           => exchange'[j] = exchange[j]
    BY <1>4, <1>5
  <2>2. ASSUME NEW j \in Remote!Calls, exchange'[j].server = "running"
        PROVE  LET r == records'[<<exchange'[j].cert, exchange'[j].op>>]
               IN  r # None /\ r.tool = exchange'[j].tool
    BY <1>3, <2>1, <2>2 DEF RemoteIInv, RemoteTold
  <2>3. ASSUME NEW e \in runs, <<e.cert, e.op>> \in denied'
        PROVE  \E j \in Remote!Calls : /\ exchange'[j].server = "running"
                  /\ exchange'[j].cert = e.cert /\ exchange'[j].op = e.op
    <3>1. PICK j \in Remote!Calls : exchange[j].server = "running"
             /\ exchange[j].cert = e.cert /\ exchange[j].op = e.op
      BY <1>3, <2>3 DEF RemoteIInv, RemoteTold
    <3>2. QED
      BY <2>1, <3>1
  <2>4. QED
    BY <1>3, <2>2, <2>3 DEF RemoteIInv, RemoteTold
<1>9. Cardinality(Remote!Serving') <= MaxLinks
  <2>1. CASE exchange'[k] = gone
    <3>1. Remote!Serving' \subseteq Remote!Serving
      BY <1>5, <2>1 DEF Remote!Serving
    <3>2. QED
      BY <3>1, NoMoreServed
  <2>2. CASE exchange'[k] = link /\ Cardinality(Remote!Serving) < MaxLinks
    <3>1. Remote!Serving' = Remote!Serving \cup {k} /\ k \notin Remote!Serving
      BY <1>4, <1>5, <2>2 DEF Remote!Serving
    <3>2. IsFiniteSet(Remote!Serving) /\ Cardinality(Remote!Serving) \in Nat
      BY RemoteFinite DEF Remote!Serving
    <3>3. Cardinality(Remote!Serving') = Cardinality(Remote!Serving) + 1
      BY <3>1, <3>2, FS_AddElement
    <3>4. QED
      BY <2>2, <3>2, <3>3, LocalAssumption
  <2>3. QED
    BY <1>5, <2>1, <2>2
<1>10. QED
  BY <1>6, <1>7, <1>8, <1>9 DEF RemoteIInv

\* A call whose frame is there: it is refused, answers, or runs.
LEMMA RemoteDispatches ==
  ASSUME RemoteIInv, NEW k \in Remote!Calls, Remote!Dispatch(k)
  PROVE  RemoteIInv'
<1> DEFINE p == exchange[k].cert
           o == exchange[k].op
           tool == exchange[k].tool
           id == <<p, o>>
           record == records[id]
<1>1. exchange[k].server = "reading" /\ p \in Cert /\ o \in OpId /\ tool \in RemoteTools
      /\ exchange[k] \in RemoteCall /\ record \in RemoteRecord \cup {None}
  BY DEF Remote!Dispatch, RemoteIInv, RemoteTypes, RemoteCall
<1>2. CASE /\ UNCHANGED <<records, runs>>
           /\ Remote!Replies(k, "unknown") \/ Remote!Replies(k, "denied")
  BY <1>1, <1>2, RemoteReplies
<1>3. CASE tool = "operations_get" /\ Remote!AnswerLookup(k)
  <2>1. PICK answer \in {"unknown", record.state} :
           /\ Remote!Replies(k, answer) /\ UNCHANGED <<records, runs>>
           /\ record = None => answer = "unknown"
    BY <1>3 DEF Remote!AnswerLookup, Remote!Ledger, Remote!InternalId
  <2>2. answer \in {"running", "completed"} => \E e \in runs : e.cert = p /\ e.op = o
    BY <1>1, <2>1 DEF RemoteIInv, RemoteRuns
  <2>3. QED
    BY <1>1, <1>3, <2>1, <2>2, RemoteReplies
<1>4. CASE /\ UNCHANGED <<runs, records, denied, confirms>>
           /\ record # None /\ record.tool = tool
           /\ Remote!Becomes(k, [exchange[k] EXCEPT !.server = "running"])
  <2> DEFINE link == [exchange[k] EXCEPT !.server = "running"]
  <2>1. exchange' = [exchange EXCEPT ![k] = link]
    BY <1>4 DEF Remote!Becomes
  <2>2. /\ link \in RemoteCall /\ link.server = "running"
        /\ link.cert = p /\ link.op = o /\ link.tool = tool
    BY <1>1 DEF RemoteCall
  <2>3. /\ exchange'[k] = link
        /\ \A j \in Remote!Calls : j # k => exchange'[j] = exchange[j]
    BY <2>1 DEF RemoteIInv, RemoteTypes
  <2>4. RemoteTypes'
    <3>1. exchange' \in [Remote!Calls -> RemoteCall]
      BY <2>1, <2>2 DEF RemoteIInv, RemoteTypes
    <3>2. QED
      BY <1>1, <1>4, <2>2, <2>3, <3>1 DEF RemoteIInv, RemoteTypes
  <2>5. RemoteRuns'
    BY <1>4 DEF RemoteIInv, RemoteRuns
  <2>6. RemoteTold'
    <3>1. ASSUME NEW j \in Remote!Calls, exchange'[j].server = "running"
          PROVE  LET r == records'[<<exchange'[j].cert, exchange'[j].op>>]
                 IN  r # None /\ r.tool = exchange'[j].tool
      <4>1. CASE j = k
        BY <1>4, <2>2, <2>3, <4>1
      <4>2. CASE j # k
        BY <1>4, <2>3, <3>1, <4>2 DEF RemoteIInv, RemoteTold
      <4>3. QED
        BY <4>1, <4>2
    <3>2. ASSUME NEW e \in runs, <<e.cert, e.op>> \in denied
          PROVE  \E j \in Remote!Calls : /\ exchange'[j].server = "running"
                    /\ exchange'[j].cert = e.cert /\ exchange'[j].op = e.op
      <4>1. PICK j \in Remote!Calls : exchange[j].server = "running"
               /\ exchange[j].cert = e.cert /\ exchange[j].op = e.op
        BY <3>2 DEF RemoteIInv, RemoteTold
      <4>2. j # k
        BY <1>1, <4>1
      <4>3. QED
        BY <2>3, <4>1, <4>2
    <3>3. QED
      BY <1>4, <3>1, <3>2 DEF RemoteIInv, RemoteTold
  <2>7. Remote!Serving' \subseteq Remote!Serving
    BY <1>1, <2>2, <2>3 DEF Remote!Serving
  <2>8. QED
    BY <2>4, <2>5, <2>6, <2>7, NoMoreServed DEF RemoteIInv
<1>5. CASE /\ record = None /\ p \in enrolled /\ tool \in Remote!Allowed(p)
           /\ records' = [records EXCEPT ![id] = [tool |-> tool, state |-> "running"]]
           /\ runs' = Remote!Run(exchange[k])
           /\ Remote!Becomes(k, [exchange[k] EXCEPT !.server = "running"])
           /\ UNCHANGED <<denied, confirms>>
  <2> DEFINE link == [exchange[k] EXCEPT !.server = "running"]
             new == [tool |-> tool, state |-> "running"]
             run == [cert |-> p, op |-> o, tool |-> tool, permitted |-> TRUE]
  <2>1. exchange' = [exchange EXCEPT ![k] = link]
    BY <1>5 DEF Remote!Becomes
  <2>2. /\ link \in RemoteCall /\ link.server = "running"
        /\ link.cert = p /\ link.op = o /\ link.tool = tool
    BY <1>1 DEF RemoteCall
  <2>3. /\ exchange'[k] = link
        /\ \A j \in Remote!Calls : j # k => exchange'[j] = exchange[j]
    BY <2>1 DEF RemoteIInv, RemoteTypes
  <2>4. /\ new \in RemoteRecord /\ new # None /\ new.tool = tool /\ run \in RemoteRun
        /\ id \in Cert \X OpId
        /\ run.cert = p /\ run.op = o /\ run.tool = tool /\ run.permitted = TRUE
    BY <1>1, LocalAssumption DEF RemoteRecord, RemoteRun, RemoteTools
  <2>5. /\ records'[id] = new
        /\ \A i \in Cert \X OpId : i # id => records'[i] = records[i]
        /\ records' \in [Cert \X OpId -> RemoteRecord \cup {None}]
    BY <1>5, <2>4 DEF RemoteIInv, RemoteTypes
  <2>6. runs' = runs \cup {run}
    <3>1. p \in enrolled /\ expires[p] # "over" /\ grants[p] # None /\ tool \in grants[p]
      BY <1>5 DEF Remote!Allowed, Remote!Expired
    <3>2. QED
      BY <1>5, <3>1 DEF Remote!Run
  <2>7. \A e \in runs : /\ e.cert \in Cert /\ e.op \in OpId /\ ~(e.cert = p /\ e.op = o)
                         /\ <<e.cert, e.op>> \in Cert \X OpId /\ <<e.cert, e.op>> # id
    BY <1>5 DEF RemoteIInv, RemoteTypes, RemoteRuns, RemoteRun
  <2>8. RemoteTypes'
    <3>1. exchange' \in [Remote!Calls -> RemoteCall]
      BY <2>1, <2>2 DEF RemoteIInv, RemoteTypes
    <3>2. runs' \subseteq RemoteRun
      BY <2>4, <2>6 DEF RemoteIInv, RemoteTypes
    <3>3. \A j \in Remote!Calls : exchange'[j].server \in {"reading", "running"} =>
             exchange'[j].cert \in Cert /\ exchange'[j].op \in OpId
      BY <1>1, <2>2, <2>3 DEF RemoteIInv, RemoteTypes
    <3>4. QED
      BY <1>5, <2>5, <3>1, <3>2, <3>3 DEF RemoteIInv, RemoteTypes
  <2>9. RemoteRuns'
    <3>1. ASSUME NEW e \in runs'
          PROVE  e.permitted /\ records'[<<e.cert, e.op>>] # None
      <4>1. CASE e = run
        BY <2>4, <2>5, <4>1
      <4>2. CASE e \in runs
        BY <2>5, <2>7, <4>2 DEF RemoteIInv, RemoteRuns
      <4>3. QED
        BY <2>6, <4>1, <4>2
    <3>2. ASSUME NEW e \in runs', NEW f \in runs', e.cert = f.cert, e.op = f.op
          PROVE  e = f
      <4>1. CASE e \in runs /\ f \in runs
        BY <3>2, <4>1 DEF RemoteIInv, RemoteRuns
      <4>2. CASE e = run \/ f = run
        BY <2>4, <2>6, <2>7, <3>2, <4>2
      <4>3. QED
        BY <2>6, <4>1, <4>2
    <3>3. ASSUME NEW q \in Cert, NEW n \in OpId, records'[<<q, n>>] # None
          PROVE  \E e \in runs' : e.cert = q /\ e.op = n /\ e.tool = records'[<<q, n>>].tool
      <4>1. CASE q = p /\ n = o
        BY <2>4, <2>5, <2>6, <4>1
      <4>2. CASE ~(q = p /\ n = o)
        <5>1. records'[<<q, n>>] = records[<<q, n>>]
          BY <2>5, <4>2
        <5>2. QED
          BY <2>6, <3>3, <5>1 DEF RemoteIInv, RemoteRuns
      <4>3. QED
        BY <4>1, <4>2
    <3>4. QED
      BY <3>1, <3>2, <3>3 DEF RemoteRuns
  <2>10. RemoteTold'
    <3>1. ASSUME NEW j \in Remote!Calls, exchange'[j].server = "running"
          PROVE  LET r == records'[<<exchange'[j].cert, exchange'[j].op>>]
                 IN  r # None /\ r.tool = exchange'[j].tool
      <4>1. CASE j = k
        <5>1. <<exchange'[j].cert, exchange'[j].op>> = id /\ exchange'[j].tool = tool
          BY <2>2, <2>3, <4>1
        <5>2. QED
          BY <2>4, <2>5, <5>1
      <4>2. CASE j # k
        <5>1. exchange'[j] = exchange[j] /\ records[<<exchange[j].cert, exchange[j].op>>] # None
              /\ <<exchange[j].cert, exchange[j].op>> \in Cert \X OpId
          BY <2>3, <3>1, <4>2 DEF RemoteIInv, RemoteTypes, RemoteTold
        <5>2. <<exchange[j].cert, exchange[j].op>> # id
          BY <1>5, <5>1
        <5>3. QED
          BY <2>5, <3>1, <5>1, <5>2 DEF RemoteIInv, RemoteTold
      <4>3. QED
        BY <4>1, <4>2
    <3>2. ASSUME NEW e \in runs', <<e.cert, e.op>> \in denied'
          PROVE  \E j \in Remote!Calls : /\ exchange'[j].server = "running"
                    /\ exchange'[j].cert = e.cert /\ exchange'[j].op = e.op
      <4>1. CASE e = run
        BY <2>2, <2>3, <4>1
      <4>2. CASE e # run
        <5>1. PICK j \in Remote!Calls : exchange[j].server = "running"
                 /\ exchange[j].cert = e.cert /\ exchange[j].op = e.op
          BY <1>5, <2>6, <3>2, <4>2 DEF RemoteIInv, RemoteTold
        <5>2. j # k
          BY <1>1, <5>1
        <5>3. QED
          BY <2>3, <5>1, <5>2
      <4>3. QED
        BY <4>1, <4>2
    <3>3. \A a \in confirms' : \E e \in runs' :
             e.cert = a.cert /\ e.op = a.op /\ a.tool \in {e.tool, "operations_get"}
      BY <1>5, <2>6 DEF RemoteIInv, RemoteTold
    <3>4. QED
      BY <3>1, <3>2, <3>3 DEF RemoteTold
  <2>11. Remote!Serving' \subseteq Remote!Serving
    BY <1>1, <2>2, <2>3 DEF Remote!Serving
  <2>12. QED
    BY <2>8, <2>9, <2>10, <2>11, NoMoreServed DEF RemoteIInv
<1>6. QED
  BY <1>2, <1>3, <1>4, <1>5
  DEF Remote!Dispatch, Remote!Known, Remote!Start, Remote!Ledger, Remote!InternalId,
      Remote!Lookup

\* The owner's changes, and what runs comes to its end.
LEMMA RemoteGoesOn ==
  ASSUME RemoteIInv, UNCHANGED <<exchange, runs, denied, confirms>>,
         \/ records' = records
         \/ \E id \in Cert \X OpId :
               records[id] # None /\ records' = [records EXCEPT ![id].state = "completed"]
  PROVE  RemoteIInv'
<1>1. records' \in [Cert \X OpId -> RemoteRecord \cup {None}]
      /\ \A i \in Cert \X OpId : /\ records'[i] # None <=> records[i] # None
                                 /\ records[i] # None => records'[i].tool = records[i].tool
  <2>1. CASE records' = records
    BY <2>1 DEF RemoteIInv, RemoteTypes
  <2>2. ASSUME NEW id \in Cert \X OpId,
               records[id] # None, records' = [records EXCEPT ![id].state = "completed"]
        PROVE  /\ records' \in [Cert \X OpId -> RemoteRecord \cup {None}]
               /\ \A i \in Cert \X OpId :
                     /\ records'[i] # None <=> records[i] # None
                     /\ records[i] # None => records'[i].tool = records[i].tool
    <3> DEFINE new == [records[id] EXCEPT !.state = "completed"]
    <3>1. records' = [records EXCEPT ![id] = new]
      BY <2>2
    <3>2. records[id] \in RemoteRecord
      BY <2>2 DEF RemoteIInv, RemoteTypes
    <3>3. new \in RemoteRecord /\ new # None /\ new.tool = records[id].tool
      BY <3>2, LocalAssumption DEF RemoteRecord, RemoteTools
    <3>4. QED
      BY <2>2, <3>1, <3>3 DEF RemoteIInv, RemoteTypes
  <2>3. QED
    BY <2>1, <2>2
<1>2. RemoteTypes'
  BY <1>1 DEF RemoteIInv, RemoteTypes
<1>3. \A e \in runs : e.cert \in Cert /\ e.op \in OpId
  BY DEF RemoteIInv, RemoteTypes, RemoteRun
<1>4. RemoteRuns'
  BY <1>1, <1>3 DEF RemoteIInv, RemoteRuns
<1>5. RemoteTold'
  BY <1>1 DEF RemoteIInv, RemoteTypes, RemoteTold
<1>6. Remote!Serving' = Remote!Serving
  BY DEF Remote!Serving
<1>7. QED
  BY <1>2, <1>4, <1>5, <1>6 DEF RemoteIInv

\* Every step of the listener, its peers and its owner keeps the invariant.
LEMMA RemoteStep ==
  ASSUME RemoteIInv, [Remote!PeersNext]_peerVars
  PROVE  RemoteIInv'
<1>1. CASE UNCHANGED peerVars
  BY <1>1, RemoteGoesOn DEF peerVars
<1>2. CASE Remote!CloseListener
  BY <1>2, RemoteGoesOn DEF Remote!CloseListener, Remote!OwnerChanges
<1>3. ASSUME NEW p \in Cert,
             Remote!Grant(p) \/ Remote!Revoke(p) \/ Remote!Expire(p) \/ Remote!Disenroll(p)
      PROVE  RemoteIInv'
  BY <1>3, RemoteGoesOn
  DEF Remote!Grant, Remote!Revoke, Remote!Expire, Remote!Disenroll, Remote!OwnerChanges
<1>4. ASSUME NEW k \in Remote!Calls, Remote!Answer(k)
      PROVE  RemoteIInv'
  <2> DEFINE record == records[<<exchange[k].cert, exchange[k].op>>]
  <2>1. /\ exchange[k].server = "running" /\ Remote!Replies(k, record.state)
        /\ UNCHANGED <<records, runs>>
    BY <1>4 DEF Remote!Answer, Remote!InternalId, Remote!Ledger
  <2>2. exchange[k].cert \in Cert /\ exchange[k].op \in OpId
        /\ record # None /\ record.tool = exchange[k].tool
    BY <2>1 DEF RemoteIInv, RemoteTypes, RemoteTold
  <2>3. record \in RemoteRecord
    BY <2>2 DEF RemoteIInv, RemoteTypes
  <2>4. record.state # "denied"
    BY <2>3 DEF RemoteRecord
  <2>5. \E e \in runs : /\ e.cert = exchange[k].cert /\ e.op = exchange[k].op
                        /\ exchange[k].tool \in {e.tool, "operations_get"}
    BY <2>2 DEF RemoteIInv, RemoteRuns
  <2>6. QED
    BY <2>1, <2>4, <2>5, RemoteReplies
<1>5. ASSUME NEW k \in Remote!Calls, Remote!Drop(k)
      PROVE  RemoteIInv'
  BY <1>5, RemoteReplies DEF Remote!Drop, Remote!Ledger
<1>6. ASSUME NEW id \in DOMAIN records, Remote!Finish(id)
      PROVE  RemoteIInv'
  <2>1. id \in Cert \X OpId
    BY DEF RemoteIInv, RemoteTypes
  <2>2. QED
    BY <1>6, <2>1, RemoteGoesOn DEF Remote!Finish
<1>7. QED
  BY <1>1, <1>2, <1>3, <1>4, <1>5, <1>6, RemoteDials, RemoteDispatches DEF Remote!PeersNext

\* The properties of the listener follow from its invariant.
LEMMA RemoteKeeps ==
  ASSUME RemoteIInv
  PROVE  /\ Remote!PeersOnce /\ Remote!PeersStopped /\ Remote!PeersToldTrue
         /\ Remote!LinksBounded
<1>1. Remote!PeersStopped
  BY DEF RemoteIInv, RemoteRuns, Remote!PeersStopped
<1>2. Remote!LinksBounded
  BY OneCardinality DEF RemoteIInv, Remote!LinksBounded
<1>3. ASSUME NEW c \in Remote!Operations
      PROVE  Cardinality(Remote!RanFor(c[1], c[2])) <= 1
  <2> DEFINE R == Remote!RanFor(c[1], c[2])
  <2>1. \A e, f \in R : e = f
    BY DEF RemoteIInv, RemoteRuns, Remote!RanFor
  <2>2. CASE R = {}
    BY <2>2, FS_EmptySet
  <2>3. CASE R # {}
    <3>1. PICK e : R = {e}
      BY <2>1, <2>3
    <3>2. Cardinality(R) = 1
      BY <3>1, FS_Singleton
    <3>3. QED
      BY <3>2
  <2>4. QED
    BY <2>2, <2>3
<1>4. Remote!PeersOnce
  BY <1>3, OneCardinality DEF Remote!PeersOnce
<1>5. Remote!PeersToldTrue
  <2>1. ASSUME NEW c \in denied,
               ~\E k \in Remote!Calls : exchange[k].cert = c[1] /\ exchange[k].op = c[2],
               c = <<c[1], c[2]>>
        PROVE  Remote!RanFor(c[1], c[2]) = {}
    BY <2>1 DEF RemoteIInv, RemoteTold, Remote!RanFor
  <2>2. \A a \in confirms : \E e \in Remote!RanFor(a.cert, a.op) :
           a.tool \in {e.tool, Remote!Lookup}
    BY DEF RemoteIInv, RemoteTold, Remote!RanFor, Remote!Lookup
  <2>3. \A c \in denied : c = <<c[1], c[2]>>
    BY DEF RemoteIInv, RemoteTypes
  <2>4. QED
    BY <2>1, <2>2, <2>3 DEF Remote!PeersToldTrue
<1>6. QED
  BY <1>1, <1>2, <1>4, <1>5

-----------------------------------------------------------------------------
(* The peer mailbox. *)

\* The token an enroll command goes on with is that of the credential file, as
\* is the token of an enrolled peer.
MailTokens ==
    /\ \A c \in Command, p \in Peer, t \in Command : command[c] = <<p, t>> => file[p] = t
    /\ CredentialOpens

\* A delivery that was accepted is in the mailbox or among the pruned, where it
\* is acknowledged; and who acknowledged it had read it.
MailKept(k) ==
    /\ accepted[k] <= 1
    /\ accepted[k] > 0 => message[k] # None \/ k \in tombstone
    /\ k \in tombstone => acker[k] # None
    /\ message[k] # None \/ acker[k] # None => accepted[k] > 0
    /\ acker[k] # None => acker[k] = reader[k]
    /\ message[k] # None => (message[k].acked <=> acker[k] # None)
    /\ \A i \in Instance, l \in Pin : presented[k] = <<i, l>> => reader[k] = i

MailIInv ==
    TypeOK /\ MailTokens /\ misled = {} /\ \A k \in Key : MailKept(k)

\* No peer, no server and no message yet.
LEMMA MailStart == Init => MailIInv
<1> SUFFICES ASSUME Init PROVE MailIInv
  OBVIOUS
<1>1. TypeOK
  BY DEF Init, TypeOK, Pin
<1>2. \A i \in Instance, l \in Pin : None # <<i, l>>
  BY MailboxAssumption DEF Pin
<1>3. MailTokens
  BY MailboxAssumption DEF Init, MailTokens, CredentialOpens
<1>4. \A k \in Key : MailKept(k)
  BY <1>2 DEF Init, MailKept
<1>5. QED
  BY <1>1, <1>3, <1>4 DEF Init, MailIInv

\* Enrollment: a credential file is published once, and enrolled as it is.
LEMMA MailEnrolls ==
  ASSUME MailIInv, NEW c \in Command, NEW p \in Peer,
         \/ PublishCredential(c, p) \/ \E t \in Command : EnrollPeer(c, p, t)
  PROVE  MailIInv'
<1>0. UNCHANGED <<presence, mail, history>>
  BY DEF PublishCredential, EnrollPeer
<1>1. /\ file \in [Peer -> Command \cup {None}] /\ token \in [Peer -> Command \cup {None}]
      /\ command \in [Command -> (Peer \X Command) \cup {None}]
      /\ None \notin Command /\ \A q \in Peer, t \in Command : <<q, t>> # None
  BY MailboxAssumption DEF MailIInv, TypeOK
<1>2. /\ file' \in [Peer -> Command \cup {None}] /\ token' \in [Peer -> Command \cup {None}]
      /\ command' \in [Command -> (Peer \X Command) \cup {None}]
  <2>1. CASE PublishCredential(c, p)
    <3>1. file' \in [Peer -> Command \cup {None}] /\ file'[p] \in Command
      BY <1>1, <2>1 DEF PublishCredential
    <3>2. QED
      BY <1>1, <2>1, <3>1 DEF PublishCredential, enrollment
  <2>2. ASSUME NEW t \in Command, EnrollPeer(c, p, t)
        PROVE  /\ file' \in [Peer -> Command \cup {None}]
               /\ token' \in [Peer -> Command \cup {None}]
               /\ command' \in [Command -> (Peer \X Command) \cup {None}]
    BY <1>1, <2>2 DEF EnrollPeer
  <2>3. QED
    BY <2>1, <2>2
<1>3. TypeOK'
  BY <1>0, <1>2 DEF MailIInv, TypeOK, presence, mail, history
<1>4. MailTokens'
  <2>1. CASE PublishCredential(c, p)
    <3>1. /\ \A q \in Peer : file[q] # None => file'[q] = file[q]
          /\ \A e \in Command : e # c => command'[e] = command[e]
          /\ command'[c] = <<p, file'[p]>> /\ token' = token
      BY <1>1, <2>1 DEF PublishCredential
    <3>2. ASSUME NEW e \in Command, NEW q \in Peer, NEW t \in Command,
                 command'[e] = <<q, t>>
          PROVE  file'[q] = t
      <4>1. CASE e = c
        BY <3>1, <3>2, <4>1
      <4>2. CASE e # c
        BY <1>1, <3>1, <3>2, <4>2 DEF MailIInv, MailTokens
      <4>3. QED
        BY <4>1, <4>2
    <3>3. CredentialOpens'
      BY <3>1 DEF MailIInv, MailTokens, CredentialOpens
    <3>4. QED
      BY <3>2, <3>3 DEF MailTokens
  <2>2. ASSUME NEW t \in Command, EnrollPeer(c, p, t)
        PROVE  MailTokens'
    <3>1. /\ file[p] = t /\ token' = [token EXCEPT ![p] = t]
          /\ UNCHANGED <<file, command>>
      BY <2>2 DEF EnrollPeer, MailIInv, MailTokens
    <3>2. CredentialOpens'
      BY <1>1, <3>1 DEF MailIInv, MailTokens, CredentialOpens
    <3>3. QED
      BY <3>1, <3>2 DEF MailIInv, MailTokens
  <2>3. QED
    BY <2>1, <2>2
<1>5. misled' = {} /\ \A k \in Key : MailKept(k)'
  BY <1>0 DEF MailIInv, MailKept, mail, history
<1>6. QED
  BY <1>3, <1>4, <1>5 DEF MailIInv

\* Servers begin, lapse, come back and end: the mail is left alone.
LEMMA MailServes ==
  ASSUME MailIInv, NEW i \in Instance,
         \/ \E l \in Pin : Serve(i, l)
         \/ Heartbeat(i) \/ Lapse(i) \/ Disconnect(i) \/ Crash(i)
  PROVE  MailIInv'
<1>1. UNCHANGED <<enrollment, mail, history>>
  BY DEF Serve, Heartbeat, Lapse, Disconnect, Crash
<1>2. /\ process' \in [Instance -> {"new", "serving", "gone"}] /\ label' \in [Instance -> Pin]
      /\ fresh' \in [Instance -> BOOLEAN]
  <2>1. /\ process \in [Instance -> {"new", "serving", "gone"}] /\ label \in [Instance -> Pin]
        /\ fresh \in [Instance -> BOOLEAN]
    BY DEF MailIInv, TypeOK
  <2>2. /\ \/ process' = process
           \/ \E a \in {"serving", "gone"} : process' = [process EXCEPT ![i] = a]
        /\ label' = label \/ \E l \in Pin : label' = [label EXCEPT ![i] = l]
        /\ fresh' = fresh \/ \E b \in BOOLEAN : fresh' = [fresh EXCEPT ![i] = b]
    BY DEF Serve, Heartbeat, Lapse, Disconnect, Crash
  <2>3. QED
    BY <2>1, <2>2
<1>3. TypeOK'
  <2>1. UNCHANGED <<file, token, command, message, tombstone, presented, accepted, reader, acker,
                    misled>>
    BY <1>1 DEF enrollment, mail, history
  <2>2. QED
    BY <1>2, <2>1 DEF MailIInv, TypeOK
<1>4. MailTokens'
  BY <1>1 DEF MailIInv, MailTokens, CredentialOpens, enrollment
<1>5. misled' = {} /\ \A k \in Key : MailKept(k)'
  BY <1>1 DEF MailIInv, MailKept, mail, history
<1>6. QED
  BY <1>3, <1>4, <1>5 DEF MailIInv

\* A delivery whose ID is free has not been accepted before.
LEMMA MailSends ==
  ASSUME MailIInv, NEW i \in Instance, NEW p \in Peer, NEW d \in Delivery, NEW pin \in Pin,
         Send(i, p, d, pin) \/ SendDenied(i, p, d, pin)
  PROVE  MailIInv'
<1> DEFINE k == <<p, d>>
           new == [pin |-> pin, acked |-> FALSE]
<1>0. k \in Key
  BY DEF Key
<1>1. message[k] = None /\ k \notin tombstone
  BY DEF Send, SendDenied, Used
<1>2. accepted[k] = 0 /\ acker[k] = None
  BY <1>0, <1>1 DEF MailIInv, TypeOK, MailKept
<1>3. CASE SendDenied(i, p, d, pin)
  <2>1. UNCHANGED <<enrollment, presence, mail, accepted, reader, acker, misled>>
    BY <1>2, <1>3 DEF SendDenied, Deny
  <2>2. TypeOK' /\ MailTokens'
    BY <2>1
    DEF MailIInv, TypeOK, MailTokens, CredentialOpens, enrollment, presence, mail
  <2>3. QED
    BY <2>1, <2>2 DEF MailIInv, MailKept, mail
<1>4. CASE Send(i, p, d, pin)
  <2>1. /\ message' = [message EXCEPT ![k] = new]
        /\ accepted' = [accepted EXCEPT ![k] = accepted[k] + 1]
        /\ UNCHANGED <<enrollment, presence, tombstone, presented, reader, acker, misled>>
    BY <1>4 DEF Send
  <2>2. new \in Message /\ new # None /\ new.acked = FALSE
    <3>1. new \in Message
      BY DEF Message
    <3>2. QED
      BY <3>1, NoneAssumption
  <2>3. TypeOK'
    <3>1. message' \in [Key -> Message \cup {None}] /\ accepted' \in [Key -> Nat]
      BY <1>0, <1>2, <2>1, <2>2 DEF MailIInv, TypeOK
    <3>2. QED
      BY <2>1, <3>1 DEF MailIInv, TypeOK, enrollment, presence
  <2>4. MailTokens'
    BY <2>1 DEF MailIInv, MailTokens, CredentialOpens, enrollment
  <2>5. ASSUME NEW j \in Key
        PROVE  MailKept(j)'
    <3>1. CASE j = k
      <4>1. message'[j] = new /\ accepted'[j] = 1
        BY <1>0, <1>2, <2>1, <3>1 DEF MailIInv, TypeOK
      <4>2. QED
        BY <1>0, <1>2, <2>1, <2>2, <3>1, <4>1, <1>1 DEF MailIInv, MailKept
    <3>2. CASE j # k
      <4>1. message'[j] = message[j] /\ accepted'[j] = accepted[j]
        BY <2>1, <3>2 DEF MailIInv, TypeOK
      <4>2. QED
        BY <2>1, <4>1 DEF MailIInv, MailKept
    <3>3. QED
      BY <3>1, <3>2
  <2>6. QED
    BY <2>1, <2>3, <2>4, <2>5 DEF MailIInv
<1>5. QED
  BY <1>3, <1>4

\* What is returned to a reader is unread, so that nobody has acknowledged it.
LEMMA MailReads ==
  ASSUME MailIInv, NEW i \in Instance, NEW D \in SUBSET Delivery, Inbox(i, D)
  PROVE  MailIInv'
<1> DEFINE p == PeerOf[i]
<1>0. i \in Instance /\ p \in Peer /\ label[i] \in Pin
  BY MailboxAssumption DEF MailIInv, TypeOK
<1>1. /\ presented' = [k \in Key |-> IF k \in {p} \X D THEN <<i, label[i]>> ELSE presented[k]]
      /\ reader' = [k \in Key |-> IF k \in {p} \X D THEN i ELSE reader[k]]
      /\ UNCHANGED <<enrollment, presence, message, tombstone, accepted, acker, misled>>
  BY DEF Inbox
<1>2. TypeOK'
  <2>1. presented' \in [Key -> (Instance \X Pin) \cup {None}]
    BY <1>0, <1>1 DEF MailIInv, TypeOK
  <2>2. reader' \in [Key -> Instance \cup {None}]
    BY <1>0, <1>1 DEF MailIInv, TypeOK
  <2>3. QED
    BY <1>1, <2>1, <2>2 DEF MailIInv, TypeOK, enrollment, presence
<1>3. MailTokens'
  BY <1>1 DEF MailIInv, MailTokens, CredentialOpens, enrollment
<1>4. ASSUME NEW k \in Key
      PROVE  MailKept(k)'
  <2>1. CASE k \in {p} \X D
    <3>1. PICK d \in D : k = <<p, d>>
      BY <2>1
    <3>2. message[k] # None /\ ~message[k].acked
      BY <3>1 DEF Inbox, Visible, Pending
    <3>3. acker[k] = None
      BY <3>2 DEF MailIInv, MailKept
    <3>4. presented'[k] = <<i, label[i]>> /\ reader'[k] = i
      BY <1>1, <2>1
    <3>5. QED
      BY <1>1, <3>3, <3>4 DEF MailIInv, MailKept
  <2>2. CASE k \notin {p} \X D
    <3>1. presented'[k] = presented[k] /\ reader'[k] = reader[k]
      BY <1>1, <2>2
    <3>2. QED
      BY <1>1, <3>1 DEF MailIInv, MailKept
  <2>3. QED
    BY <2>1, <2>2
<1>5. QED
  BY <1>1, <1>2, <1>3, <1>4 DEF MailIInv

\* An acknowledgement is its reader's; what is pruned then was acknowledged.
LEMMA MailAcknowledges ==
  ASSUME MailIInv, NEW i \in Instance, NEW d \in Delivery, NEW keep \in SUBSET Delivery,
         Acknowledge(i, d, keep)
  PROVE  MailIInv'
<1> DEFINE p == PeerOf[i]
           key == <<p, d>>
           gone == (Acked(p) \cup {d}) \ keep
<1>0. /\ p \in Peer /\ key \in Key /\ label[i] \in Pin /\ i # None
      /\ d \in Pending(p) /\ presented[key] = <<i, label[i]>>
  BY MailboxAssumption DEF MailIInv, TypeOK, Key, Acknowledge, Visible
<1>1. /\ message' = [k \in Key |->
            IF k \in {p} \X gone THEN None
            ELSE IF k = key THEN [message[k] EXCEPT !.acked = TRUE] ELSE message[k]]
      /\ tombstone' = tombstone \cup ({p} \X gone)
      /\ presented' = [presented EXCEPT ![key] = None]
      /\ acker' = [acker EXCEPT ![key] = i]
      /\ UNCHANGED <<enrollment, presence, accepted, reader, misled>>
  BY DEF Acknowledge, Prune
<1>2. /\ message[key] # None /\ message[key] \in Message /\ ~message[key].acked
      /\ reader[key] = i
  BY <1>0 DEF MailIInv, TypeOK, MailKept, Pending
<1>3. [message[key] EXCEPT !.acked = TRUE] \in Message
      /\ [message[key] EXCEPT !.acked = TRUE].acked = TRUE
      /\ [message[key] EXCEPT !.acked = TRUE] # None
  BY <1>2, NoneAssumption DEF Message
<1>4. {p} \X gone \subseteq Key
  BY <1>0 DEF Key, Acked
<1>5. TypeOK'
  <2>1. message' \in [Key -> Message \cup {None}]
    BY <1>1, <1>3 DEF MailIInv, TypeOK
  <2>2. presented' \in [Key -> (Instance \X Pin) \cup {None}]
    BY <1>1 DEF MailIInv, TypeOK
  <2>3. acker' \in [Key -> Instance \cup {None}] /\ tombstone' \subseteq Key
    BY <1>1, <1>4 DEF MailIInv, TypeOK
  <2>4. QED
    BY <1>1, <2>1, <2>2, <2>3 DEF MailIInv, TypeOK, enrollment, presence
<1>6. MailTokens'
  BY <1>1 DEF MailIInv, MailTokens, CredentialOpens, enrollment
<1>7. \A k \in {p} \X gone : k = key \/ (message[k] # None /\ message[k].acked)
  BY DEF Acked
<1>8. accepted[key] > 0
  BY <1>0, <1>2 DEF MailIInv, MailKept
<1>9. ASSUME NEW k \in Key
      PROVE  MailKept(k)'
  <2>1. CASE k = key
    <3>1. acker'[k] = i /\ presented'[k] = None /\ reader'[k] = i
      BY <1>0, <1>1, <1>2, <2>1 DEF MailIInv, TypeOK
    <3>2. \A j \in Instance, l \in Pin : None # <<j, l>>
      BY MailboxAssumption DEF Pin
    <3>3. \/ message'[k] = None /\ k \in tombstone'
          \/ message'[k] # None /\ message'[k].acked
      BY <1>0, <1>1, <1>3, <2>1
    <3>4. QED
      BY <1>0, <1>1, <1>8, <2>1, <3>1, <3>2, <3>3 DEF MailIInv, MailKept
  <2>2. CASE k # key
    <3>1. /\ acker'[k] = acker[k] /\ presented'[k] = presented[k]
          /\ accepted'[k] = accepted[k] /\ reader'[k] = reader[k]
      BY <1>1, <2>2 DEF MailIInv, TypeOK
    <3>2. CASE k \in {p} \X gone
      <4>1. /\ message'[k] = None /\ k \in tombstone'
            /\ message[k] # None /\ message[k].acked
        BY <1>1, <1>7, <2>2, <3>2
      <4>2. QED
        BY <3>1, <4>1 DEF MailIInv, MailKept
    <3>3. CASE k \notin {p} \X gone
      <4>1. message'[k] = message[k] /\ (k \in tombstone' <=> k \in tombstone)
        BY <1>1, <2>2, <3>3
      <4>2. QED
        BY <3>1, <4>1 DEF MailIInv, MailKept
    <3>4. QED
      BY <3>2, <3>3
  <2>3. QED
    BY <2>1, <2>2
<1>10. QED
  BY <1>1, <1>5, <1>6, <1>9 DEF MailIInv

\* Every step of the mailbox keeps the invariant.
LEMMA MailStep ==
  ASSUME MailIInv, [Next]_vars
  PROVE  MailIInv'
<1>1. CASE UNCHANGED vars
  BY <1>1 DEF vars, MailIInv, TypeOK, MailTokens, CredentialOpens, MailKept
<1>2. CASE \E c \in Command, p \in Peer :
              PublishCredential(c, p) \/ \E t \in Command : EnrollPeer(c, p, t)
  BY <1>2, MailEnrolls
<1>3. CASE \E i \in Instance : \/ \E l \in Pin : Serve(i, l)
                               \/ Heartbeat(i) \/ Lapse(i) \/ Disconnect(i) \/ Crash(i)
  BY <1>3, MailServes
<1>4. CASE \E i \in Instance, p \in Peer, d \in Delivery, pin \in Pin :
              Send(i, p, d, pin) \/ SendDenied(i, p, d, pin)
  BY <1>4, MailSends
<1>5. CASE \E i \in Instance, D \in SUBSET Delivery : Inbox(i, D)
  BY <1>5, MailReads
<1>6. CASE \E i \in Instance, d \in Delivery, keep \in SUBSET Delivery :
              Acknowledge(i, d, keep)
  BY <1>6, MailAcknowledges
<1>7. QED
  BY <1>1, <1>2, <1>3, <1>4, <1>5, <1>6 DEF Next

\* The properties of the mailbox follow from its invariant.
LEMMA MailKeeps ==
  ASSUME MailIInv
  PROVE  /\ MailAcceptedOnce /\ AckedByReader /\ MailDenialHonest
         /\ NothingLost /\ CredentialOpens
BY DEF MailIInv, MailTokens, MailKept, TypeOK, MailAcceptedOnce, AckedByReader,
       MailDenialHonest, NothingLost

-----------------------------------------------------------------------------
(* Terminals. *)

TermTypes ==
    /\ worker \in [Terminal!Terms -> {"none", "running", "exited"}]
    /\ kept \subseteq Terminal!Terms
    /\ starter \in [TermStarters -> {"free", "admitted"}]
    /\ first \in [Terminal!Terms -> Int] /\ end \in [Terminal!Terms -> Int]
    /\ cursor \in [Terminal!Terms -> Int]
    /\ read \in [Terminal!Terms -> Int] /\ missed \in [Terminal!Terms -> Int]

\* No running terminal is forgotten, one start at a time is admitted, and while
\* one is there is room.
TermIInv ==
    /\ TermTypes
    /\ \A t \in Terminal!Terms : worker[t] = "running" => t \in kept
    /\ \A j, k \in TermStarters : starter[j] = "admitted" /\ starter[k] = "admitted" => j = k
    /\ Cardinality(Terminal!Running) <= TermRoom
    /\ (\E k \in TermStarters : starter[k] = "admitted")
          => Cardinality(Terminal!Running) < TermRoom
    /\ Terminal!PagesAddUp

\* Some natural numbers have a least one among them.
LEMMA Least ==
  ASSUME NEW S \in SUBSET Nat, S # {}
  PROVE  \E t \in S : \A u \in S : t <= u
<1> DEFINE R == OpToRel(<, Nat)
<1>1. IsWellFoundedOn(R, Nat)
  BY NatLessThanWellFounded
<1>2. PICK t \in S : \A u \in S : <<u, t>> \notin R
  <2> HIDE DEF R
  <2>1. QED
    BY <1>1, WFMin
<1>3. ASSUME NEW u \in S
      PROVE  t <= u
  <2>1. ~(u < t)
    BY <1>2 DEF OpToRel
  <2>2. QED
    BY <2>1
<1>4. QED
  BY <1>3

\* There are finitely many terminals.
LEMMA TermFinite ==
  \A S \in SUBSET Terminal!Terms : IsFiniteSet(S) /\ Cardinality(S) \in Nat
<1>1. IsFiniteSet(Terminal!Terms)
  <2>1. 1 \in Int /\ TermStarted \in Int
    BY LocalAssumption
  <2>2. IsFiniteSet(1 .. TermStarted)
    BY <2>1, FS_Interval
  <2>3. QED
    BY <2>2 DEF Terminal!Terms
<1>2. QED
  BY <1>1, FS_Subset, FS_CardinalityType

\* No terminal.
LEMMA TermStart == Terminal!TerminalInit => TermIInv
<1> SUFFICES ASSUME Terminal!TerminalInit PROVE TermIInv
  OBVIOUS
<1>1. TermTypes
  BY DEF Terminal!TerminalInit, TermTypes
<1>2. Terminal!Running = {}
  BY DEF Terminal!TerminalInit, Terminal!Running
<1>3. Cardinality(Terminal!Running) = 0
  BY <1>2, FS_EmptySet
<1>4. Terminal!PagesAddUp
  BY DEF Terminal!TerminalInit, Terminal!PagesAddUp
<1>5. QED
  BY <1>1, <1>3, <1>4, LocalAssumption DEF Terminal!TerminalInit, TermIInv

\* A step after which no further terminal runs leaves enough room.
LEMMA NoMoreRun ==
  ASSUME TermIInv, Terminal!Running' \subseteq Terminal!Running
  PROVE  /\ Cardinality(Terminal!Running') <= TermRoom
         /\ (\E k \in TermStarters : starter[k] = "admitted")
               => Cardinality(Terminal!Running') < TermRoom
<1>1. Terminal!Running \in SUBSET Terminal!Terms
  BY DEF Terminal!Running, TermIInv, TermTypes
<1>2. Cardinality(Terminal!Running') <= Cardinality(Terminal!Running)
      /\ Cardinality(Terminal!Running) \in Nat /\ Cardinality(Terminal!Running') \in Nat
  BY <1>1, TermFinite, FS_Subset
<1>3. QED
  BY <1>2, LocalAssumption DEF TermIInv

\* What is forgotten for a new terminal has ended.
LEMMA TermAdmits ==
  ASSUME TermIInv, NEW k \in TermStarters, Terminal!Admit(k)
  PROVE  TermIInv'
<1> DEFINE Ended == kept \ Terminal!Running
           oldest == CHOOSE t \in Ended : \A u \in Ended : t <= u
<1>1. /\ \A j \in TermStarters : starter[j] # "admitted"
      /\ Cardinality(Terminal!Running) < TermRoom
      /\ starter' = [starter EXCEPT ![k] = "admitted"]
      /\ kept' = IF Cardinality(kept) < TermKept THEN kept ELSE kept \ {oldest}
      /\ UNCHANGED <<worker, stop, pipe, pump, first, end, cursor, read, missed>>
  BY OneCardinality DEF Terminal!Admit, Terminal!Alone, Terminal!streams
<1>2. kept \in SUBSET Terminal!Terms /\ Terminal!Running \in SUBSET kept
  BY DEF TermIInv, TermTypes, Terminal!Running
<1>3. kept' \subseteq kept /\ Terminal!Running \subseteq kept'
  <2>1. CASE Cardinality(kept) < TermKept
    BY <1>1, <1>2, <2>1
  <2>2. CASE ~(Cardinality(kept) < TermKept)
    <3>1. Ended # {}
      <4>1. Cardinality(kept) \in Nat /\ Cardinality(Terminal!Running) \in Nat
        BY <1>2, TermFinite
      <4>2. Cardinality(kept) # Cardinality(Terminal!Running)
        BY <1>1, <2>2, <4>1, LocalAssumption
      <4>3. QED
        BY <1>2, <4>2
    <3>2. \E t \in Ended : \A u \in Ended : t <= u
      <4>1. Ended \in SUBSET Nat
        BY <1>2 DEF Terminal!Terms
      <4>2. QED
        BY <3>1, <4>1, Least
    <3>3. oldest \in Ended
      BY <3>2
    <3>4. QED
      BY <1>1, <1>2, <2>2, <3>3
  <2>3. QED
    BY <2>1, <2>2
<1>4. Terminal!Running' = Terminal!Running
  BY <1>1, <1>3 DEF Terminal!Running
<1>5. TermTypes'
  BY <1>1, <1>2, <1>3 DEF TermIInv, TermTypes
<1>6. /\ \A t \in Terminal!Terms : worker'[t] = "running" => t \in kept'
      /\ \A i, j \in TermStarters : starter'[i] = "admitted" /\ starter'[j] = "admitted" => i = j
  BY <1>1, <1>3 DEF TermIInv, TermTypes, Terminal!Running
<1>7. Terminal!PagesAddUp'
  BY <1>1 DEF TermIInv, Terminal!PagesAddUp
<1>8. QED
  BY <1>1, <1>4, <1>5, <1>6, <1>7 DEF TermIInv

\* The terminal that was admitted begins.
LEMMA TermBegins ==
  ASSUME TermIInv, NEW k \in TermStarters, NEW t \in Terminal!Terms, Terminal!Start(k, t)
  PROVE  TermIInv'
<1>1. /\ starter[k] = "admitted" /\ worker[t] = "none"
      /\ starter' = [starter EXCEPT ![k] = "free"]
      /\ worker' = [worker EXCEPT ![t] = "running"]
      /\ kept' = kept \cup {t}
      /\ UNCHANGED <<first, end, cursor, read, missed>>
  BY DEF Terminal!Start
<1>2. TermTypes'
  BY <1>1 DEF TermIInv, TermTypes
<1>3. /\ \A u \in Terminal!Terms : worker'[u] = "running" => u \in kept'
      /\ \A j \in TermStarters : starter'[j] # "admitted"
  BY <1>1 DEF TermIInv, TermTypes
<1>4. Terminal!Running' = Terminal!Running \cup {t} /\ t \notin Terminal!Running
  BY <1>1 DEF Terminal!Running, TermIInv, TermTypes
<1>5. Cardinality(Terminal!Running') <= TermRoom
  <2>1. Terminal!Running \in SUBSET Terminal!Terms
    BY DEF Terminal!Running, TermIInv, TermTypes
  <2>2. IsFiniteSet(Terminal!Running) /\ Cardinality(Terminal!Running) \in Nat
    BY <2>1, TermFinite
  <2>3. Cardinality(Terminal!Running') = Cardinality(Terminal!Running) + 1
    BY <1>4, <2>2, FS_AddElement
  <2>4. Cardinality(Terminal!Running) < TermRoom
    BY <1>1 DEF TermIInv
  <2>5. QED
    BY <2>2, <2>3, <2>4, LocalAssumption
<1>6. Terminal!PagesAddUp'
  BY <1>1 DEF TermIInv, Terminal!PagesAddUp
<1>7. QED
  BY <1>2, <1>3, <1>5, <1>6 DEF TermIInv

\* A page accounts for what it gives and for what it says was dropped.
LEMMA TermPages ==
  ASSUME TermIInv, NEW t \in Terminal!Terms, Terminal!Page(t)
  PROVE  TermIInv'
<1> DEFINE from == IF cursor[t] < first[t] THEN first[t] ELSE cursor[t]
           dropped == IF cursor[t] < first[t] THEN first[t] - cursor[t] ELSE 0
<1>1. PICK to \in cursor[t] + dropped .. end[t] :
         /\ cursor' = [cursor EXCEPT ![t] = to]
         /\ read' = [read EXCEPT ![t] = read[t] + to - from]
  BY DEF Terminal!Page, Terminal!Dropped
<1>2. missed' = [missed EXCEPT ![t] = missed[t] + dropped]
      /\ UNCHANGED <<starter, worker, kept, first, end>>
  BY DEF Terminal!Page, Terminal!Dropped
<1>3. /\ cursor[t] \in Int /\ first[t] \in Int /\ end[t] \in Int
      /\ read[t] \in Int /\ missed[t] \in Int /\ cursor[t] = read[t] + missed[t]
  BY DEF TermIInv, TermTypes, Terminal!PagesAddUp
<1>4. dropped \in Int /\ from \in Int /\ from = cursor[t] + dropped
  BY <1>3
<1>5. to \in Int
  BY <1>3, <1>4
<1>6. /\ read[t] + to - from \in Int /\ missed[t] + dropped \in Int
      /\ to = (read[t] + to - from) + (missed[t] + dropped)
  BY <1>3, <1>4, <1>5
<1>7. TermTypes'
  BY <1>1, <1>2, <1>5, <1>6 DEF TermIInv, TermTypes
<1>8. Terminal!PagesAddUp'
  BY <1>1, <1>2, <1>6 DEF TermIInv, TermTypes, Terminal!PagesAddUp
<1>9. Terminal!Running' = Terminal!Running
  BY <1>2 DEF Terminal!Running
<1>10. QED
  BY <1>2, <1>7, <1>8, <1>9 DEF TermIInv

\* Terminals write, end and are stopped, and starts fail.
LEMMA TermGoesOn ==
  ASSUME TermIInv,
         \/ \E k \in TermStarters : Terminal!StartFails(k)
         \/ \E t \in Terminal!Terms :
               \/ Terminal!Exit(t) \/ Terminal!ClosePipe(t) \/ Terminal!Eof(t)
               \/ \E n \in 1 .. TermOutput : Terminal!Output(t, n)
               \/ Terminal!Stop(t) \/ Terminal!Kill(t) \/ Terminal!Drain(t) \/ Terminal!Stopped(t)
         \/ UNCHANGED terminalVars
  PROVE  TermIInv'
<1>1. UNCHANGED <<kept, cursor, read, missed>>
  BY DEF Terminal!StartFails, Terminal!Exit, Terminal!ClosePipe, Terminal!Eof, Terminal!Output,
         Terminal!Stop, Terminal!Kill, Terminal!Drain, Terminal!Stopped, Terminal!streams,
         terminalVars
<1>2. /\ starter' \in [TermStarters -> {"free", "admitted"}]
      /\ \A k \in TermStarters : starter'[k] = "admitted" => starter[k] = "admitted"
  BY DEF TermIInv, TermTypes, terminalVars,
         Terminal!StartFails, Terminal!Exit, Terminal!ClosePipe, Terminal!Eof, Terminal!Output,
         Terminal!Stop, Terminal!Kill, Terminal!Drain, Terminal!Stopped
<1>3. /\ worker' \in [Terminal!Terms -> {"none", "running", "exited"}]
      /\ \A t \in Terminal!Terms : worker'[t] = "running" => worker[t] = "running"
  BY DEF TermIInv, TermTypes, terminalVars,
         Terminal!StartFails, Terminal!Exit, Terminal!ClosePipe, Terminal!Eof, Terminal!Output,
         Terminal!Stop, Terminal!Kill, Terminal!Drain, Terminal!Stopped
<1>4. first' \in [Terminal!Terms -> Int] /\ end' \in [Terminal!Terms -> Int]
  <2>1. CASE UNCHANGED <<first, end>>
    BY <2>1 DEF TermIInv, TermTypes
  <2>2. ASSUME NEW t \in Terminal!Terms, NEW n \in 1 .. TermOutput, Terminal!Output(t, n)
        PROVE  first' \in [Terminal!Terms -> Int] /\ end' \in [Terminal!Terms -> Int]
    <3>1. /\ end' = [end EXCEPT ![t] = end[t] + n]
          /\ first' = [first EXCEPT ![t] = IF end'[t] - first[t] > TermCap
                                           THEN end'[t] - TermCap ELSE first[t]]
      BY <2>2 DEF Terminal!Output
    <3>2. end' \in [Terminal!Terms -> Int] /\ end'[t] \in Int /\ first[t] \in Int
      BY <3>1, LocalAssumption DEF TermIInv, TermTypes
    <3>3. QED
      BY <3>1, <3>2, LocalAssumption DEF TermIInv, TermTypes
  <2>3. QED
    BY <2>1, <2>2
    DEF Terminal!StartFails, Terminal!Exit, Terminal!ClosePipe, Terminal!Eof, Terminal!streams,
        Terminal!Stop, Terminal!Kill, Terminal!Drain, Terminal!Stopped, terminalVars
<1>5. Terminal!Running' \subseteq Terminal!Running
  BY <1>1, <1>3 DEF Terminal!Running, TermIInv, TermTypes
<1>6. TermTypes' /\ Terminal!PagesAddUp'
  BY <1>1, <1>2, <1>3, <1>4 DEF TermIInv, TermTypes, Terminal!PagesAddUp
<1>7. QED
  BY <1>1, <1>2, <1>3, <1>5, <1>6, NoMoreRun DEF TermIInv

\* Every step of the terminals keeps the invariant.
LEMMA TermStep ==
  ASSUME TermIInv, [Terminal!TerminalNext]_terminalVars
  PROVE  TermIInv'
BY TermAdmits, TermBegins, TermPages, TermGoesOn DEF Terminal!TerminalNext

\* The properties of terminals follow from their invariant.
LEMMA TermKeeps ==
  ASSUME TermIInv
  PROVE  Terminal!TerminalCapacity /\ Terminal!PagesAddUp
<1>1. {t \in Terminal!Terms : worker[t] = "running"} = Terminal!Running
  BY DEF TermIInv, TermTypes, Terminal!Running
<1>2. QED
  BY <1>1, OneCardinality DEF TermIInv, Terminal!TerminalCapacity

-----------------------------------------------------------------------------
(* Direct sessions. *)

DirectUsers == {"nobody", "open", "failure", "close", "reaper", "call", "send", "stop", "loop"}
DirectHold == [at : {"free", "opening", "retiring", "checking", "calling"}, by : DirectUsers]
DirectWatch == [on : Direct!Sessions \cup {0}, state : {"none", "watching", "stopped"},
                due : BOOLEAN, loop : {"none", "asleep", "calling", "ended", "failed"}]

DirectTypes ==
    /\ entry \in [Direct!Sessions -> {"none", "opening", "open", "closed", "expired",
                                      "cleanup_incomplete", "worker_failed"}]
    /\ server \in [Direct!Sessions -> {"none", "up", "stopping", "down"}]
    /\ hold \in [Direct!Sessions -> DirectHold]
    /\ watch \in [Direct!Watches -> DirectWatch]

\* A session that waits for an activity probe has no watch that still matters,
\* and gets none while it waits.
ProbedUnwatched == \A s \in Direct!Sessions :
    hold[s].at = "checking" => server[s] # "up" \/ ~Direct!Watched(s)

DirectIInv ==
    DirectTypes /\ ProbedUnwatched /\ cut = {} /\ Cardinality(Direct!Active) <= DirectRoom

\* There are finitely many sessions.
LEMMA DirectFinite ==
  \A S \in SUBSET Direct!Sessions : IsFiniteSet(S) /\ Cardinality(S) \in Nat
<1>1. IsFiniteSet(Direct!Sessions)
  <2>1. 1 \in Int /\ DirectOpened \in Int
    BY LocalAssumption
  <2>2. IsFiniteSet(1 .. DirectOpened)
    BY <2>1, FS_Interval
  <2>3. QED
    BY <2>2 DEF Direct!Sessions
<1>2. QED
  BY <1>1, FS_Subset, FS_CardinalityType

\* No session.
LEMMA DirectStart == Direct!DirectInit => DirectIInv
<1> SUFFICES ASSUME Direct!DirectInit PROVE DirectIInv
  OBVIOUS
<1>1. DirectTypes
  BY DEF Direct!DirectInit, DirectTypes, DirectHold, DirectUsers, DirectWatch, Direct!Free, Direct!NoWatch
<1>2. ProbedUnwatched /\ cut = {}
  BY DEF Direct!DirectInit, ProbedUnwatched, Direct!Free
<1>3. Direct!Active = {}
  BY DEF Direct!DirectInit, Direct!Active, Direct!Clean
<1>4. QED
  BY <1>1, <1>2, <1>3, FS_EmptySet, LocalAssumption DEF DirectIInv

\* What is left to show of a step that starts no server.
LEMMA DirectLeaves ==
  ASSUME DirectIInv, DirectTypes', cut' = cut,
         \A t \in Direct!Sessions :
            /\ entry'[t] = "opening" => entry[t] = "opening"
            /\ server'[t] \notin {"none", "down"} => server[t] \notin {"none", "down"}
            /\ server'[t] = "up" => server[t] = "up"
            /\ hold'[t].at = "checking" =>
                  /\ Direct!Watched(t)' => Direct!Watched(t)
                  /\ hold[t].at = "checking" \/ server[t] # "up" \/ ~Direct!Watched(t)
  PROVE  DirectIInv'
<1>1. ProbedUnwatched'
  BY DEF DirectIInv, ProbedUnwatched
<1>2. Direct!Active' \subseteq Direct!Active
  BY DEF Direct!Active, Direct!Clean
<1>3. Direct!Active \in SUBSET Direct!Sessions
  BY DEF Direct!Active
<1>4. Cardinality(Direct!Active') <= Cardinality(Direct!Active)
      /\ Cardinality(Direct!Active) \in Nat /\ Cardinality(Direct!Active') \in Nat
  BY <1>2, <1>3, DirectFinite, FS_Subset
<1>5. QED
  BY <1>1, <1>4, LocalAssumption DEF DirectIInv

\* _retire, of a session without a watch that matters where it was not asked for.
LEMMA DirectRetires ==
  ASSUME DirectIInv, NEW s \in Direct!Sessions \cup {0},
         NEW as \in {"closed", "expired", "worker_failed"},
         NEW by \in DirectUsers,
         Direct!Retire(s, as, by),
         entry[s] = "open" /\ server[s] = "up" /\ by \notin {"failure", "loop", "close"}
            => ~Direct!Watched(s)
  PROVE  DirectIInv'
<1>1. /\ entry' = [entry EXCEPT ![s] = as] /\ server' = server
      /\ watch' = [w \in Direct!Watches |-> IF w \in Direct!Watching(s)
                      THEN [watch[w] EXCEPT !.state = "stopped"] ELSE watch[w]]
      /\ hold' = [hold EXCEPT ![s] = [at |-> "retiring", by |-> by]]
      /\ cut' = cut
  BY DEF Direct!Retire, Direct!Hold
<1>2. watch' \in [Direct!Watches -> DirectWatch]
  <2>1. \A w \in Direct!Watches : [watch[w] EXCEPT !.state = "stopped"] \in DirectWatch
    BY DEF DirectIInv, DirectTypes, DirectWatch
  <2>2. QED
    BY <1>1, <2>1 DEF DirectIInv, DirectTypes
<1>3. [at |-> "retiring", by |-> by] \in DirectHold
  BY DEF DirectHold, DirectUsers
<1>4. DirectTypes'
  BY <1>1, <1>2, <1>3 DEF DirectIInv, DirectTypes
<1>5. ASSUME NEW t \in Direct!Sessions, Direct!Watched(t)'
      PROVE  Direct!Watched(t)
  <2>1. PICK w \in Direct!Watches :
           watch'[w].on = t /\ watch'[w].state = "watching" /\ ~watch'[w].due
    BY <1>5 DEF Direct!Watched, Direct!Watching
  <2>2. watch[w] \in DirectWatch
    BY DEF DirectIInv, DirectTypes
  <2>3. watch'[w] = watch[w]
    BY <1>1, <2>1, <2>2 DEF DirectWatch
  <2>4. QED
    BY <2>1, <2>3 DEF Direct!Watched, Direct!Watching
<1>6. \A t \in Direct!Sessions :
         /\ entry'[t] = "opening" => entry[t] = "opening"
         /\ hold'[t].at = "checking" => hold[t].at = "checking"
  BY <1>1 DEF DirectIInv, DirectTypes
<1>7. QED
  BY <1>1, <1>4, <1>5, <1>6, DirectLeaves

\* A server is started while there is room.
LEMMA DirectOpens ==
  ASSUME DirectIInv, NEW s \in Direct!Sessions, Direct!Open(s)
  PROVE  DirectIInv'
<1>1. /\ Cardinality(Direct!Active) < DirectRoom /\ entry[s] = "none"
      /\ entry' = [entry EXCEPT ![s] = "opening"]
      /\ server' = [server EXCEPT ![s] = "up"]
      /\ hold' = [hold EXCEPT ![s] = [at |-> "opening", by |-> "open"]]
      /\ UNCHANGED <<watch, cut>>
  BY OneCardinality DEF Direct!Open, Direct!Hold
<1>2. DirectTypes'
  BY <1>1 DEF DirectIInv, DirectTypes, DirectHold, DirectUsers
<1>3. ProbedUnwatched'
  <2>1. \A t \in Direct!Sessions :
           hold'[t].at = "checking" => t # s /\ hold'[t] = hold[t] /\ server'[t] = server[t]
    BY <1>1 DEF DirectIInv, DirectTypes
  <2>2. \A t \in Direct!Sessions : Direct!Watched(t)' <=> Direct!Watched(t)
    BY <1>1 DEF Direct!Watched, Direct!Watching
  <2>3. QED
    BY <2>1, <2>2 DEF DirectIInv, ProbedUnwatched
<1>4. Direct!Active' \subseteq Direct!Active \cup {s}
  BY <1>1 DEF DirectIInv, DirectTypes, Direct!Active, Direct!Clean
<1>5. Cardinality(Direct!Active') <= DirectRoom
  <2>1. Direct!Active \in SUBSET Direct!Sessions /\ Direct!Active' \in SUBSET Direct!Sessions
    BY DEF Direct!Active
  <2>2. /\ IsFiniteSet(Direct!Active) /\ Cardinality(Direct!Active) \in Nat
        /\ IsFiniteSet(Direct!Active \cup {s}) /\ Cardinality(Direct!Active \cup {s}) \in Nat
        /\ Cardinality(Direct!Active') \in Nat
    BY <2>1, DirectFinite
  <2>3. Cardinality(Direct!Active \cup {s}) <= Cardinality(Direct!Active) + 1
    BY <2>2, FS_AddElement
  <2>4. Cardinality(Direct!Active') <= Cardinality(Direct!Active \cup {s})
    BY <1>4, <2>2, FS_Subset
  <2>5. QED
    BY <1>1, <2>2, <2>3, <2>4, LocalAssumption
<1>6. QED
  BY <1>1, <1>2, <1>3, <1>5 DEF DirectIInv

\* What a check decides, for a session without a watch that matters.
LEMMA DirectDecides ==
  ASSUME DirectIInv, NEW s \in Direct!Sessions, NEW by \in DirectUsers,
         NEW working, NEW asked, Direct!Decide(s, by, working, asked),
         working \/ server[s] # "up" \/ ~Direct!Watched(s)
  PROVE  DirectIInv'
<1>1. CASE ~working
  BY <1>1, DirectRetires DEF Direct!Decide
<1>2. CASE working
  <2>1. PICK h \in DirectHold : h.at # "checking" /\ hold' = [hold EXCEPT ![s] = h]
    <3>1. CASE by \in {"call", "send"}
      <4>1. hold' = [hold EXCEPT ![s] = [at |-> "calling", by |-> by]]
        BY <1>2, <3>1 DEF Direct!Decide, Direct!Hold
      <4>2. [at |-> "calling", by |-> by] \in DirectHold
        BY <3>1 DEF DirectHold, DirectUsers
      <4>3. QED
        BY <4>1, <4>2
    <3>2. CASE by \notin {"call", "send"}
      <4>1. hold' = [hold EXCEPT ![s] = [at |-> "free", by |-> "nobody"]]
        BY <1>2, <3>2 DEF Direct!Decide, Direct!Release, Direct!Free
      <4>2. [at |-> "free", by |-> "nobody"] \in DirectHold
        BY DEF DirectHold, DirectUsers
      <4>3. QED
        BY <4>1, <4>2
    <3>3. QED
      BY <3>1, <3>2
  <2>2. UNCHANGED <<entry, server, watch, cut>>
    BY <1>2 DEF Direct!Decide
  <2>3. DirectTypes'
    BY <2>1, <2>2 DEF DirectIInv, DirectTypes
  <2>4. \A t \in Direct!Sessions :
           /\ hold'[t].at = "checking" => hold[t].at = "checking"
           /\ Direct!Watched(t)' => Direct!Watched(t)
    BY <2>1, <2>2 DEF DirectIInv, DirectTypes, Direct!Watched, Direct!Watching
  <2>5. QED
    BY <2>2, <2>3, <2>4, DirectLeaves
<1>3. QED
  BY <1>1, <1>2

\* _background_active: it decides at once, or asks.
LEMMA DirectChecks ==
  ASSUME DirectIInv, NEW s \in Direct!Sessions, NEW by \in DirectUsers,
         Direct!Check(s, by), server[s] # "up" \/ ~Direct!Watched(s)
  PROVE  DirectIInv'
<1>1. CASE \E working \in BOOLEAN : \E asked : Direct!Decide(s, by, working, asked)
  BY <1>1, DirectDecides
<1>2. CASE /\ hold' = [hold EXCEPT ![s] = [at |-> "checking", by |-> by]]
           /\ UNCHANGED <<entry, server, watch, cut>>
  <2>1. [at |-> "checking", by |-> by] \in DirectHold
    BY DEF DirectHold, DirectUsers
  <2>2. DirectTypes'
    BY <1>2, <2>1 DEF DirectIInv, DirectTypes
  <2>3. \A t \in Direct!Sessions :
           /\ hold'[t].at = "checking" => hold[t].at = "checking" \/ t = s
           /\ Direct!Watched(t)' => Direct!Watched(t)
    BY <1>2 DEF DirectIInv, DirectTypes, Direct!Watched, Direct!Watching
  <2>4. QED
    BY <1>2, <2>2, <2>3, DirectLeaves
<1>3. QED
  BY <1>1, <1>2 DEF Direct!Check, Direct!Hold

\* What is left to show of a step that changes no more than the lock of one
\* session, and stops watches.
LEMMA DirectGoesOn ==
  ASSUME DirectIInv, cut' = cut, entry' = entry, server' = server,
         NEW h \in DirectHold, h.at # "checking", NEW s,
         hold' = hold \/ hold' = [hold EXCEPT ![s] = h],
         watch' \in [Direct!Watches -> DirectWatch],
         \A w \in Direct!Watches :
            /\ watch'[w].on = watch[w].on
            /\ watch'[w].state = "watching" => watch[w].state = "watching"
            /\ watch[w].due => watch'[w].due
  PROVE  DirectIInv'
<1>1. hold' \in [Direct!Sessions -> DirectHold]
  BY DEF DirectIInv, DirectTypes
<1>2. DirectTypes'
  BY <1>1 DEF DirectIInv, DirectTypes
<1>3. \A t \in Direct!Sessions : hold'[t].at = "checking" => hold[t].at = "checking"
  BY DEF DirectIInv, DirectTypes
<1>4. \A t \in Direct!Sessions : Direct!Watched(t)' => Direct!Watched(t)
  BY DEF Direct!Watched, Direct!Watching
<1>5. QED
  BY <1>2, <1>3, <1>4, DirectLeaves

\* Opening, what follows a retirement, probes and what ends by itself.
LEMMA DirectRests ==
  ASSUME DirectIInv, NEW s \in Direct!Sessions,
         \/ Direct!Opened(s) \/ Direct!Fail(s) \/ Direct!Retired(s) \/ Direct!Probed(s)
         \/ Direct!IdleFor(s) \/ Direct!WorkEnds(s) \/ Direct!LateCleanup(s)
         \/ Direct!GiveUp(s) \/ Direct!CloseNext(s) \/ Direct!Close
  PROVE  DirectIInv'
<1> DEFINE Loose == [at |-> "free", by |-> "nobody"]
<1>0. Loose \in DirectHold /\ Loose.at # "checking"
  BY DEF DirectHold, DirectUsers
<1> HIDE DEF Loose
<1>1. CASE Direct!Fail(s) \/ Direct!CloseNext(s)
  BY <1>1, DirectRetires DEF Direct!Fail, Direct!CloseNext, DirectUsers
<1>2. CASE \/ Direct!Opened(s) \/ Direct!Retired(s) \/ Direct!Probed(s) \/ Direct!LateCleanup(s)
           \/ Direct!Close
  <2>1. /\ entry' = entry \/ \E e \in {"open", "cleanup_incomplete"} : entry' = [entry EXCEPT ![s] = e]
        /\ \/ server' = server
           \/ ~Direct!Clean(s) /\ server' = [server EXCEPT ![s] = "stopping"]
           \/ server' = [server EXCEPT ![s] = "down"]
        /\ UNCHANGED <<watch, cut>>
    BY <1>2 DEF Direct!Opened, Direct!Retired, Direct!Probed, Direct!LateCleanup, Direct!Close,
                DirectIInv, DirectTypes, Direct!Clean
  <2>2. /\ hold' \in [Direct!Sessions -> DirectHold]
        /\ \A t \in Direct!Sessions : hold'[t] = hold[t] \/ hold'[t] = Loose
    <3>1. CASE Direct!Close
      BY <3>1, <1>0 DEF Direct!Close, Direct!Free, Loose, DirectIInv, DirectTypes
    <3>2. CASE hold' = hold \/ hold' = [hold EXCEPT ![s] = Loose]
      BY <3>2, <1>0 DEF DirectIInv, DirectTypes
    <3>3. QED
      BY <1>2, <3>1, <3>2 DEF Direct!Opened, Direct!Retired, Direct!Probed, Direct!LateCleanup,
                              Direct!Release, Direct!Free, Loose
  <2>3. DirectTypes'
    BY <2>1, <2>2 DEF DirectIInv, DirectTypes
  <2>4. \A t \in Direct!Sessions :
           /\ entry'[t] = "opening" => entry[t] = "opening"
           /\ server'[t] \notin {"none", "down"} => server[t] \notin {"none", "down"}
           /\ server'[t] = "up" => server[t] = "up"
           /\ hold'[t].at = "checking" => hold[t].at = "checking"
    BY <2>1, <2>2, <1>0 DEF DirectIInv, DirectTypes, Direct!Clean
  <2>5. \A t \in Direct!Sessions : Direct!Watched(t)' => Direct!Watched(t)
    BY <2>1 DEF Direct!Watched, Direct!Watching
  <2>6. QED
    BY <2>1, <2>3, <2>4, <2>5, DirectLeaves
<1>3. CASE Direct!IdleFor(s) \/ Direct!WorkEnds(s) \/ Direct!GiveUp(s)
  <2>1. /\ UNCHANGED <<entry, server, watch, cut>>
        /\ hold' = hold \/ hold' = [hold EXCEPT ![s] = Loose]
    BY <1>3 DEF Direct!IdleFor, Direct!WorkEnds, Direct!GiveUp, Direct!pool, Direct!Release,
                Direct!Free, Loose
  <2>2. watch' \in [Direct!Watches -> DirectWatch]
    BY <2>1 DEF DirectIInv, DirectTypes
  <2>3. QED
    BY <2>1, <2>2, <1>0, DirectGoesOn
<1>4. QED
  BY <1>1, <1>2, <1>3

\* The checks before a call, of the reaper, on request, and their end.
LEMMA DirectAsks ==
  ASSUME DirectIInv, NEW s \in Direct!Sessions,
         \/ Direct!Checked(s) \/ Direct!ExpireIdle(s) \/ Direct!Stop(s)
         \/ \E by \in {"call", "send"} : Direct!Begin(s, by)
  PROVE  DirectIInv'
<1>1. CASE Direct!Checked(s)
  <2>1. hold[s].by \in DirectUsers /\ hold[s].at = "checking"
    BY <1>1 DEF Direct!Checked, Direct!Held, DirectIInv, DirectTypes, DirectHold
  <2>2. server[s] # "up" \/ ~Direct!Watched(s)
    BY <2>1 DEF DirectIInv, ProbedUnwatched
  <2>3. \E working, asked : Direct!Decide(s, hold[s].by, working, asked)
    BY <1>1 DEF Direct!Checked
  <2>4. QED
    BY <2>1, <2>2, <2>3, DirectDecides
<1>2. CASE Direct!ExpireIdle(s)
  BY <1>2, DirectChecks DEF Direct!ExpireIdle, Direct!Expires, DirectUsers
<1>3. CASE Direct!Stop(s)
  <2>1. CASE entry[s] # "open"
    BY <1>3, <2>1, DirectRetires DEF Direct!Stop, DirectUsers
  <2>2. CASE entry[s] = "open"
    <3>1. server[s] # "up" \/ ~Direct!Watched(s)
      BY <1>3, <2>2 DEF Direct!Stop, Direct!Clean
    <3>2. QED
      BY <1>3, <2>2, <3>1, DirectChecks DEF Direct!Stop, DirectUsers
  <2>3. QED
    BY <2>1, <2>2
<1>4. ASSUME NEW by \in {"call", "send"}, Direct!Begin(s, by)
      PROVE  DirectIInv'
  <2>0. by \in DirectUsers
    BY DEF DirectUsers
  <2>1. CASE Direct!Expires(s)
    BY <1>4, <2>0, <2>1, DirectChecks DEF Direct!Begin, Direct!Expires
  <2>2. CASE ~Direct!Expires(s)
    BY <1>4, <2>0, <2>2, DirectDecides DEF Direct!Begin
  <2>3. QED
    BY <2>1, <2>2
<1>5. QED
  BY <1>1, <1>2, <1>3, <1>4

\* A call that returns may have started a watch, or stopped one.
LEMMA DirectReturns ==
  ASSUME DirectIInv, NEW s \in Direct!Sessions, Direct!Return(s)
  PROVE  DirectIInv'
<1> DEFINE Loose == [at |-> "free", by |-> "nobody"]
<1>0. Loose \in DirectHold /\ Loose.at # "checking"
  BY DEF DirectHold, DirectUsers
<1>1. UNCHANGED <<entry, server, cut>> /\ hold' = [hold EXCEPT ![s] = Loose]
  BY DEF Direct!Return, Direct!Release, Direct!Free
<1> HIDE DEF Loose
<1>2. CASE watch' = watch
  <2>1. watch' \in [Direct!Watches -> DirectWatch]
    BY <1>2 DEF DirectIInv, DirectTypes
  <2>2. QED
    BY <1>0, <1>1, <1>2, <2>1, DirectGoesOn
<1>3. CASE watch' = [w \in Direct!Watches |-> IF w \in Direct!Watching(s)
                        THEN [watch[w] EXCEPT !.state = "stopped"] ELSE watch[w]]
  <2>1. \A w \in Direct!Watches : [watch[w] EXCEPT !.state = "stopped"] \in DirectWatch
    BY DEF DirectIInv, DirectTypes, DirectWatch
  <2>2. watch' \in [Direct!Watches -> DirectWatch]
    BY <1>3, <2>1 DEF DirectIInv, DirectTypes
  <2>3. \A w \in Direct!Watches :
           /\ watch'[w].on = watch[w].on
           /\ watch'[w].state = "watching" => watch[w].state = "watching"
           /\ watch[w].due => watch'[w].due
    <3> TAKE w \in Direct!Watches
    <3>1. watch[w] \in DirectWatch
      BY DEF DirectIInv, DirectTypes
    <3>2. QED
      BY <1>3, <3>1 DEF DirectWatch
  <2>4. QED
    BY <1>0, <1>1, <2>2, <2>3, DirectGoesOn
<1>4. ASSUME NEW w \in Direct!Watches, watch' = Direct!Started(s, w)
      PROVE  DirectIInv'
  <2> DEFINE new == [on |-> s, state |-> "watching", due |-> FALSE, loop |-> "asleep"]
  <2>1. watch' = [watch EXCEPT ![w] = new] /\ new \in DirectWatch /\ new.on = s
    BY <1>4 DEF Direct!Started, DirectWatch
  <2> HIDE DEF new
  <2>2. DirectTypes'
    BY <1>0, <1>1, <2>1 DEF DirectIInv, DirectTypes
  <2>3. \A t \in Direct!Sessions \ {s} :
           /\ hold'[t] = hold[t]
           /\ Direct!Watched(t)' => Direct!Watched(t)
    BY <1>1, <2>1 DEF DirectIInv, DirectTypes, Direct!Watched, Direct!Watching
  <2>4. hold'[s].at # "checking"
    BY <1>0, <1>1 DEF DirectIInv, DirectTypes
  <2>5. QED
    BY <1>1, <2>2, <2>3, <2>4, DirectLeaves
<1>5. QED
  BY <1>2, <1>3, <1>4 DEF Direct!Return

\* The loop of a watch, and its deadline.
LEMMA DirectLoops ==
  ASSUME DirectIInv, NEW w \in Direct!Watches,
         \/ Direct!LoopCalls(w) \/ Direct!LoopReturns(w) \/ Direct!LoopRetires(w)
         \/ Direct!LoopEnds(w) \/ Direct!Lapse(w)
  PROVE  DirectIInv'
<1> DEFINE s == watch[w].on
           Loose == [at |-> "free", by |-> "nobody"]
           Taken == [at |-> "calling", by |-> "loop"]
<1>0. /\ Loose \in DirectHold /\ Loose.at # "checking"
      /\ Taken \in DirectHold /\ Taken.at # "checking"
  BY DEF DirectHold, DirectUsers
<1>1. watch[w] \in DirectWatch /\ s \in Direct!Sessions \cup {0}
  BY DEF DirectIInv, DirectTypes, DirectWatch
<1>2. CASE Direct!LoopRetires(w)
  <2>1. Direct!Retire(s, "worker_failed", "loop")
    BY <1>2 DEF Direct!LoopRetires
  <2>2. QED
    BY <1>1, <2>1, DirectRetires DEF DirectUsers
<1>3. CASE \/ Direct!LoopCalls(w) \/ Direct!LoopReturns(w) \/ Direct!LoopEnds(w) \/ Direct!Lapse(w)
  <2>1. /\ UNCHANGED <<entry, server, cut>>
        /\ hold' = hold \/ hold' = [hold EXCEPT ![s] = Loose] \/ hold' = [hold EXCEPT ![s] = Taken]
    BY <1>3 DEF Direct!LoopCalls, Direct!LoopReturns, Direct!LoopEnds, Direct!Lapse, Direct!Hold,
                Direct!Release, Direct!Free, Direct!pool
  <2>2. PICK r \in DirectWatch :
           /\ watch' = [watch EXCEPT ![w] = r] /\ r.on = s
           /\ r.state = "watching" => watch[w].state = "watching"
           /\ watch[w].due => r.due
    <3>1. CASE Direct!LoopCalls(w)
      <4> DEFINE r1 == [watch[w] EXCEPT !.loop = "calling",
                                        !.state = IF watch[w].due THEN "stopped" ELSE @]
                 r2 == [watch[w] EXCEPT !.loop = "ended", !.state = "stopped"]
      <4>1. watch' = [watch EXCEPT ![w] = r1] \/ watch' = [watch EXCEPT ![w] = r2]
        BY <3>1 DEF Direct!LoopCalls, DirectIInv, DirectTypes
      <4>2. /\ r1 \in DirectWatch /\ r1.on = s /\ r1.due = watch[w].due
            /\ r1.state = "watching" => watch[w].state = "watching"
        BY <1>1 DEF DirectWatch
      <4>3. r2 \in DirectWatch /\ r2.on = s /\ r2.due = watch[w].due /\ r2.state = "stopped"
        BY <1>1 DEF DirectWatch
      <4> HIDE DEF r1, r2
      <4>4. QED
        BY <4>1, <4>2, <4>3
    <3>2. CASE \/ Direct!LoopReturns(w) \/ Direct!LoopEnds(w) \/ Direct!Lapse(w)
      <4>1. PICK l \in {"asleep", "ended", "failed", watch[w].loop},
                 st \in {"stopped", watch[w].state}, d \in {TRUE, watch[w].due} :
               watch' = [watch EXCEPT ![w] = [watch[w] EXCEPT !.loop = l, !.state = st, !.due = d]]
        <5>1. CASE Direct!LoopEnds(w)
          BY <1>1, <5>1 DEF Direct!LoopEnds, DirectWatch, DirectIInv, DirectTypes
        <5>2. CASE Direct!Lapse(w)
          BY <1>1, <5>2 DEF Direct!Lapse, DirectWatch, DirectIInv, DirectTypes
        <5>3. CASE Direct!LoopReturns(w)
          <6> DEFINE Is(l, st) ==
                watch' = [watch EXCEPT ![w] = [watch[w] EXCEPT !.loop = l, !.state = st,
                                                               !.due = watch[w].due]]
          <6>1. CASE watch' = [watch EXCEPT ![w].loop = "asleep"]
            <7>1. Is("asleep", watch[w].state)
              BY <1>1, <6>1 DEF DirectWatch, DirectIInv, DirectTypes
            <7>2. QED
              BY <7>1
          <6>2. CASE watch' = [watch EXCEPT ![w].loop = "ended", ![w].state = "stopped"]
            <7>1. Is("ended", "stopped")
              BY <1>1, <6>2 DEF DirectWatch, DirectIInv, DirectTypes
            <7>2. QED
              BY <7>1
          <6>3. CASE watch' = [watch EXCEPT ![w].loop = "failed", ![w].state = "stopped"]
            <7>1. Is("failed", "stopped")
              BY <1>1, <6>3 DEF DirectWatch, DirectIInv, DirectTypes
            <7>2. QED
              BY <7>1
          <6>4. QED
            BY <5>3, <6>1, <6>2, <6>3 DEF Direct!LoopReturns
        <5>4. QED
          BY <3>2, <5>1, <5>2, <5>3
      <4> DEFINE r == [watch[w] EXCEPT !.loop = l, !.state = st, !.due = d]
      <4>2. /\ r \in DirectWatch /\ r.on = s /\ r.state = st /\ r.due = d
        BY <1>1 DEF DirectWatch
      <4>3. watch' = [watch EXCEPT ![w] = r]
        BY <4>1
      <4> HIDE DEF r
      <4>4. QED
        BY <4>2, <4>3
    <3>3. QED
      BY <1>3, <3>1, <3>2
  <2>3. /\ watch' \in [Direct!Watches -> DirectWatch]
        /\ \A v \in Direct!Watches :
              /\ watch'[v].on = watch[v].on
              /\ watch'[v].state = "watching" => watch[v].state = "watching"
              /\ watch[v].due => watch'[v].due
    BY <2>2 DEF DirectIInv, DirectTypes
  <2> HIDE DEF s, Loose, Taken
  <2>4. QED
    BY <1>0, <2>1, <2>3, DirectGoesOn
<1>4. QED
  BY <1>2, <1>3

\* Every step keeps the invariant of the pool of direct sessions.
LEMMA DirectStep ==
  ASSUME DirectIInv, [Direct!DirectNext]_directVars
  PROVE  DirectIInv'
<1>1. CASE UNCHANGED directVars
  BY <1>1 DEF directVars, DirectIInv, DirectTypes, ProbedUnwatched, Direct!Watched,
              Direct!Watching, Direct!Active, Direct!Clean
<1>2. CASE Direct!Close
  <2>1. CASE \E s \in Direct!Sessions : TRUE
    BY <1>2, <2>1, DirectRests
  <2>2. CASE Direct!Sessions = {}
    BY <1>2, <2>2 DEF Direct!Close, DirectIInv, DirectTypes, ProbedUnwatched, Direct!Active,
                      Direct!Clean
  <2>3. QED
    BY <2>1, <2>2
<1>3. QED
  BY <1>1, <1>2, DirectOpens, DirectRests, DirectAsks, DirectReturns, DirectLoops
  DEF Direct!DirectNext

\* The properties of the pool follow from its invariant.
LEMMA DirectKeeps ==
  ASSUME DirectIInv
  PROVE  Direct!DirectCapacity /\ Direct!WatchKept
<1> DEFINE A == {s \in Direct!Sessions : ~Direct!Clean(s)}
<1>1. A \subseteq Direct!Active /\ A \in SUBSET Direct!Sessions
      /\ Direct!Active \in SUBSET Direct!Sessions
  BY DEF Direct!Active
<1>2. Cardinality(A) <= Cardinality(Direct!Active)
      /\ Cardinality(A) \in Nat /\ Cardinality(Direct!Active) \in Nat
  BY <1>1, DirectFinite, FS_Subset
<1>3. Cardinality(A) <= DirectRoom
  BY <1>2, LocalAssumption DEF DirectIInv
<1>4. QED
  BY <1>3, OneCardinality DEF Direct!DirectCapacity, Direct!WatchKept, DirectIInv

-----------------------------------------------------------------------------
(* The gateway of Subchat. *)

Requests == Sends \cup Reads
GateRow == [state : {"prepared", "sending", "submitted", "completed", "cancelled",
                     "preflight_failed"},
            input : {r.input : r \in Sends}, failed : BOOLEAN]
GateCall == [stage : {"away", "arrived", "opening", "waiting", "unavailable"},
             req : Requests \cup {None}, task : Tasks \cup {None}, sent : BOOLEAN]
GateTask == [req : Requests \cup {None},
             stage : {"free", "new", "acking", "observing", "done"},
             reply : {"none", "conflict", "denied", "running", "unknown", "result"}]

GateTypes ==
    /\ row \in [Id -> GateRow \cup {None}]
    /\ intents \in [Gateway!Intent -> Id \cup {None}]
    /\ aliases \in [Id -> Sends \cup {None}]
    /\ call \in [Call -> GateCall]
    /\ pending \in [Id -> Tasks \cup {None}]
    /\ task \in [Tasks -> GateTask]
    /\ gwWorker \in [Id -> {"none", "waiting", "preparing", "posting", "posted", "failed"}]
    /\ posted \in [Id -> Nat]

\* Work is under way in a gateway that is up, and one call opens it.
GateUp == gateway # "up" => /\ \A t \in Tasks : ~Gateway!Running(t)
                            /\ \A o \in Id : ~Gateway!Live(o)
GateOpening == \A c \in Call : call[c].stage = "opening" =>
    gateway = "opening" /\ \A d \in Call : call[d].stage = "opening" => d = c

\* What is posted has been reserved, and what has a row has an intent.
GateOnce == \A o \in Id :
    /\ posted[o] <= 1
    /\ row[o] = None \/ row[o].state = "prepared" =>
          posted[o] = 0 /\ gwWorker[o] \notin {"posting", "posted"}
    /\ gwWorker[o] = "posting" => posted[o] = 0
    /\ Gateway!Live(o) => row[o] # None
    /\ row[o] # None => aliases[o] # None /\ \E k \in Gateway!Intent : intents[k] = o

\* An intent has a row, with the input of every send that is an alias of it.
GateIntents == \A k \in Gateway!Intent : intents[k] # None => row[intents[k]] # None
GateLedger == \A r \in Sends : aliases[r.id] = r =>
    /\ intents[r.intent] # None
    /\ row[intents[r.intent]].input = r.input

\* A send that will be a conflict however often it is tried.
Barred(r) == \/ Gateway!Bound(r)
             \/ intents[r.intent] # None /\ row[intents[r.intent]].input # r.input

\* A task whose request the ledger does not know yet is the one that is kept
\* for its request ID, and a kept task has the request the ID is bound to.
GateTasks == \A t \in Tasks :
    /\ task[t].reply # "none" => task[t].stage = "done"
    /\ task[t].stage = "acking" => /\ task[t].req \in Sends
                                   /\ aliases[task[t].req.id] = task[t].req
    /\ task[t].stage = "observing" => task[t].req \in Reads
    /\ task[t].stage = "new" /\ task[t].req \in Sends /\ aliases[task[t].req.id] = None
          => pending[task[t].req.id] = t
    /\ task[t].reply = "conflict" => task[t].req \in Sends /\ Barred(task[t].req)
GatePending == \A i \in Id : pending[i] # None =>
    /\ task[pending[i]].req \in Requests /\ task[pending[i]].req.id = i
    /\ aliases[i] \in {None, task[pending[i]].req}

\* A call knows the request of its task, and one whose send had been posted
\* waits for no denial.
GateCalls == \A c \in Call :
    /\ call[c].stage # "away" => call[c].req \in Requests
    /\ call[c].stage = "opening" => ~Gateway!Bound(call[c].req)
    /\ call[c].stage = "waiting" => /\ call[c].task # None
                                    /\ task[call[c].task].req = call[c].req
    /\ call[c].sent => /\ call[c].req \in Sends
                       /\ aliases[call[c].req.id] = call[c].req
                       /\ posted[intents[call[c].req.intent]] > 0
                       /\ call[c].stage = "waiting" => task[call[c].task].reply # "denied"

GateBounded == Cardinality(Gateway!Kept) <= KeptRequests
GateHistory == gwMisled = FALSE /\ gwCut = {}

GateState == GateTypes /\ GateUp /\ GateOpening /\ GateOnce /\ GateIntents /\ GateLedger
             /\ GateTasks /\ GatePending /\ GateCalls
GateIInv == GateState /\ GateBounded /\ GateHistory

\* No request.
LEMMA GateStart == Gateway!GatewayInit => GateIInv
<1> SUFFICES ASSUME Gateway!GatewayInit PROVE GateIInv
  OBVIOUS
<1> USE DEF Gateway!GatewayInit
<1>1. GateTypes
  BY DEF GateTypes, GateCall, GateTask, Gateway!Away, Gateway!NoTask
<1>2. GateUp /\ GateOpening
  BY DEF GateUp, GateOpening, Gateway!Running, Gateway!Live, Gateway!NoTask, Gateway!Away
<1>3. GateOnce /\ GateIntents
  BY DEF GateOnce, GateIntents, Gateway!Live
<1>4. GateLedger
  BY GatewayAssumption DEF GateLedger
<1>5. GateTasks /\ GatePending /\ GateCalls
  BY DEF GateTasks, GatePending, GateCalls, Gateway!NoTask, Gateway!Away
<1>6. Gateway!Kept = {}
  BY DEF Gateway!Kept
<1>7. QED
  BY <1>1, <1>2, <1>3, <1>4, <1>5, <1>6, FS_EmptySet, GatewayAssumption
  DEF GateIInv, GateState, GateBounded, GateHistory

\* What is kept is finite.
LEMMA GateFinite ==
  \A S \in SUBSET Id : IsFiniteSet(S) /\ Cardinality(S) \in Nat
BY FS_Subset, FS_CardinalityType, GatewayAssumption

\* Fewer kept requests are as few as before.
LEMMA GateKeepsFewer ==
  ASSUME GateBounded, Gateway!Kept' \subseteq Gateway!Kept
  PROVE  GateBounded'
<1>1. Gateway!Kept \in SUBSET Id
  BY DEF Gateway!Kept
<1>2. /\ Cardinality(Gateway!Kept') <= Cardinality(Gateway!Kept)
      /\ Cardinality(Gateway!Kept) \in Nat /\ Cardinality(Gateway!Kept') \in Nat
  BY <1>1, GateFinite, FS_Subset
<1>3. QED
  BY <1>2, GatewayAssumption DEF GateBounded

\* What is left to show of a step of one call that starts no task, and may
\* forget tasks that are over or that the ledger answers for.
LEMMA GateCallMoves ==
  ASSUME GateState, NEW c \in Call, NEW n \in GateCall, call' = [call EXCEPT ![c] = n],
         UNCHANGED <<row, intents, aliases, task, gwWorker, posted>>,
         pending' \in [Id -> Tasks \cup {None}],
         \A i \in Id : \/ pending'[i] = pending[i]
                       \/ /\ pending'[i] = None
                          /\ aliases[i] # None \/ task[pending[i]].stage = "done",
         GateUp', GateOpening',
         n.stage # "away" => n.req \in Requests,
         n.stage = "opening" => ~Gateway!Bound(n.req),
         n.stage = "waiting" => n.task # None /\ task[n.task].req = n.req,
         n.sent => /\ n.req \in Sends
                   /\ aliases[n.req.id] = n.req /\ posted[intents[n.req.intent]] > 0
                   /\ n.stage = "waiting" => task[n.task].reply # "denied"
  PROVE  GateState'
<1>1. GateTypes'
  BY DEF GateState, GateTypes
<1>2. GateOnce' /\ GateIntents' /\ GateLedger'
  BY DEF GateState, GateOnce, GateIntents, GateLedger, Gateway!Live
<1>3. GateTasks'
  <2> SUFFICES ASSUME NEW t \in Tasks
               PROVE  /\ task[t].reply # "none" => task[t].stage = "done"
                      /\ task[t].stage = "acking" => /\ task[t].req \in Sends
                                                     /\ aliases[task[t].req.id] = task[t].req
                      /\ task[t].stage = "observing" => task[t].req \in Reads
                      /\ task[t].stage = "new" /\ task[t].req \in Sends
                            /\ aliases[task[t].req.id] = None => pending'[task[t].req.id] = t
                      /\ task[t].reply = "conflict" =>
                            task[t].req \in Sends /\ Barred(task[t].req)
    BY DEF GateTasks, Barred, Gateway!Bound
  <2>1. ASSUME task[t].stage = "new", task[t].req \in Sends, aliases[task[t].req.id] = None
        PROVE  pending'[task[t].req.id] = t
    <3>1. task[t].req.id \in Id /\ pending[task[t].req.id] = t
      BY <2>1, GatewayAssumption DEF GateState, GateTasks
    <3>2. QED
      BY <2>1, <3>1
  <2>2. QED
    BY <2>1 DEF GateState, GateTasks
<1>4. GatePending'
  BY DEF GateState, GatePending
<1>5. GateCalls'
  <2>1. call'[c] = n /\ \A d \in Call : d # c => call'[d] = call[d]
    BY DEF GateState, GateTypes
  <2>2. QED
    BY <2>1 DEF GateState, GateCalls, Gateway!Bound
<1>6. QED
  BY <1>1, <1>2, <1>3, <1>4, <1>5 DEF GateState

\* A call is answered.
LEMMA GateAnswers ==
  ASSUME GateState, NEW c \in Call, call' = [call EXCEPT ![c] = Gateway!Away],
         UNCHANGED <<row, intents, aliases, task, gwWorker, posted>>,
         pending' \in [Id -> Tasks \cup {None}],
         \A i \in Id : \/ pending'[i] = pending[i]
                       \/ /\ pending'[i] = None
                          /\ aliases[i] # None \/ task[pending[i]].stage = "done",
         GateUp', \A d \in Call \ {c} : call[d].stage = "opening" => gateway' = "opening"
  PROVE  GateState'
<1> DEFINE n == [stage |-> "away", req |-> None, task |-> None, sent |-> FALSE]
<1>1. n \in GateCall /\ n.stage = "away" /\ ~n.sent /\ call' = [call EXCEPT ![c] = n]
  BY DEF GateCall, Gateway!Away
<1> HIDE DEF n
<1>2. GateOpening'
  BY <1>1 DEF GateState, GateOpening, GateTypes
<1>3. QED
  BY <1>1, <1>2, GateCallMoves

\* A new task takes a request on.
LEMMA GateStarts ==
  ASSUME GateState, NEW c \in Call, call[c].stage # "away", ~Gateway!Bound(call[c].req),
         \A d \in Call \ {c} : call[d].stage # "opening", gateway' = "up",
         UNCHANGED <<row, intents, aliases, gwWorker, posted>>,
         NEW t \in Tasks, \A i \in Id : pending[i] # t, \A d \in Call : call[d].task # t,
         task' = [task EXCEPT ![t] = [req |-> call[c].req, stage |-> "new", reply |-> "none"]],
         call' = [call EXCEPT ![c].stage = "waiting", ![c].task = t],
         pending' \in [Id -> Tasks \cup {None}],
         call[c].req \in Sends => pending'[call[c].req.id] = t,
         \A i \in Id : \/ pending'[i] = pending[i]
                       \/ /\ i = call[c].req.id /\ pending'[i] = t
                          /\ pending[i] = None \/ task[pending[i]].stage = "done"
                       \/ pending'[i] = None /\ task[pending[i]].stage = "done"
  PROVE  GateState'
<1> DEFINE r == call[c].req
           new == [req |-> r, stage |-> "new", reply |-> "none"]
           n == [call[c] EXCEPT !.stage = "waiting", !.task = t]
<1>0. r \in Requests /\ r.id \in Id /\ aliases[r.id] \in {None, r} /\ t # None
  BY GatewayAssumption DEF GateState, GateCalls, GateTypes, Gateway!Bound, Requests
<1>1. new \in GateTask /\ new.req = r /\ new.stage = "new" /\ new.reply = "none"
  BY <1>0 DEF GateTask
<1>2. /\ n \in GateCall /\ n.stage = "waiting" /\ n.req = r /\ n.task = t
      /\ n.sent = call[c].sent
  BY <1>0 DEF GateCall, GateState, GateTypes
<1>3. call' = [call EXCEPT ![c] = n]
  BY DEF GateState, GateTypes, GateCall
<1>4. task' = [task EXCEPT ![t] = new]
  OBVIOUS
<1> HIDE DEF n, new
<1>5. GateTypes'
  <2>1. call \in [Call -> GateCall] /\ task \in [Tasks -> GateTask]
    BY DEF GateState, GateTypes
  <2>2. call' \in [Call -> GateCall]
    BY <1>2, <1>3, <2>1, Zenon
  <2>3. task' \in [Tasks -> GateTask]
    BY <1>1, <1>4, <2>1, Zenon
  <2>4. QED
    BY <2>2, <2>3 DEF GateState, GateTypes
<1>6. GateUp'
  BY DEF GateUp
<1>7. GateOpening'
  BY <1>2, <1>3 DEF GateState, GateOpening, GateTypes
<1>8. GateOnce' /\ GateIntents' /\ GateLedger'
  BY DEF GateState, GateOnce, GateIntents, GateLedger, Gateway!Live
<1>9. task'[t] = new /\ \A u \in Tasks : u # t => task'[u] = task[u]
  BY <1>4 DEF GateState, GateTypes
<1>10. GateTasks'
  <2>1. ASSUME NEW u \in Tasks, u # t, task[u].stage = "new", task[u].req \in Sends,
               aliases[task[u].req.id] = None
        PROVE  pending'[task[u].req.id] = u
    <3>1. task[u].req.id \in Id /\ pending[task[u].req.id] = u /\ u # None
      BY <2>1, GatewayAssumption DEF GateState, GateTasks
    <3>2. QED
      BY <2>1, <3>1
  <2>2. new.req \in Sends => pending'[new.req.id] = t
    BY <1>1
  <2>3. \A u \in Tasks :
          /\ task'[u].reply # "none" => task'[u].stage = "done"
          /\ task'[u].stage = "acking" => /\ task'[u].req \in Sends
                                          /\ aliases[task'[u].req.id] = task'[u].req
          /\ task'[u].stage = "observing" => task'[u].req \in Reads
          /\ task'[u].reply = "conflict" => task'[u].req \in Sends /\ Barred(task'[u].req)
    BY <1>1, <1>9 DEF GateState, GateTasks
  <2>4. \A u \in Tasks :
          task'[u].stage = "new" /\ task'[u].req \in Sends /\ aliases[task'[u].req.id] = None
             => pending'[task'[u].req.id] = u
    BY <1>9, <2>1, <2>2
  <2>5. QED
    BY <2>3, <2>4 DEF GateTasks, Barred, Gateway!Bound
<1>11. GatePending'
  <2> SUFFICES ASSUME NEW i \in Id, pending'[i] # None
               PROVE  /\ task'[pending'[i]].req \in Requests /\ task'[pending'[i]].req.id = i
                      /\ aliases[i] \in {None, task'[pending'[i]].req}
    BY DEF GatePending
  <2>1. CASE pending'[i] = pending[i]
    <3>1. pending[i] \in Tasks /\ pending[i] # t
      BY <2>1 DEF GateState, GateTypes
    <3>2. QED
      BY <1>9, <2>1, <3>1 DEF GateState, GatePending
  <2>2. CASE i = r.id /\ pending'[i] = t
    BY <1>0, <1>1, <1>9, <2>2
  <2>3. QED
    BY <2>1, <2>2
<1>12. GateCalls'
  <2>1. call'[c] = n /\ \A d \in Call : d # c => call'[d] = call[d]
    BY <1>3 DEF GateState, GateTypes
  <2>2. ASSUME NEW d \in Call, d # c
        PROVE  call[d].task \in Tasks => task'[call[d].task] = task[call[d].task]
    BY <1>9
  <2>3. \A d \in Call : call[d].stage = "waiting" => call[d].task \in Tasks
    BY DEF GateState, GateTypes, GateCalls, GateCall
  <2> DEFINE Fine(m) ==
        /\ m.stage # "away" => m.req \in Requests
        /\ m.stage = "opening" => ~(aliases[m.req.id] # None /\ aliases[m.req.id] # m.req)
        /\ m.stage = "waiting" => m.task # None /\ task'[m.task].req = m.req
        /\ m.sent => /\ m.req \in Sends /\ aliases[m.req.id] = m.req
                     /\ posted[intents[m.req.intent]] > 0
                     /\ m.stage = "waiting" => task'[m.task].reply # "denied"
  <2>4. Fine(n)
    BY <1>0, <1>1, <1>2, <1>9 DEF GateState, GateCalls
  <2>5. ASSUME NEW d \in Call, d # c PROVE Fine(call[d])
    BY <2>2, <2>3, <2>5 DEF GateState, GateCalls, Gateway!Bound
  <2> HIDE DEF Fine
  <2>6. \A d \in Call : Fine(call'[d])
    BY <2>1, <2>4, <2>5
  <2>7. QED
    BY <2>6 DEF Fine, GateCalls, Gateway!Bound
<1>13. QED
  BY <1>5, <1>6, <1>7, <1>8, <1>10, <1>11, <1>12 DEF GateState

\* A kept request is replaced, dropped or added where there is room.
LEMMA GateRoom ==
  ASSUME GateState, GateBounded, NEW r \in Requests, NEW t \in Tasks,
         pending[r.id] = None \/ Gateway!Reopened(r),
         LET stays == {i \in Gateway!Kept : ~(i = r.id /\ Gateway!Reopened(r))}
         IN  \/ /\ Cardinality(stays) < KeptRequests
                /\ pending' = [pending EXCEPT ![r.id] = t]
             \/ \E i \in Gateway!Dropped(r) :
                   pending' = [pending EXCEPT ![i] = None, ![r.id] = t]
  PROVE  GateBounded'
<1> DEFINE stays == {i \in Gateway!Kept : ~(i = r.id /\ Gateway!Reopened(r))}
<1>0. r.id \in Id /\ pending \in [Id -> Tasks \cup {None}]
  BY GatewayAssumption DEF GateState, GateTypes, Requests
<1>1. Gateway!Kept \in SUBSET Id /\ stays \in SUBSET Id /\ Gateway!Kept' \in SUBSET Id
  BY DEF Gateway!Kept
<1>2. CASE Cardinality(stays) < KeptRequests /\ pending' = [pending EXCEPT ![r.id] = t]
  <2>1. Gateway!Kept' \subseteq stays \cup {r.id}
    BY <1>0, <1>2 DEF Gateway!Kept
  <2>2. IsFiniteSet(stays) /\ IsFiniteSet(stays \cup {r.id})
        /\ Cardinality(stays \cup {r.id}) \in Nat /\ Cardinality(stays) \in Nat
        /\ Cardinality(Gateway!Kept') \in Nat
    BY <1>0, <1>1, GateFinite
  <2>3. Cardinality(stays \cup {r.id}) <= Cardinality(stays) + 1
    BY <2>2, FS_AddElement
  <2>4. Cardinality(Gateway!Kept') <= Cardinality(stays \cup {r.id})
    BY <2>1, <2>2, FS_Subset
  <2>5. QED
    BY <1>2, <2>2, <2>3, <2>4, GatewayAssumption DEF GateBounded
<1>3. ASSUME NEW i \in Gateway!Kept, i # r.id,
             pending' = [pending EXCEPT ![i] = None, ![r.id] = t]
      PROVE  GateBounded'
  <2> DEFINE rest == Gateway!Kept \ {i}
  <2>1. Gateway!Kept' \subseteq rest \cup {r.id}
    BY <1>0, <1>3 DEF Gateway!Kept
  <2>2. /\ IsFiniteSet(Gateway!Kept) /\ Cardinality(Gateway!Kept) \in Nat
        /\ IsFiniteSet(rest) /\ Cardinality(rest) \in Nat
        /\ IsFiniteSet(rest \cup {r.id}) /\ Cardinality(rest \cup {r.id}) \in Nat
        /\ Cardinality(Gateway!Kept') \in Nat
    <3>1. rest \in SUBSET Id /\ rest \cup {r.id} \in SUBSET Id
      BY <1>0, <1>1
    <3>2. QED
      BY <1>1, <3>1, GateFinite
  <2>3. Cardinality(rest) = Cardinality(Gateway!Kept) - 1
    BY <1>3, <2>2, FS_RemoveElement
  <2>4. Cardinality(rest \cup {r.id}) <= Cardinality(rest) + 1
    BY <2>2, FS_AddElement
  <2>5. Cardinality(Gateway!Kept') <= Cardinality(rest \cup {r.id})
    BY <2>1, <2>2, FS_Subset
  <2>6. QED
    BY <2>2, <2>3, <2>4, <2>5, GatewayAssumption DEF GateBounded
<1>4. QED
  BY <1>2, <1>3 DEF Gateway!Dropped

\* Whoever gets the gateway executes its request.
LEMMA GateExecutes ==
  ASSUME GateIInv, NEW c \in Call, call[c].stage # "away", ~Gateway!Bound(call[c].req),
         \A d \in Call \ {c} : call[d].stage # "opening", gateway' = "up",
         Gateway!Execute(c, call[c].req),
         UNCHANGED <<row, intents, aliases, gwWorker, posted, gwCut>>
  PROVE  GateIInv'
<1> DEFINE r == call[c].req
<1>0. r \in Requests /\ r.id \in Id /\ pending \in [Id -> Tasks \cup {None}]
      /\ GateState /\ GateBounded /\ GateHistory
  BY GatewayAssumption DEF GateIInv, GateState, GateCalls, GateTypes, Requests
<1>u. GateUp'
  BY DEF GateUp
<1>1. ASSUME Gateway!Free # {}
      PROVE  /\ Gateway!Fresh \in Tasks
             /\ \A i \in Id : pending[i] # Gateway!Fresh
             /\ \A d \in Call : call[d].task # Gateway!Fresh
  <2>1. Gateway!Fresh \in Gateway!Free
    BY <1>1 DEF Gateway!Fresh
  <2>2. QED
    BY <2>1 DEF Gateway!Free
<1>2. CASE Gateway!Start(c, r) /\ (pending[r.id] = None \/ Gateway!Reopened(r))
  <2> DEFINE t == Gateway!Fresh
  <2>1. /\ t \in Tasks /\ \A i \in Id : pending[i] # t
        /\ \A d \in Call : call[d].task # t
        /\ task' = [task EXCEPT ![t] = [req |-> r, stage |-> "new", reply |-> "none"]]
        /\ call' = [call EXCEPT ![c].stage = "waiting", ![c].task = t]
        /\ gwMisled' = gwMisled
    BY <1>1, <1>2 DEF Gateway!Start, Gateway!Waits
  <2>2. LET stays == {i \in Gateway!Kept : ~(i = r.id /\ Gateway!Reopened(r))}
        IN  \/ /\ Cardinality(stays) < KeptRequests
               /\ pending' = [pending EXCEPT ![r.id] = t]
            \/ \E i \in Gateway!Dropped(r) :
                  pending' = [pending EXCEPT ![i] = None, ![r.id] = t]
    BY <1>2, OneCardinality DEF Gateway!Start
  <2>3. pending[r.id] = None \/ task[pending[r.id]].stage = "done"
    BY <1>2 DEF Gateway!Reopened
  <2>4. \A i \in Gateway!Dropped(r) : i \in Id /\ i # r.id /\ task[pending[i]].stage = "done"
    BY DEF Gateway!Dropped, Gateway!Durable, Gateway!Kept
  <2> HIDE DEF t
  <2>5. /\ pending' \in [Id -> Tasks \cup {None}] /\ pending'[r.id] = t
        /\ \A i \in Id : \/ pending'[i] = pending[i]
                         \/ /\ i = r.id /\ pending'[i] = t
                            /\ pending[i] = None \/ task[pending[i]].stage = "done"
                         \/ pending'[i] = None /\ task[pending[i]].stage = "done"
    <3>1. CASE pending' = [pending EXCEPT ![r.id] = t]
      BY <1>0, <2>1, <2>3, <3>1
    <3>2. ASSUME NEW i \in Gateway!Dropped(r),
                 pending' = [pending EXCEPT ![i] = None, ![r.id] = t]
          PROVE  /\ pending' \in [Id -> Tasks \cup {None}] /\ pending'[r.id] = t
                 /\ \A j \in Id : \/ pending'[j] = pending[j]
                                  \/ /\ j = r.id /\ pending'[j] = t
                                     /\ pending[j] = None \/ task[pending[j]].stage = "done"
                                  \/ pending'[j] = None /\ task[pending[j]].stage = "done"
      BY <1>0, <2>1, <2>3, <2>4, <3>2
    <3>3. QED
      BY <2>2, <3>1, <3>2
  <2>6. GateState'
    BY <1>0, <2>1, <2>5, GateStarts
  <2>7. GateBounded'
    BY <1>0, <1>2, <2>1, <2>2, GateRoom
  <2>8. QED
    BY <1>0, <2>1, <2>6, <2>7 DEF GateIInv, GateHistory
<1>3. CASE Gateway!ReadThrough(c, r)
  <2> DEFINE t == Gateway!Fresh
  <2>1. /\ t \in Tasks /\ \A i \in Id : pending[i] # t
        /\ \A d \in Call : call[d].task # t
        /\ task' = [task EXCEPT ![t] = [req |-> r, stage |-> "new", reply |-> "none"]]
        /\ call' = [call EXCEPT ![c].stage = "waiting", ![c].task = t]
        /\ UNCHANGED <<gwMisled, pending>> /\ r \in Reads
    BY <1>1, <1>3 DEF Gateway!ReadThrough, Gateway!Waits
  <2>2. r \notin Sends
    BY <2>1, GatewayAssumption
  <2> HIDE DEF t
  <2>3. GateState'
    BY <1>0, <2>1, <2>2, GateStarts
  <2>4. GateBounded'
    BY <1>0, <2>1 DEF GateBounded, Gateway!Kept
  <2>5. QED
    BY <1>0, <2>1, <2>3, <2>4 DEF GateIInv, GateHistory
<1>4. ASSUME NEW denying, Gateway!AnswerInside(c, denying), UNCHANGED <<pending, task>>,
             denying /\ call[c].sent => FALSE
      PROVE  GateIInv'
  <2>1. call' = [call EXCEPT ![c] = Gateway!Away] /\ gwMisled' = FALSE
    BY <1>0, <1>4 DEF Gateway!AnswerInside, Gateway!Answer, GateHistory
  <2>2. GateState'
    BY <1>0, <1>u, <1>4, <2>1, GateAnswers
  <2>3. GateBounded' /\ GateHistory'
    BY <1>0, <1>4, <2>1 DEF GateBounded, Gateway!Kept, GateHistory
  <2>4. QED
    BY <2>2, <2>3 DEF GateIInv
<1>5. CASE Gateway!Refuse(c, r)
  BY <1>4, <1>5 DEF Gateway!Refuse
<1>6. CASE /\ pending[r.id] # None /\ Gateway!BoundHere(r)
           /\ Gateway!AnswerInside(c, TRUE) /\ UNCHANGED <<pending, task>>
  <2>1. call[c].sent => aliases[r.id] = r /\ r # None
    BY GatewayAssumption, <1>0 DEF GateState, GateCalls
  <2>2. aliases[r.id] \in {None, task[pending[r.id]].req} /\ task[pending[r.id]].req # r
    BY <1>0, <1>6 DEF GateState, GatePending, Gateway!BoundHere
  <2>3. ~call[c].sent
    BY <2>1, <2>2
  <2>4. QED
    BY <1>4, <1>6, <2>3
<1>7. CASE /\ pending[r.id] # None /\ ~Gateway!Reopened(r) /\ ~Gateway!BoundHere(r)
           /\ Gateway!Waits(c, pending[r.id]) /\ UNCHANGED <<pending, task>>
  <2> DEFINE t == pending[r.id]
             n == [call[c] EXCEPT !.stage = "waiting", !.task = t]
  <2>1. t \in Tasks /\ t # None /\ task[t].req = r
    BY <1>0, <1>7 DEF Gateway!BoundHere
  <2>2. call[c].sent => /\ r \in Sends /\ aliases[r.id] = r /\ posted[intents[r.intent]] > 0
                        /\ task[t].reply # "denied"
    <3>1. call[c].sent => /\ r \in Sends /\ aliases[r.id] = r /\ posted[intents[r.intent]] > 0
      BY <1>0 DEF GateState, GateCalls
    <3>2. r \in Sends /\ task[t].reply = "denied" => FALSE
      BY <1>0, <1>7, <2>1 DEF GateState, GateTasks, Gateway!Reopened
    <3>3. QED
      BY <3>1, <3>2
  <2>3. /\ n \in GateCall /\ n.stage = "waiting" /\ n.req = r /\ n.task = t
        /\ n.sent = call[c].sent
    BY <1>0, <2>1 DEF GateCall, GateState, GateTypes
  <2>4. call' = [call EXCEPT ![c] = n] /\ gwMisled' = gwMisled
    BY <1>0, <1>7 DEF GateState, GateTypes, Gateway!Waits
  <2> HIDE DEF n, t
  <2>5. GateOpening'
    BY <1>0, <2>3, <2>4 DEF GateState, GateOpening, GateTypes
  <2>6. GateState'
    BY <1>0, <1>u, <1>7, <2>1, <2>2, <2>3, <2>4, <2>5, GateCallMoves
  <2>7. GateBounded' /\ GateHistory'
    BY <1>0, <1>7, <2>4 DEF GateBounded, Gateway!Kept, GateHistory
  <2>8. QED
    BY <2>6, <2>7 DEF GateIInv
<1>8. QED
  BY <1>2, <1>3, <1>5, <1>6, <1>7 DEF Gateway!Execute

\* A call arrives, enters the gateway or opens it, and leaves it.
LEMMA GateLazy ==
  ASSUME GateIInv, NEW c \in Call,
         \/ \E r \in Requests : Gateway!Arrive(c, r)
         \/ Gateway!Enter(c) \/ Gateway!Open(c) \/ Gateway!Unavailable(c) \/ Gateway!Disconnect(c)
  PROVE  GateIInv'
<1>0. GateState /\ GateBounded /\ GateHistory
  BY DEF GateIInv
<1>p. pending \in [Id -> Tasks \cup {None}] /\ call \in [Call -> GateCall]
  BY <1>0 DEF GateState, GateTypes
\* the parts that every answer and every entry without a task keep
<1>k. ASSUME GateState', UNCHANGED <<pending, gwCut>>, gwMisled' = FALSE
      PROVE  GateIInv'
  BY <1>0, <1>k DEF GateIInv, GateBounded, Gateway!Kept, GateHistory
<1>1. ASSUME NEW r \in Requests, Gateway!Arrive(c, r)
      PROVE  GateIInv'
  <2> DEFINE n == [stage |-> "arrived", req |-> r, task |-> None, sent |-> Gateway!WasSent(r)]
  <2>1. /\ call' = [call EXCEPT ![c] = n]
        /\ UNCHANGED <<row, intents, aliases, gateway, pending, task, gwWorker, posted,
                       gwMisled, gwCut>>
    BY <1>1 DEF Gateway!Arrive, Gateway!ledgerVars, Gateway!serviceVars
  <2>2. n \in GateCall
    BY DEF GateCall, Gateway!WasSent
  <2>3. Gateway!WasSent(r) =>
           r \in Sends /\ aliases[r.id] = r /\ posted[intents[r.intent]] > 0
    BY GatewayAssumption DEF Gateway!WasSent, Gateway!Saved
  <2>4. n.stage = "arrived" /\ n.req = r /\ (n.sent => Gateway!WasSent(r))
    OBVIOUS
  <2> HIDE DEF n
  <2>5. GateUp' /\ GateOpening'
    BY <1>0, <1>p, <2>1, <2>4 DEF GateState, GateUp, GateOpening, Gateway!Running, Gateway!Live
  <2>6. GateState'
    BY <1>0, <1>p, <2>1, <2>2, <2>3, <2>4, <2>5, GateCallMoves
  <2>7. QED
    BY <1>0, <1>k, <2>1, <2>6 DEF GateHistory
<1>a. ASSUME NEW denying, Gateway!Answer(c, denying), denying /\ call[c].sent => FALSE,
             UNCHANGED <<row, intents, aliases, gateway, pending, task, gwWorker, posted, gwCut>>
      PROVE  GateIInv'
  <2>1. call' = [call EXCEPT ![c] = Gateway!Away] /\ gwMisled' = FALSE
    BY <1>0, <1>a DEF Gateway!Answer, GateHistory
  <2>2. GateUp' /\ \A d \in Call \ {c} : call[d].stage = "opening" => gateway' = "opening"
    BY <1>0, <1>a DEF GateState, GateUp, GateOpening, Gateway!Running, Gateway!Live
  <2>3. GateState'
    BY <1>0, <1>p, <1>a, <2>1, <2>2, GateAnswers
  <2>4. QED
    BY <1>k, <1>a, <2>1, <2>3
<1>2. CASE Gateway!Unavailable(c) \/ Gateway!Disconnect(c)
  <2>1. Gateway!Answer(c, FALSE)
        /\ UNCHANGED <<row, intents, aliases, gateway, pending, task, gwWorker, posted, gwCut>>
    BY <1>2 DEF Gateway!Unavailable, Gateway!Disconnect, Gateway!AnswerInside,
                Gateway!ledgerVars, Gateway!serviceVars
  <2>2. QED
    BY <1>a, <2>1
\* a call that is told to wait at the door, or opens it
<1>b. ASSUME NEW st \in {"unavailable", "opening"}, call[c].stage # "away",
             call' = [call EXCEPT ![c].stage = st],
             UNCHANGED <<row, intents, aliases, pending, task, gwWorker, posted, gwMisled, gwCut>>,
             GateUp', st = "opening" => gateway' = "opening" /\ ~Gateway!Bound(call[c].req),
             \A d \in Call \ {c} : call[d].stage # "opening"
      PROVE  GateIInv'
  <2> DEFINE n == [call[c] EXCEPT !.stage = st]
  <2>1. call' = [call EXCEPT ![c] = n]
    BY <1>p, <1>b
  <2>2. call[c] \in GateCall
    BY <1>p
  <2>3. n \in GateCall /\ n.stage = st /\ n.req = call[c].req /\ n.sent = call[c].sent
    BY <2>2 DEF GateCall
  <2> HIDE DEF n
  <2>4. GateOpening'
    BY <1>p, <1>b, <2>1, <2>3 DEF GateOpening
  <2>5. /\ n.req \in Requests /\ n.stage # "waiting" /\ n.stage # "away"
        /\ n.stage = "opening" => ~Gateway!Bound(n.req)
        /\ n.sent => /\ n.req \in Sends /\ aliases[n.req.id] = n.req
                     /\ posted[intents[n.req.intent]] > 0
    BY <1>0, <1>b, <2>3 DEF GateState, GateCalls
  <2>9. GateState'
    BY <1>0, <1>p, <1>b, <2>1, <2>3, <2>4, <2>5, GateCallMoves
  <2>6. QED
    BY <1>0, <1>k, <1>b, <2>9 DEF GateHistory
<1>3. CASE Gateway!Enter(c)
  <2> DEFINE r == call[c].req
  <2>1. /\ call[c].stage = "arrived" /\ gateway \in {"none", "up"}
        /\ \A d \in Call : call[d].stage # "opening"
        /\ UNCHANGED <<row, intents, aliases, gwWorker, posted, gwCut>>
    BY <1>0, <1>3 DEF Gateway!Enter, Gateway!LockFree, GateState, GateOpening,
                      Gateway!ledgerVars
  <2>2. CASE Gateway!Bound(r)
    <3>1. Gateway!Answer(c, TRUE) /\ UNCHANGED <<gateway, pending, task>>
      BY <1>3, <2>2 DEF Gateway!Enter
    <3>2. ~call[c].sent
      BY <1>0, <2>2, GatewayAssumption DEF GateState, GateCalls, Gateway!Bound
    <3>3. QED
      BY <1>a, <2>1, <3>1, <3>2
  <2>3. CASE ~Gateway!Bound(r)
    <3>1. CASE gateway = "up" /\ gateway' = "up" /\ Gateway!Execute(c, r)
      BY <2>1, <2>3, <3>1, GateExecutes
    <3>2. CASE /\ call' = [call EXCEPT ![c].stage = "unavailable"]
               /\ UNCHANGED <<gateway, pending, task, gwMisled>>
      <4>1. GateUp'
        BY <1>0, <2>1, <3>2 DEF GateState, GateUp, Gateway!Running, Gateway!Live
      <4>2. QED
        BY <1>b, <2>1, <3>2, <4>1
    <3>3. CASE /\ call' = [call EXCEPT ![c].stage = "opening"]
               /\ gateway = "none" /\ gateway' = "opening"
               /\ UNCHANGED <<pending, task, gwMisled>>
      <4>1. GateUp'
        BY <1>0, <2>1, <3>3 DEF GateState, GateUp, Gateway!Running, Gateway!Live
      <4>2. QED
        BY <1>b, <2>1, <2>3, <3>3, <4>1
    <3>4. QED
      BY <1>3, <2>3, <3>1, <3>2, <3>3 DEF Gateway!Enter
  <2>4. QED
    BY <2>2, <2>3
<1>4. CASE Gateway!Open(c)
  <2> DEFINE r == call[c].req
  <2>1. /\ call[c].stage = "opening" /\ gateway = "opening" /\ ~Gateway!Bound(r)
        /\ \A d \in Call \ {c} : call[d].stage # "opening"
        /\ UNCHANGED <<row, intents, aliases, gwWorker, posted, gwCut>>
    BY <1>0, <1>4 DEF Gateway!Open, GateState, GateOpening, GateCalls, Gateway!ledgerVars
  <2>2. CASE gateway' = "up" /\ Gateway!Execute(c, r)
    BY <2>1, <2>2, GateExecutes
  <2>3. CASE /\ \/ call' = [call EXCEPT ![c].stage = "unavailable"]
                \/ call' = [call EXCEPT ![c] = Gateway!Away]
             /\ UNCHANGED <<pending, task, gwMisled>>
    <3>1. GateUp'
      BY <1>0, <2>1, <2>3 DEF GateState, GateUp, Gateway!Running, Gateway!Live
    <3>2. CASE call' = [call EXCEPT ![c].stage = "unavailable"]
      BY <1>b, <2>1, <2>3, <3>1, <3>2
    <3>3. CASE call' = [call EXCEPT ![c] = Gateway!Away]
      <4>1. GateState'
        BY <1>0, <1>p, <2>1, <2>3, <3>1, <3>3, GateAnswers
      <4>2. QED
        BY <1>0, <1>k, <2>1, <2>3, <4>1 DEF GateHistory
    <3>4. QED
      BY <2>3, <3>2, <3>3
  <2>4. QED
    BY <1>4, <2>2, <2>3 DEF Gateway!Open
<1>5. QED
  BY <1>1, <1>2, <1>3, <1>4

\* The reply of a task reaches its call, and makes room.
LEMMA GateReceives ==
  ASSUME GateIInv, NEW c \in Call, Gateway!Receive(c)
  PROVE  GateIInv'
<1> DEFINE t == call[c].task
           o == task[t].req.op
<1>0. GateState /\ GateBounded /\ GateHistory
  BY DEF GateIInv
<1>p. pending \in [Id -> Tasks \cup {None}] /\ call \in [Call -> GateCall]
  BY <1>0 DEF GateState, GateTypes
<1>1. /\ call[c].stage = "waiting" /\ call' = [call EXCEPT ![c] = Gateway!Away]
      /\ gwMisled' = (gwMisled \/ ((task[t].stage = "done" /\ task[t].reply \in {"denied", "conflict"})
                                    /\ call[c].sent))
      /\ UNCHANGED <<row, intents, aliases, gateway, task, gwWorker, posted, gwCut>>
  BY DEF Gateway!Receive, Gateway!AnswerInside, Gateway!Answer, Gateway!ledgerVars
<1>2. t \in Tasks /\ task[t].req = call[c].req
  BY <1>0, <1>1, <1>p DEF GateState, GateCalls, GateCall
<1>3. ~(task[t].reply \in {"denied", "conflict"} /\ call[c].sent)
  <2> SUFFICES ASSUME call[c].sent, task[t].reply = "conflict" PROVE FALSE
    BY <1>0, <1>1 DEF GateState, GateCalls
  <2> DEFINE r == call[c].req
  <2>1. r \in Sends /\ aliases[r.id] = r /\ Barred(r)
    BY <1>0, <1>2 DEF GateState, GateCalls, GateTasks
  <2>2. row[intents[r.intent]].input = r.input /\ ~Gateway!Bound(r)
    BY <1>0, <2>1 DEF GateState, GateLedger, Gateway!Bound
  <2>3. QED
    BY <2>1, <2>2 DEF Barred
<1>4. /\ pending' \in [Id -> Tasks \cup {None}]
      /\ \A i \in Id : \/ pending'[i] = pending[i]
                       \/ /\ pending'[i] = None
                          /\ aliases[i] # None \/ task[pending[i]].stage = "done"
  <2>1. CASE pending' = pending
    BY <1>p, <2>1
  <2>2. CASE /\ task[t].req \in Reads /\ row[o] # None
             /\ pending' = [i \in Id |-> IF Gateway!Collected(o, i) THEN None ELSE pending[i]]
    <3>1. o \in Id /\ aliases[o] # None
      BY <1>0, <2>2, GatewayAssumption DEF GateState, GateOnce
    <3>2. \A i \in Id : Gateway!Collected(o, i) =>
             aliases[i] # None \/ task[pending[i]].stage = "done"
      BY <3>1 DEF Gateway!Collected, Gateway!Durable
    <3> HIDE DEF o
    <3>3. QED
      BY <1>p, <2>2, <3>2
  <2>3. QED
    BY <2>1, <2>2 DEF Gateway!Receive
<1>5. GateUp' /\ \A d \in Call \ {c} : call[d].stage = "opening" => gateway' = "opening"
  BY <1>0, <1>1 DEF GateState, GateUp, GateOpening, Gateway!Running, Gateway!Live
<1>6. GateState'
  BY <1>0, <1>1, <1>4, <1>5, GateAnswers
<1>7. GateBounded'
  <2>1. Gateway!Kept' \subseteq Gateway!Kept
    BY <1>4 DEF Gateway!Kept
  <2>2. QED
    BY <1>0, <2>1, GateKeepsFewer
<1>8. GateHistory'
  BY <1>0, <1>1, <1>3 DEF GateHistory
<1>9. QED
  BY <1>6, <1>7, <1>8 DEF GateIInv

\* The gateway closes, or its process ends: what it had in memory is gone.
LEMMA GateEmpties ==
  ASSUME GateIInv,
         \/ Gateway!CloseWhenIdle \/ Gateway!Close \/ Gateway!CloseResources
         \/ Gateway!Closed \/ Gateway!Restart \/ Gateway!RetryAgain
  PROVE  GateIInv'
<1>0. GateState /\ GateBounded /\ GateHistory
  BY DEF GateIInv
<1>1. CASE /\ UNCHANGED <<row, intents, aliases, call, pending, task, gwWorker, posted, gwMisled,
                          gwCut>>
           /\ gateway' = gateway \/ (gateway = "closing" /\ gateway' = "none")
  <2>1. GateUp' /\ GateOpening'
    BY <1>0, <1>1 DEF GateState, GateUp, GateOpening, Gateway!Running, Gateway!Live
  <2>2. GateTypes' /\ GateOnce' /\ GateIntents' /\ GateLedger' /\ GateTasks' /\ GatePending'
        /\ GateCalls'
    BY <1>0, <1>1 DEF GateState, GateTypes, GateOnce, GateIntents, GateLedger, GateTasks,
                      GatePending, GateCalls, Barred, Gateway!Bound, Gateway!Live
  <2>3. GateBounded' /\ GateHistory'
    BY <1>0, <1>1 DEF GateBounded, GateHistory, Gateway!Kept
  <2>4. QED
    BY <2>1, <2>2, <2>3 DEF GateIInv, GateState
<1>2. CASE /\ pending' = [i \in Id |-> None]
           /\ task' = [t \in Tasks |-> [req |-> None, stage |-> "free", reply |-> "none"]]
           /\ gwWorker' = [o \in Id |-> "none"]
           /\ UNCHANGED <<row, intents, aliases, posted, gwMisled, gwCut>>
           /\ \/ /\ call' = call
                 /\ \A c \in Call : call[c].stage \notin {"opening", "waiting"}
              \/ call' = [c \in Call |-> Gateway!Away]
  <2> DEFINE none == [req |-> None, stage |-> "free", reply |-> "none"]
             away == [stage |-> "away", req |-> None, task |-> None, sent |-> FALSE]
  <2>1. none \in GateTask /\ away \in GateCall
    BY DEF GateTask, GateCall
  <2>2. /\ \A t \in Tasks : task'[t].stage = "free" /\ task'[t].reply = "none"
        /\ \A c \in Call : \/ call'[c] = away
                           \/ call'[c] = call[c] /\ call[c].stage \notin {"opening", "waiting"}
        /\ call' \in [Call -> GateCall] /\ task' \in [Tasks -> GateTask]
    <3>1. call \in [Call -> GateCall]
      BY <1>0 DEF GateState, GateTypes
    <3>2. /\ task' = [t \in Tasks |-> none]
          /\ \/ call' = [c \in Call |-> away]
             \/ /\ call' = call
                /\ \A c \in Call : call[c].stage \notin {"opening", "waiting"}
      BY <1>2 DEF Gateway!Away
    <3>3. none.stage = "free" /\ none.reply = "none"
      OBVIOUS
    <3> HIDE DEF none, away
    <3>4. /\ \A t \in Tasks : task'[t].stage = "free" /\ task'[t].reply = "none"
          /\ task' \in [Tasks -> GateTask]
      BY <2>1, <3>2, <3>3
    <3>5. CASE call' = [c \in Call |-> away]
      BY <2>1, <3>4, <3>5
    <3>6. CASE call' = call
      BY <3>1, <3>2, <3>4, <3>6
    <3>7. QED
      BY <3>2, <3>5, <3>6
  <2>3. GateTypes'
    BY <1>0, <1>2, <2>2 DEF GateState, GateTypes
  <2>4. GateUp' /\ GateOpening'
    BY <1>2, <2>2 DEF GateUp, GateOpening, Gateway!Running, Gateway!Live
  <2>5. GateOnce' /\ GateIntents' /\ GateLedger'
    BY <1>0, <1>2 DEF GateState, GateOnce, GateIntents, GateLedger, Gateway!Live
  <2>6. GateTasks' /\ GatePending'
    BY <1>2, <2>2 DEF GateTasks, GatePending
  <2>7. GateCalls'
    BY <1>0, <1>2, <2>2 DEF GateState, GateCalls, Gateway!Bound
  <2>8. GateBounded'
    <3>1. Gateway!Kept' = {}
      BY <1>2 DEF Gateway!Kept
    <3>2. QED
      BY <3>1, FS_EmptySet, GatewayAssumption DEF GateBounded
  <2>9. QED
    BY <1>0, <1>2, <2>3, <2>4, <2>5, <2>6, <2>7, <2>8 DEF GateIInv, GateState, GateHistory
<1>3. CASE Gateway!Close \/ Gateway!Closed \/ Gateway!RetryAgain
  BY <1>1, <1>3 DEF Gateway!Close, Gateway!Closed, Gateway!RetryAgain, Gateway!ledgerVars
<1>4. CASE Gateway!Restart
  BY <1>2, <1>4 DEF Gateway!Restart, Gateway!Emptied, Gateway!Unowned, Gateway!NoTask,
                    Gateway!ledgerVars
<1>5. CASE Gateway!CloseResources
  <2>1. \A c \in Call : call[c].stage \notin {"opening", "waiting"}
    BY <1>0, <1>5 DEF Gateway!CloseResources, Gateway!Inside, GateState, GateOpening
  <2>2. QED
    BY <1>2, <1>5, <2>1 DEF Gateway!CloseResources, Gateway!Emptied, Gateway!Unowned,
                            Gateway!NoTask, Gateway!ledgerVars
<1>6. CASE Gateway!CloseWhenIdle
  <2>1. CASE UNCHANGED <<gateway, pending, task, gwWorker, gwCut>>
    BY <1>1, <1>6, <2>1 DEF Gateway!CloseWhenIdle, Gateway!ledgerVars
  <2>2. CASE /\ gateway = "up" /\ ~Gateway!HasLiveWork /\ Gateway!Inside = {}
             /\ gwCut' = gwCut \cup {o \in Id : Gateway!Live(o)} /\ Gateway!Emptied
    <3>1. \A c \in Call : call[c].stage \notin {"opening", "waiting"}
      BY <1>0, <2>2 DEF Gateway!Inside, GateState, GateOpening
    <3>2. gwCut' = gwCut
      BY <2>2 DEF Gateway!HasLiveWork
    <3>3. QED
      BY <1>2, <1>6, <2>2, <3>1, <3>2 DEF Gateway!CloseWhenIdle, Gateway!Emptied,
                                          Gateway!Unowned, Gateway!NoTask, Gateway!ledgerVars
  <2>3. QED
    BY <1>6, <2>1, <2>2 DEF Gateway!CloseWhenIdle
<1>7. QED
  BY <1>3, <1>4, <1>5, <1>6

\* What is left to show of a step of a task that leaves the ledger alone.
LEMMA GateReplies ==
  ASSUME GateIInv, NEW t \in Tasks, Gateway!Running(t), NEW n \in GateTask,
         task' = [task EXCEPT ![t] = n], n.req = task[t].req,
         UNCHANGED <<row, intents, aliases, gateway, call, pending, gwWorker, posted, gwMisled,
                     gwCut>>,
         n.reply # "none" => n.stage = "done",
         n.stage \in {"observing", "done"},
         n.stage = "observing" => n.req \in Reads,
         n.reply = "conflict" => n.req \in Sends /\ Barred(n.req),
         n.reply = "denied" /\ n.req \in Sends => posted[intents[n.req.intent]] = 0
  PROVE  GateIInv'
<1>0. GateState /\ GateBounded /\ GateHistory
  BY DEF GateIInv
<1>1. /\ task'[t] = n /\ \A u \in Tasks : u # t => task'[u] = task[u]
      /\ \A u \in Tasks : task'[u].req = task[u].req
  BY <1>0 DEF GateState, GateTypes
<1>2. GateTypes'
  BY <1>0 DEF GateState, GateTypes
<1>3. GateUp' /\ GateOpening'
  BY <1>0 DEF GateState, GateUp, GateOpening
<1>4. GateOnce' /\ GateIntents' /\ GateLedger'
  BY <1>0 DEF GateState, GateOnce, GateIntents, GateLedger, Gateway!Live
<1>5. GateTasks'
  BY <1>0, <1>1 DEF GateState, GateTasks, Barred, Gateway!Bound
<1>6. GatePending'
  BY <1>0, <1>1 DEF GateState, GatePending, GateTypes
<1>7. GateCalls'
  <2>1. \A c \in Call : call[c].stage = "waiting" => call[c].task \in Tasks
    BY <1>0 DEF GateState, GateTypes, GateCalls, GateCall
  <2>2. QED
    BY <1>0, <1>1, <2>1 DEF GateState, GateCalls, Gateway!Bound
<1>8. GateBounded' /\ GateHistory'
  BY <1>0 DEF GateBounded, GateHistory, Gateway!Kept
<1>9. QED
  BY <1>2, <1>3, <1>4, <1>5, <1>6, <1>7, <1>8 DEF GateIInv, GateState

\* The replies of the session's handlers that leave the ledger alone.
LEMMA GateHandles ==
  ASSUME GateIInv, NEW t \in Tasks,
         Gateway!PrepareConflict(t) \/ Gateway!Acknowledge(t) \/ Gateway!Observe(t)
  PROVE  GateIInv'
<1> DEFINE r == task[t].req
           Replied(a) == [task[t] EXCEPT !.stage = "done", !.reply = a]
           Looks == [task[t] EXCEPT !.stage = "observing"]
<1>0. GateState /\ task[t] \in GateTask /\ task \in [Tasks -> GateTask]
  BY DEF GateIInv, GateState, GateTypes
<1>1. /\ UNCHANGED <<row, intents, aliases, gateway, call, pending, gwWorker, posted, gwMisled,
                     gwCut>>
      /\ Gateway!Running(t)
  BY DEF Gateway!PrepareConflict, Gateway!Acknowledge, Gateway!Observe, Gateway!ledgerVars,
         Gateway!serviceVars, Gateway!Running
<1>2. \A a \in {"conflict", "denied", "running", "unknown", "result"} :
         /\ Replied(a) \in GateTask /\ Replied(a).req = r /\ Replied(a).reply = a
         /\ Replied(a).stage = "done"
  BY <1>0 DEF GateTask
<1>3. Looks \in GateTask /\ Looks.req = r /\ Looks.reply = task[t].reply /\ Looks.stage = "observing"
  BY <1>0 DEF GateTask
<1>4. CASE Gateway!PrepareConflict(t)
  <2>1. r \in Sends /\ Gateway!Conflicts(r) /\ task' = [task EXCEPT ![t] = Replied("conflict")]
    BY <1>0, <1>4 DEF Gateway!PrepareConflict, Gateway!Reply
  <2>2. Barred(r)
    <3>1. CASE intents[r.intent] = None /\ row[r.id] # None
      <4>1. aliases[r.id] # None /\ aliases[r.id] # r
        BY <1>0, <2>1, <3>1, GatewayAssumption DEF GateState, GateOnce, GateLedger
      <4>2. QED
        BY <4>1 DEF Barred, Gateway!Bound
    <3>2. QED
      BY <2>1, <3>1 DEF Gateway!Conflicts, Gateway!Target, Barred
  <2> HIDE DEF Replied, r
  <2>3. QED
    BY <1>1, <1>2, <2>1, <2>2, GateReplies DEF r
<1>5. CASE Gateway!Acknowledge(t)
  <2>1. PICK a \in {"denied", "running", "unknown", "result"} :
           /\ task' = [task EXCEPT ![t] = Replied(a)]
           /\ a = "denied" => row[Gateway!Target(r)].state = "prepared"
    BY <1>0, <1>5 DEF Gateway!Acknowledge, Gateway!Reply
  <2>2. r \in Sends /\ aliases[r.id] = r
    BY <1>0, <1>5 DEF Gateway!Acknowledge, GateState, GateTasks
  <2>3. intents[r.intent] # None /\ intents[r.intent] \in Id
    BY <1>0, <2>2 DEF GateState, GateLedger, GateTypes, Gateway!Intent
  <2>4. a = "denied" => posted[intents[r.intent]] = 0
    BY <1>0, <2>1, <2>3 DEF GateState, GateOnce, Gateway!Target
  <2> HIDE DEF Replied, r
  <2>5. QED
    BY <1>1, <1>2, <2>1, <2>4, GateReplies DEF r
<1>6. CASE Gateway!Observe(t)
  <2>1. /\ r \in Reads /\ task[t].stage = "new"
        /\ task' = [task EXCEPT ![t] = Looks] \/ task' = [task EXCEPT ![t] = Replied("result")]
    BY <1>0, <1>6 DEF Gateway!Observe, Gateway!Reply
  <2>2. task[t].reply = "none"
    BY <1>0, <2>1 DEF GateState, GateTasks
  <2>3. CASE task' = [task EXCEPT ![t] = Looks]
    <3> HIDE DEF Looks, r
    <3>1. QED
      BY <1>1, <1>3, <2>1, <2>2, <2>3, GateReplies DEF r
  <2>4. CASE task' = [task EXCEPT ![t] = Replied("result")]
    <3> HIDE DEF Replied, r
    <3>1. QED
      BY <1>1, <1>2, <2>4, GateReplies DEF r
  <2>5. QED
    BY <2>1, <2>3, <2>4
<1>7. QED
  BY <1>4, <1>5, <1>6

\* A step of a submission under way, or settled: of its row, its worker, its posts.
Submits(o, n, w, p) ==
    /\ row[o] # None /\ n \in GateRow /\ n.input = row[o].input
    /\ row' = [row EXCEPT ![o] = n]
    /\ w \in {"none", "waiting", "preparing", "posting", "posted", "failed"}
    /\ gwWorker' = [gwWorker EXCEPT ![o] = w]
    /\ p \in Nat /\ posted' = [posted EXCEPT ![o] = p]
    /\ posted[o] <= p /\ p <= 1
    /\ n.state = "prepared" => p = 0 /\ w \notin {"posting", "posted"}
    /\ w = "posting" => p = 0
    /\ w \in {"waiting", "preparing", "posting", "posted"} => Gateway!Live(o)
    /\ UNCHANGED <<intents, aliases, gateway, call, pending, gwMisled, gwCut>>
    /\ task' \in [Tasks -> GateTask]
    /\ \A t \in Tasks : \/ task'[t] = task[t]
                        \/ /\ Gateway!Running(t) /\ task'[t].req = task[t].req
                           /\ task'[t].stage = "done" /\ task'[t].reply = "result"

\* It keeps the invariant.
LEMMA GateSubmits ==
  ASSUME GateIInv, NEW o \in Id, NEW n, NEW w, NEW p, Submits(o, n, w, p)
  PROVE  GateIInv'
<1> USE DEF Submits
<1>0. GateState /\ GateBounded /\ GateHistory /\ n # None
  BY GatewayAssumption DEF GateIInv, GateRow
<1>1. /\ row'[o] = n /\ gwWorker'[o] = w /\ posted'[o] = p
      /\ \A q \in Id : q # o => /\ row'[q] = row[q] /\ gwWorker'[q] = gwWorker[q]
                                /\ posted'[q] = posted[q]
  BY <1>0 DEF GateState, GateTypes
<1>2. GateTypes'
  BY <1>0 DEF GateState, GateTypes
<1>3. GateUp'
  BY <1>0, <1>1 DEF GateState, GateUp, Gateway!Running, Gateway!Live
<1>4. GateOpening'
  BY <1>0 DEF GateState, GateOpening
<1>5. GateOnce'
  BY <1>0, <1>1 DEF GateState, GateOnce, Gateway!Live
<1>6. GateIntents'
  BY <1>0, <1>1 DEF GateState, GateIntents, GateTypes
<1>7. \A q \in Id : row[q] # None => row'[q].input = row[q].input
  BY <1>0, <1>1
<1>8. GateLedger'
  <2>1. \A r \in Sends : aliases[r.id] = r => intents[r.intent] \in Id /\ row[intents[r.intent]] # None
    BY <1>0, GatewayAssumption DEF GateState, GateLedger, GateTypes, GateIntents, Gateway!Intent
  <2>2. QED
    BY <1>0, <1>7, <2>1 DEF GateState, GateLedger
<1>9. ASSUME NEW r \in Sends, Barred(r)
      PROVE  Barred(r)'
  <2>1. intents[r.intent] # None => intents[r.intent] \in Id /\ row[intents[r.intent]] # None
    BY <1>0 DEF GateState, GateTypes, GateIntents, Gateway!Intent
  <2>2. QED
    BY <1>7, <1>9, <2>1 DEF Barred, Gateway!Bound
<1>10. GateTasks'
  BY <1>0, <1>9 DEF GateState, GateTasks, Gateway!Running
<1>11. \A t \in Tasks : task'[t].req = task[t].req
  OBVIOUS
<1>12. GatePending'
  BY <1>0, <1>11 DEF GateState, GatePending, GateTypes
<1>13. GateCalls'
  <2>1. \A c \in Call : call[c].stage = "waiting" => call[c].task \in Tasks
    BY <1>0 DEF GateState, GateTypes, GateCalls, GateCall
  <2>2. \A q \in Id : posted[q] > 0 => posted'[q] > 0
    BY <1>0, <1>1 DEF GateState, GateTypes
  <2>3. \A c \in Call : call[c].sent => intents[call[c].req.intent] \in Id
    BY <1>0 DEF GateState, GateCalls, GateLedger, GateTypes, Gateway!Intent
  <2>4. \A c \in Call : call[c].stage = "waiting" =>
           /\ task'[call[c].task].req = task[call[c].task].req
           /\ task[call[c].task].reply # "denied" => task'[call[c].task].reply # "denied"
    BY <2>1
  <2>5. QED
    BY <1>0, <2>2, <2>3, <2>4 DEF GateState, GateCalls, Gateway!Bound
<1>14. GateBounded' /\ GateHistory'
  BY <1>0 DEF GateBounded, GateHistory, Gateway!Kept
<1>15. QED
  BY <1>2, <1>3, <1>4, <1>5, <1>6, <1>8, <1>10, <1>12, <1>13, <1>14 DEF GateIInv, GateState

\* The steps of a submission that has a row.
LEMMA GateWorks ==
  ASSUME GateIInv, NEW o \in Id,
         \/ Gateway!CancelUnsent(o) \/ Gateway!BeginPreparation(o) \/ Gateway!PreparationFails(o)
         \/ Gateway!PreparationRefused(o) \/ Gateway!BeginSend(o) \/ Gateway!Post(o)
         \/ Gateway!PreflightFails(o) \/ Gateway!Posted(o)
  PROVE  GateIInv'
<1> DEFINE Now(s) == [row[o] EXCEPT !.state = s]
           Failed(b) == [row[o] EXCEPT !.failed = b]
<1>0. /\ GateState /\ row \in [Id -> GateRow \cup {None}]
      /\ gwWorker \in [Id -> {"none", "waiting", "preparing", "posting", "posted", "failed"}]
      /\ posted \in [Id -> Nat] /\ task \in [Tasks -> GateTask]
  BY DEF GateIInv, GateState, GateTypes
<1>1. UNCHANGED <<intents, aliases, gateway, call, pending, gwMisled, gwCut, task>>
  BY DEF Gateway!CancelUnsent, Gateway!BeginPreparation, Gateway!PreparationFails,
         Gateway!PreparationRefused, Gateway!BeginSend, Gateway!Post, Gateway!PreflightFails,
         Gateway!Posted, Gateway!ledgerVars, Gateway!serviceVars
<1>2. row[o] # None
  BY <1>0 DEF GateState, GateOnce, Gateway!Live, Gateway!CancelUnsent, Gateway!BeginPreparation,
              Gateway!PreparationFails, Gateway!PreparationRefused, Gateway!BeginSend,
              Gateway!Post, Gateway!PreflightFails, Gateway!Posted, Gateway!Worker
<1>3. row[o] \in GateRow /\ posted[o] \in Nat /\ posted[o] <= 1
  BY <1>0, <1>2 DEF GateState, GateOnce
<1>4. /\ \A s \in {"cancelled", "sending", "preflight_failed", "submitted"} :
            Now(s) \in GateRow /\ Now(s).input = row[o].input /\ Now(s).state = s
      /\ \A b \in BOOLEAN : /\ Failed(b) \in GateRow /\ Failed(b).input = row[o].input
                            /\ Failed(b).state = row[o].state
  BY <1>3 DEF GateRow
<1>5. \A t \in Tasks : task'[t] = task[t]
  BY <1>1
<1>6. /\ row[o].state = "prepared" => posted[o] = 0 /\ gwWorker[o] \notin {"posting", "posted"}
      /\ gwWorker[o] = "posting" => posted[o] = 0
  BY <1>0 DEF GateState, GateOnce
\* a step that posts nothing
<1>7. ASSUME NEW w \in {"none", "waiting", "preparing", "posting", "posted", "failed"},
             NEW n \in GateRow, n.input = row[o].input, row' = [row EXCEPT ![o] = n],
             gwWorker' = [gwWorker EXCEPT ![o] = w], posted' = posted,
             n.state = "prepared" => row[o].state = "prepared" /\ w \notin {"posting", "posted"},
             w = "posting" => posted[o] = 0,
             w \in {"waiting", "preparing", "posting", "posted"} => Gateway!Live(o)
      PROVE  GateIInv'
  <2>1. posted' = [posted EXCEPT ![o] = posted[o]]
    BY <1>0, <1>7
  <2>2. QED
    <3>1. Submits(o, n, w, posted[o])
      <4>1. n.state = "prepared" => posted[o] = 0 /\ w \notin {"posting", "posted"}
        BY <1>6, <1>7
      <4>2. task' \in [Tasks -> GateTask]
        BY <1>0, <1>1
      <4>3. posted[o] <= posted[o]
        BY <1>3
      <4>4. QED
        BY <1>1, <1>2, <1>3, <1>5, <1>7, <2>1, <4>1, <4>2, <4>3 DEF Submits
    <3>2. QED
      BY <3>1, GateSubmits
<1>8. row = [row EXCEPT ![o] = row[o]] /\ gwWorker = [gwWorker EXCEPT ![o] = gwWorker[o]]
  BY <1>0
<1>9. CASE Gateway!CancelUnsent(o)
  <2>1. /\ row' = [row EXCEPT ![o] = Now("cancelled")] /\ posted' = posted
        /\ gwWorker' = [gwWorker EXCEPT ![o] = gwWorker[o]]
    BY <1>0, <1>8, <1>9 DEF Gateway!CancelUnsent
  <2> HIDE DEF Now
  <2>2. gwWorker[o] # "posting" \/ posted[o] = 0
    BY <1>6
  <2>3. QED
    BY <1>0, <1>4, <1>6, <1>7, <2>1, <2>2 DEF Gateway!Live
<1>10. CASE Gateway!BeginPreparation(o)
  <2>1. /\ row' = [row EXCEPT ![o] = row[o]] /\ posted' = posted /\ Gateway!Live(o)
        /\ \E w \in {"preparing", "none"} : gwWorker' = [gwWorker EXCEPT ![o] = w]
    BY <1>8, <1>10 DEF Gateway!BeginPreparation, Gateway!Worker, Gateway!ledgerVars, Gateway!Live
  <2>2. QED
    BY <1>3, <1>7, <2>1
<1>11. CASE Gateway!PreparationFails(o)
  <2>1. /\ row' = [row EXCEPT ![o] = Failed(row[o].state = "prepared")] /\ posted' = posted
        /\ gwWorker' = [gwWorker EXCEPT ![o] = "none"]
    BY <1>0, <1>11 DEF Gateway!PreparationFails, Gateway!Worker
  <2>2. (row[o].state = "prepared") \in BOOLEAN
    OBVIOUS
  <2> HIDE DEF Failed
  <2>3. QED
    BY <1>4, <1>7, <2>1, <2>2
<1>12. CASE Gateway!PreparationRefused(o)
  <2>1. /\ row' = [row EXCEPT ![o] = row[o]] /\ posted' = posted
        /\ gwWorker' = [gwWorker EXCEPT ![o] = "failed"]
    BY <1>8, <1>12 DEF Gateway!PreparationRefused, Gateway!Worker, Gateway!ledgerVars
  <2>2. QED
    BY <1>3, <1>7, <2>1
<1>13. CASE Gateway!BeginSend(o)
  <2>1. CASE Gateway!Reservable(o)
    <3>1. /\ row' = [row EXCEPT ![o] = Now("sending")] /\ posted' = posted
          /\ gwWorker' = [gwWorker EXCEPT ![o] = "posting"] /\ Gateway!Live(o)
          /\ row[o].state = "prepared"
      BY <1>0, <1>13, <2>1 DEF Gateway!BeginSend, Gateway!Worker, Gateway!Reservable, Gateway!Live
    <3> HIDE DEF Now
    <3>2. QED
      BY <1>4, <1>6, <1>7, <3>1
  <2>2. CASE ~Gateway!Reservable(o)
    <3>1. /\ row' = [row EXCEPT ![o] = row[o]] /\ posted' = posted
          /\ gwWorker' = [gwWorker EXCEPT ![o] = "none"]
      BY <1>8, <1>13, <2>2 DEF Gateway!BeginSend, Gateway!Worker
    <3>2. QED
      BY <1>3, <1>7, <3>1
  <2>3. QED
    BY <2>1, <2>2
<1>14. CASE Gateway!Post(o)
  <2>1. /\ row' = [row EXCEPT ![o] = row[o]] /\ posted' = [posted EXCEPT ![o] = posted[o] + 1]
        /\ gwWorker' = [gwWorker EXCEPT ![o] = "posted"] /\ Gateway!Live(o)
        /\ gwWorker[o] = "posting"
    BY <1>0, <1>8, <1>14 DEF Gateway!Post, Gateway!Worker, Gateway!ledgerVars, Gateway!Live
  <2>2. posted[o] + 1 = 1 /\ row[o].state # "prepared"
    BY <1>0, <1>6, <2>1
  <2>3. QED
    <3>1. Submits(o, row[o], "posted", posted[o] + 1)
      BY <1>1, <1>2, <1>3, <1>0, <1>5, <2>1, <2>2 DEF Submits
    <3>2. QED
      BY <3>1, GateSubmits
<1>15. CASE Gateway!PreflightFails(o)
  <2>1. /\ row' = [row EXCEPT ![o] = Now("preflight_failed")] /\ posted' = posted
        /\ gwWorker' = [gwWorker EXCEPT ![o] = "failed"]
    BY <1>0, <1>15 DEF Gateway!PreflightFails, Gateway!Worker
  <2> HIDE DEF Now
  <2>2. QED
    BY <1>4, <1>7, <2>1
<1>16. CASE Gateway!Posted(o)
  <2>1. /\ posted' = posted
        /\ row' = [row EXCEPT ![o] = Now("submitted")] \/ row' = [row EXCEPT ![o] = row[o]]
        /\ \E w \in {"none", "failed"} : gwWorker' = [gwWorker EXCEPT ![o] = w]
    BY <1>0, <1>8, <1>16 DEF Gateway!Posted, Gateway!Worker
  <2> HIDE DEF Now
  <2>2. QED
    BY <1>3, <1>4, <1>7, <2>1
<1>17. QED
  BY <1>9, <1>10, <1>11, <1>12, <1>13, <1>14, <1>15, <1>16

\* An observation that looks at the Chat settles a row that was posted.
LEMMA GateRecovers ==
  ASSUME GateIInv, NEW t \in Tasks, Gateway!Recover(t)
  PROVE  GateIInv'
<1> DEFINE o == task[t].req.op
           done == [task[t] EXCEPT !.stage = "done", !.reply = "result"]
           Now(s) == [row[o] EXCEPT !.state = s]
<1>0. /\ GateState /\ row \in [Id -> GateRow \cup {None}] /\ task \in [Tasks -> GateTask]
      /\ posted \in [Id -> Nat]
      /\ gwWorker \in [Id -> {"none", "waiting", "preparing", "posting", "posted", "failed"}]
  BY DEF GateIInv, GateState, GateTypes
<1>1. /\ task[t].stage = "observing" /\ Gateway!Running(t) /\ o \in Id
      /\ UNCHANGED <<intents, aliases, gateway, call, pending, gwWorker, posted, gwMisled, gwCut>>
  BY <1>0, GatewayAssumption
  DEF Gateway!Recover, Gateway!Running, GateState, GateTasks, Gateway!serviceVars
<1>2. task' = [task EXCEPT ![t] = done]
  BY <1>0 DEF Gateway!Recover, Gateway!Reply
<1>3. done \in GateTask /\ done.req = task[t].req /\ done.stage = "done" /\ done.reply = "result"
  BY <1>0 DEF GateTask
<1> HIDE DEF done
<1>4. CASE row' = row
  BY <1>1, <1>2, <1>3, <1>4, GateReplies
<1>5. ASSUME NEW s \in {"submitted", "completed"}, posted[o] > 0,
             row' = [row EXCEPT ![o].state = s]
      PROVE  GateIInv'
  <2>1. row[o] # None /\ row[o] \in GateRow
    BY <1>0, <1>1, <1>5 DEF GateState, GateOnce
  <2>2. Now(s) \in GateRow /\ Now(s).input = row[o].input /\ Now(s).state = s
    BY <2>1 DEF GateRow
  <2>3. row' = [row EXCEPT ![o] = Now(s)]
    BY <1>0, <1>5
  <2>4. /\ posted' = [posted EXCEPT ![o] = posted[o]]
        /\ gwWorker' = [gwWorker EXCEPT ![o] = gwWorker[o]]
        /\ posted[o] \in Nat /\ posted[o] <= 1
        /\ gwWorker[o] = "posting" => posted[o] = 0
    BY <1>0, <1>1 DEF GateState, GateOnce
  <2>5. /\ task' \in [Tasks -> GateTask]
        /\ \A u \in Tasks : \/ task'[u] = task[u]
                            \/ /\ Gateway!Running(u) /\ task'[u].req = task[u].req
                               /\ task'[u].stage = "done" /\ task'[u].reply = "result"
    BY <1>0, <1>1, <1>2, <1>3
  <2>6. gwWorker[o] \in {"waiting", "preparing", "posting", "posted"} => Gateway!Live(o)
    BY DEF Gateway!Live
  <2> HIDE DEF Now, o
  <2>7. QED
    <3>1. Submits(o, Now(s), gwWorker[o], posted[o])
      <4>1. Now(s).state # "prepared"
        BY <2>2
      <4>2. gwWorker[o] \in {"none", "waiting", "preparing", "posting", "posted", "failed"}
        BY <1>0, <1>1
      <4>3. posted[o] <= posted[o]
        BY <2>4
      <4>4. QED
        BY <1>1, <2>1, <2>2, <2>3, <2>4, <2>5, <2>6, <4>1, <4>2, <4>3 DEF Submits
    <3>2. QED
      BY <1>1, <3>1, GateSubmits
<1>6. QED
  BY <1>4, <1>5 DEF Gateway!Recover

\* A send that is no conflict gets its submission, or is one more alias of it.
LEMMA GatePrepares ==
  ASSUME GateIInv, NEW t \in Tasks, Gateway!Prepare(t)
  PROVE  GateIInv'
<1> DEFINE r == task[t].req
           o == Gateway!Target(r)
           made == [state |-> "prepared", input |-> r.input, failed |-> FALSE]
           acking == [task[t] EXCEPT !.stage = "acking"]
           settled == [task[t] EXCEPT !.stage = "done", !.reply = "result"]
           BarredNow(s) == \/ aliases'[s.id] # None /\ aliases'[s.id] # s
                           \/ /\ intents'[s.intent] # None
                              /\ row'[intents'[s.intent]].input # s.input
<1>0. /\ GateState /\ row \in [Id -> GateRow \cup {None}] /\ task \in [Tasks -> GateTask]
      /\ intents \in [Gateway!Intent -> Id \cup {None}] /\ aliases \in [Id -> Sends \cup {None}]
      /\ posted \in [Id -> Nat] /\ pending \in [Id -> Tasks \cup {None}]
      /\ gwWorker \in [Id -> {"none", "waiting", "preparing", "posting", "posted", "failed"}]
  BY DEF GateIInv, GateState, GateTypes
<1>1. /\ task[t].stage = "new" /\ r \in Sends /\ ~Gateway!Conflicts(r) /\ r # None
      /\ r.id \in Id /\ r.intent \in Gateway!Intent
      /\ UNCHANGED <<gateway, call, pending, posted, gwMisled, gwCut>>
  BY GatewayAssumption DEF Gateway!Prepare, Gateway!serviceVars, Gateway!Intent
<1>2. /\ aliases[r.id] \in {None, r}
      /\ intents[r.intent] = None => row[r.id] = None /\ o = r.id
      /\ intents[r.intent] # None => /\ o = intents[r.intent] /\ row[o] # None
                                     /\ row[o].input = r.input
      /\ o \in Id
  BY <1>0, <1>1 DEF Gateway!Conflicts, Gateway!Bound, Gateway!Target, GateState, GateIntents
<1>3. /\ intents' = [intents EXCEPT ![r.intent] = o] /\ aliases' = [aliases EXCEPT ![r.id] = r]
      /\ \/ /\ row[o] # None /\ row[o].state # "prepared"
            /\ task' = [task EXCEPT ![t] = settled] /\ UNCHANGED <<row, gwWorker>>
         \/ /\ row[o] = None \/ row[o].state = "prepared"
            /\ task' = [task EXCEPT ![t] = acking]
            /\ \/ Gateway!Live(o) /\ UNCHANGED <<row, gwWorker>>
               \/ /\ ~Gateway!Live(o) /\ row' = [row EXCEPT ![o] = made]
                  /\ gwWorker' = [gwWorker EXCEPT ![o] = "waiting"]
  BY <1>0 DEF Gateway!Prepare, Gateway!Reply
<1>4. /\ made \in GateRow /\ made # None /\ made.input = r.input /\ made.state = "prepared"
      /\ \A x \in {settled, acking} : x \in GateTask /\ x.req = r
      /\ settled.stage = "done" /\ settled.reply = "result"
      /\ acking.stage = "acking" /\ acking.reply = "none"
  <2>1. made \in GateRow
    BY <1>1 DEF GateRow
  <2>2. made # None
    BY <2>1, GatewayAssumption DEF GateRow
  <2>3. settled \in GateTask /\ acking \in GateTask
    BY <1>0 DEF GateTask
  <2>4. task[t].reply = "none"
    BY <1>0, <1>1 DEF GateState, GateTasks
  <2>5. settled.req = r /\ acking.req = r /\ settled.stage = "done" /\ settled.reply = "result"
        /\ acking.stage = "acking" /\ acking.reply = task[t].reply
    BY <1>0 DEF GateTask
  <2>6. QED
    BY <2>1, <2>2, <2>3, <2>4, <2>5
<1>5. Gateway!Live(o) => row[o] # None
  BY <1>0, <1>2 DEF GateState, GateOnce
<1> HIDE DEF made, acking, settled
\* what the step does to each table
<1>6. /\ intents' \in [Gateway!Intent -> Id \cup {None}] /\ intents'[r.intent] = o
      /\ \A k \in Gateway!Intent : k # r.intent => intents'[k] = intents[k]
      /\ \A k \in Gateway!Intent : intents[k] # None => intents'[k] = intents[k]
  BY <1>0, <1>1, <1>2, <1>3
<1>7. /\ aliases' \in [Id -> Sends \cup {None}] /\ aliases'[r.id] = r
      /\ \A i \in Id : i # r.id => aliases'[i] = aliases[i]
      /\ \A i \in Id : aliases[i] # None => aliases'[i] = aliases[i]
  BY <1>0, <1>1, <1>2, <1>3
<1>8. /\ row' \in [Id -> GateRow \cup {None}] /\ row'[o] # None /\ row'[o].input = r.input
      /\ \A q \in Id : q # o => row'[q] = row[q]
      /\ row'[o] = row[o] \/ row'[o].state = "prepared"
  <2>1. CASE row' = row
    <3>1. row[o] # None
      BY <1>3, <1>5, <2>1, <1>0, <1>2, <1>4
    <3>2. intents[r.intent] # None
      BY <1>2, <3>1
    <3>3. QED
      BY <1>0, <1>2, <2>1, <3>1, <3>2
  <2>2. CASE row' = [row EXCEPT ![o] = made]
    BY <1>0, <1>2, <1>4, <2>2
  <2>3. QED
    BY <1>3, <2>1, <2>2
<1>9. \A q \in Id : row[q] # None => row'[q] # None /\ row'[q].input = row[q].input
  BY <1>2, <1>8
<1>10. /\ gwWorker' \in [Id -> {"none", "waiting", "preparing", "posting", "posted", "failed"}]
       /\ \A q \in Id : q # o => gwWorker'[q] = gwWorker[q]
       /\ \/ gwWorker'[o] = gwWorker[o] /\ row'[o] = row[o]
          \/ gwWorker'[o] = "waiting" /\ (row[o] = None \/ row[o].state = "prepared")
  BY <1>0, <1>2, <1>3
<1>11. /\ task' \in [Tasks -> GateTask]
       /\ \A u \in Tasks : u # t => task'[u] = task[u]
       /\ task'[t].req = r
       /\ \/ task'[t].stage = "done" /\ task'[t].reply = "result"
          \/ task'[t].stage = "acking" /\ task'[t].reply = "none"
  BY <1>0, <1>3, <1>4
<1>12. \A u \in Tasks : task'[u].req = task[u].req
  BY <1>11
<1>13. gateway = "up"
  BY <1>0, <1>1 DEF GateState, GateUp, Gateway!Running
<1> HIDE DEF o, r
\* and to each part of the invariant
<1>14. GateTypes'
  BY <1>0, <1>1, <1>6, <1>7, <1>8, <1>10, <1>11 DEF GateState, GateTypes
<1>15. GateUp' /\ GateOpening'
  BY <1>0, <1>1, <1>13 DEF GateState, GateUp, GateOpening
<1>16. GateOnce'
  <2>1. ASSUME NEW q \in Id, q # o
        PROVE  row[q] # None => aliases'[q] # None /\ \E k \in Gateway!Intent : intents'[k] = q
    <3>1. ASSUME NEW k \in Gateway!Intent, intents[k] = q
          PROVE  intents'[k] = q
      <4>1. intents[k] # None
        BY <3>1, GatewayAssumption
      <4>2. QED
        BY <1>6, <3>1, <4>1
    <3>2. QED
      BY <1>0, <1>7, <3>1 DEF GateState, GateOnce
  <2>2. aliases'[o] # None /\ \E k \in Gateway!Intent : intents'[k] = o
    <3>1. row[o] # None => aliases[o] # None
      BY <1>0, <1>2 DEF GateState, GateOnce
    <3>2. QED
      BY <1>1, <1>2, <1>6, <1>7, <3>1
  <2>3. /\ posted[o] <= 1
        /\ row'[o].state = "prepared" => posted[o] = 0 /\ gwWorker'[o] \notin {"posting", "posted"}
        /\ gwWorker'[o] = "posting" => posted[o] = 0
    BY <1>0, <1>2, <1>8, <1>10 DEF GateState, GateOnce
  <2>4. QED
    BY <1>0, <1>1, <1>8, <1>10, <2>1, <2>2, <2>3 DEF GateState, GateOnce, Gateway!Live
<1>17. GateIntents'
  BY <1>0, <1>6, <1>8, <1>9 DEF GateState, GateIntents
<1>18. GateLedger'
  <2> SUFFICES ASSUME NEW s \in Sends, aliases'[s.id] = s
               PROVE  intents'[s.intent] # None /\ row'[intents'[s.intent]].input = s.input
    BY DEF GateLedger
  <2>1. s.id \in Id /\ s.intent \in Gateway!Intent
    BY GatewayAssumption DEF Gateway!Intent
  <2>2. CASE s.id = r.id
    <3>1. s = r
      BY <1>7, <2>2
    <3>2. o # None
      BY <1>2, GatewayAssumption
    <3>3. QED
      BY <1>6, <1>8, <3>1, <3>2
  <2>3. CASE s.id # r.id
    <3>1. aliases[s.id] = s
      BY <1>7, <2>1, <2>3
    <3>2. /\ intents[s.intent] # None /\ intents[s.intent] \in Id
          /\ row[intents[s.intent]].input = s.input /\ row[intents[s.intent]] # None
      BY <1>0, <2>1, <3>1 DEF GateState, GateLedger, GateIntents
    <3>3. QED
      BY <1>6, <1>9, <2>1, <3>2
  <2>4. QED
    BY <2>2, <2>3
<1>19. ASSUME NEW s \in Sends, Barred(s)
       PROVE  BarredNow(s)
  <2>1. s.id \in Id /\ s.intent \in Gateway!Intent
    BY GatewayAssumption DEF Gateway!Intent
  <2>2. intents[s.intent] # None => intents[s.intent] \in Id /\ row[intents[s.intent]] # None
    BY <1>0, <2>1 DEF GateState, GateIntents
  <2>3. QED
    BY <1>6, <1>7, <1>9, <1>19, <2>1, <2>2 DEF Barred, Gateway!Bound
<1>20. GateTasks'
  <2> SUFFICES ASSUME NEW u \in Tasks
               PROVE /\ task'[u].reply # "none" => task'[u].stage = "done"
                     /\ task'[u].stage = "acking" => /\ task'[u].req \in Sends
                                                     /\ aliases'[task'[u].req.id] = task'[u].req
                     /\ task'[u].stage = "observing" => task'[u].req \in Reads
                     /\ task'[u].stage = "new" /\ task'[u].req \in Sends
                        /\ aliases'[task'[u].req.id] = None => pending'[task'[u].req.id] = u
                     /\ task'[u].reply = "conflict" => task'[u].req \in Sends
                                                       /\ BarredNow(task'[u].req)
    BY DEF GateTasks, Barred, Gateway!Bound
  <2>1. CASE u = t
    BY <1>1, <1>7, <1>11, <2>1
  <2>2. CASE u # t
    <3>1. task'[u] = task[u]
      BY <1>11, <2>2
    <3>2. task[u].req \in Sends => task[u].req.id \in Id /\ task[u].req # None
      BY GatewayAssumption
    <3>3. task[u].stage = "acking" => /\ task[u].req \in Sends
                                      /\ aliases'[task[u].req.id] = task[u].req
      BY <1>0, <1>7, <3>2 DEF GateState, GateTasks
    <3>4. task[u].stage = "new" /\ task[u].req \in Sends /\ aliases'[task[u].req.id] = None
             => pending'[task[u].req.id] = u
      BY <1>0, <1>1, <1>7, <3>2 DEF GateState, GateTasks
    <3>5. task[u].reply = "conflict" => task[u].req \in Sends /\ BarredNow(task[u].req)
      BY <1>0, <1>19 DEF GateState, GateTasks
    <3>6. /\ task[u].reply # "none" => task[u].stage = "done"
          /\ task[u].stage = "observing" => task[u].req \in Reads
      BY <1>0 DEF GateState, GateTasks
    <3> HIDE DEF BarredNow
    <3>7. QED
      BY <3>1, <3>3, <3>4, <3>5, <3>6
  <2>3. QED
    BY <2>1, <2>2
<1>21. GatePending'
  <2> SUFFICES ASSUME NEW i \in Id, pending[i] # None
               PROVE  /\ task'[pending[i]].req \in Requests /\ task'[pending[i]].req.id = i
                      /\ aliases'[i] \in {None, task'[pending[i]].req}
    BY <1>1 DEF GatePending
  <2>1. /\ pending[i] \in Tasks /\ task'[pending[i]].req = task[pending[i]].req
        /\ task[pending[i]].req \in Requests /\ task[pending[i]].req.id = i
        /\ aliases[i] \in {None, task[pending[i]].req}
    BY <1>0, <1>12 DEF GateState, GatePending
  <2>2. CASE i = r.id
    <3>1. CASE aliases[i] = None
      <4>1. pending[i] = t
        BY <1>0, <1>1, <2>2, <3>1 DEF GateState, GateTasks, r
      <4>2. QED
        BY <1>7, <1>11, <2>1, <2>2, <4>1
    <3>2. CASE aliases[i] # None
      BY <1>7, <2>1, <3>2
    <3>3. QED
      BY <3>1, <3>2
  <2>3. CASE i # r.id
    BY <1>7, <2>1, <2>3
  <2>4. QED
    BY <2>2, <2>3
<1>22. GateCalls'
  <2> SUFFICES ASSUME NEW c \in Call
               PROVE
        /\ call[c].stage # "away" => call[c].req \in Requests
        /\ call[c].stage # "opening"
        /\ call[c].stage = "waiting" => /\ call[c].task # None
                                        /\ task'[call[c].task].req = call[c].req
        /\ call[c].sent => /\ call[c].req \in Sends
                           /\ aliases'[call[c].req.id] = call[c].req
                           /\ posted[intents'[call[c].req.intent]] > 0
                           /\ call[c].stage = "waiting" => task'[call[c].task].reply # "denied"
    BY <1>1 DEF GateCalls
  <2>1. call[c].stage # "away" => call[c].req \in Requests
    BY <1>0 DEF GateState, GateCalls
  <2>2. call[c].stage # "opening"
    BY <1>0, <1>13 DEF GateState, GateOpening
  <2>3. call[c].stage = "waiting" =>
           /\ call[c].task # None /\ call[c].task \in Tasks
           /\ task[call[c].task].req = call[c].req
    BY <1>0 DEF GateState, GateTypes, GateCall, GateCalls
  <2>4. ASSUME call[c].sent
        PROVE  /\ call[c].req \in Sends /\ aliases'[call[c].req.id] = call[c].req
               /\ posted[intents'[call[c].req.intent]] > 0
    <3>1. /\ call[c].req \in Sends /\ aliases[call[c].req.id] = call[c].req
          /\ posted[intents[call[c].req.intent]] > 0
      BY <1>0, <2>4 DEF GateState, GateCalls
    <3>2. /\ call[c].req.id \in Id /\ call[c].req.intent \in Gateway!Intent
          /\ call[c].req # None
      BY <3>1, GatewayAssumption DEF Gateway!Intent
    <3>3. intents[call[c].req.intent] # None
      BY <1>0, <3>1 DEF GateState, GateLedger
    <3>4. QED
      BY <1>6, <1>7, <3>1, <3>2, <3>3
  <2>5. call[c].sent /\ call[c].stage = "waiting" => task[call[c].task].reply # "denied"
    BY <1>0 DEF GateState, GateCalls
  <2>6. QED
    BY <1>11, <1>12, <2>1, <2>2, <2>3, <2>4, <2>5
<1>23. GateBounded' /\ GateHistory'
  BY <1>1 DEF GateIInv, GateBounded, GateHistory, Gateway!Kept
<1>24. QED
  BY <1>14, <1>15, <1>16, <1>17, <1>18, <1>20, <1>21, <1>22, <1>23 DEF GateIInv, GateState

LEMMA GateStep ==
  ASSUME GateIInv, [Gateway!GatewayNext]_gatewayVars
  PROVE  GateIInv'
<1>1. CASE Gateway!GatewayNext
  <2>1. ASSUME NEW c \in Call,
               \/ \E r \in Sends \cup Reads : Gateway!Arrive(c, r)
               \/ Gateway!Enter(c) \/ Gateway!Open(c) \/ Gateway!Unavailable(c)
               \/ Gateway!Receive(c) \/ Gateway!Disconnect(c)
        PROVE  GateIInv'
    BY <2>1, GateLazy, GateReceives DEF Requests
  <2>2. ASSUME NEW t \in Tasks,
               \/ Gateway!PrepareConflict(t) \/ Gateway!Prepare(t) \/ Gateway!Acknowledge(t)
               \/ Gateway!Observe(t) \/ Gateway!Recover(t)
        PROVE  GateIInv'
    BY <2>2, GateHandles, GatePrepares, GateRecovers
  <2>3. ASSUME NEW o \in Id,
               \/ Gateway!CancelUnsent(o) \/ Gateway!BeginPreparation(o)
               \/ Gateway!PreparationFails(o) \/ Gateway!PreparationRefused(o)
               \/ Gateway!BeginSend(o) \/ Gateway!Post(o) \/ Gateway!PreflightFails(o)
               \/ Gateway!Posted(o)
        PROVE  GateIInv'
    BY <2>3, GateWorks
  <2>4. QED
    BY <1>1, <2>1, <2>2, <2>3, GateEmpties DEF Gateway!GatewayNext
<1>2. CASE UNCHANGED gatewayVars
  <2> USE <1>2 DEF gatewayVars
  <2>1. GateTypes' /\ GateUp' /\ GateOpening'
    BY DEF GateIInv, GateState, GateTypes, GateUp, GateOpening, Gateway!Running, Gateway!Live
  <2>2. GateOnce' /\ GateIntents' /\ GateLedger'
    BY DEF GateIInv, GateState, GateOnce, GateIntents, GateLedger, Gateway!Live
  <2>3. GateTasks' /\ GatePending' /\ GateCalls'
    BY DEF GateIInv, GateState, GateTasks, GatePending, GateCalls, Barred, Gateway!Bound
  <2>4. GateBounded' /\ GateHistory'
    BY DEF GateIInv, GateBounded, GateHistory, Gateway!Kept
  <2>5. QED
    BY <2>1, <2>2, <2>3, <2>4 DEF GateIInv, GateState
<1>3. QED
  BY <1>1, <1>2

\* What the invariant says of the gateway.
LEMMA GateKeeps ==
  ASSUME GateIInv
  PROVE  /\ Gateway!IntentOnce /\ Gateway!NotMisled /\ Gateway!WorkOutlivesCalls
         /\ Gateway!PendingBounded /\ Gateway!SilentWhenClosed
<1>0. GateState /\ GateBounded /\ GateHistory
  BY DEF GateIInv
<1>1. Gateway!IntentOnce
  <2> SUFFICES ASSUME NEW o \in Id
               PROVE  posted[o] <= (IF \E k \in Gateway!Intent : intents[k] = o THEN 1 ELSE 0)
    BY DEF Gateway!IntentOnce
  <2>1. CASE \E k \in Gateway!Intent : intents[k] = o
    BY <1>0, <2>1 DEF GateState, GateOnce
  <2>2. CASE ~\E k \in Gateway!Intent : intents[k] = o
    <3>1. posted[o] = 0
      BY <1>0, <2>2 DEF GateState, GateOnce
    <3>2. QED
      BY <2>2, <3>1
  <2>3. QED
    BY <2>1, <2>2
<1>2. Gateway!NotMisled /\ Gateway!WorkOutlivesCalls
  BY <1>0 DEF GateHistory, Gateway!NotMisled, Gateway!WorkOutlivesCalls
<1>3. Gateway!PendingBounded
  BY <1>0, OneCardinality DEF GateBounded, Gateway!PendingBounded
<1>4. Gateway!SilentWhenClosed
  BY <1>0 DEF GateState, GateUp, Gateway!SilentWhenClosed, Gateway!HasLiveWork
<1>5. QED
  BY <1>1, <1>2, <1>3, <1>4

-----------------------------------------------------------------------------
(* The controller of Subchat.                                              *)

CtlCall == [tool : {None, "recover", "wait", "disable"}, op : Controller!Op \cup {None},
            stage : {"away", "observing", "joined", "resumed", "refused", "awaiting"}]
CtlRec == {"none", "waiting", "looking", "preparing", "posting", "posted", "failed"}

CtlTypes ==
    /\ saved \in [Controller!Op -> {"prepared", "queued", "sending", "submitted", "completed",
                                    "cancelled"}]
    /\ failed \in [Controller!Op -> BOOLEAN]
    /\ sent \in {"none", "waiting", "preparing", "posting", "posted", "failed"}
    /\ rec \in [Controller!Op -> CtlRec]
    /\ alone \in [Controller!Op -> BOOLEAN]
    /\ posts \in [Controller!Op -> Nat]
    /\ caller \in [Caller -> CtlCall]
    /\ \A c \in Caller : caller[c].stage # "away" => caller[c].op \in Controller!Op

\* The first submission is posted by its send alone, after that reserved it.
CtlFirst ==
    /\ saved[First] # "queued" /\ rec[First] \in {"none", "waiting", "looking", "failed"}
    /\ posts[First] <= 1 /\ (First \in called => saved[First] = "cancelled")
    /\ saved[First] \in {"prepared", "cancelled"} =>
          posts[First] = 0 /\ sent \notin {"posting", "posted"}
    /\ sent = "posting" => posts[First] = 0

\* The second one by its recovery, after that saw the first one completed.
CtlSecond ==
    /\ saved[Second] # "prepared"
    /\ posts[Second] <= 1 /\ (Second \in called => saved[Second] = "cancelled")
    /\ saved[Second] \in {"queued", "cancelled"} =>
          posts[Second] = 0 /\ rec[Second] \notin {"posting", "posted"}
    /\ rec[Second] = "posting" => posts[Second] = 0
    /\ rec[Second] \in {"preparing", "posting", "posted"} \/ posts[Second] > 0 =>
          saved[First] = "completed"

\* A recovery that may send holds the browser alone, and so does the send.
CtlBrowser ==
    /\ rec[Second] \in {"preparing", "posting", "posted"} => alone[Second]
    /\ rec[Second] \in {"waiting", "looking"} /\ saved[Second] = "queued" => alone[Second]
    /\ sent \in {"preparing", "posting", "posted"} =>
          ~(rec[Second] \in {"looking", "preparing", "posting", "posted"} /\ alone[Second])

\* While a preparation failed nothing is under way that would repeat it.
CtlBlind ==
    /\ blind = FALSE
    /\ sent = "waiting" => ~failed[First]
    /\ failed[Second] /\ saved[Second] = "queued" => rec[Second] \in {"none", "failed"}

CtlBounded == Cardinality(Controller!Recoveries) <= MaxRecoveries

CtlIInv == CtlTypes /\ CtlFirst /\ CtlSecond /\ CtlBrowser /\ CtlBlind /\ CtlBounded

LEMMA CtlOps == /\ Controller!Op = {First, Second} /\ First # Second
                /\ IsFiniteSet(Controller!Op)
<1>1. IsFiniteSet({First}) /\ IsFiniteSet({First} \cup {Second})
  BY FS_Singleton, FS_Union
<1>2. {First} \cup {Second} = {First, Second}
  OBVIOUS
<1>3. QED
  BY <1>1, <1>2, ControllerAssumption DEF Controller!Op

\* Nothing runs yet.
LEMMA CtlStart == Controller!ControllerInit => CtlIInv
<1> SUFFICES ASSUME Controller!ControllerInit PROVE CtlIInv
  OBVIOUS
<1> USE DEF Controller!ControllerInit
<1>1. CtlTypes
  <2>1. Controller!Away \in CtlCall /\ Controller!Away.stage = "away"
    BY DEF Controller!Away, CtlCall
  <2>2. QED
    BY <2>1 DEF CtlTypes, CtlRec
<1>2. CtlFirst /\ CtlSecond /\ CtlBrowser /\ CtlBlind
  BY CtlOps DEF CtlFirst, CtlSecond, CtlBrowser, CtlBlind
<1>3. CtlBounded
  <2>1. Controller!Recoveries = {}
    BY DEF Controller!Recoveries
  <2>2. QED
    BY <2>1, FS_EmptySet, ControllerAssumption DEF CtlBounded
<1>4. QED
  BY <1>1, <1>2, <1>3 DEF CtlIInv

\* Fewer recoveries are as few as before.
LEMMA CtlFewer ==
  ASSUME CtlBounded, \A o \in Controller!Op : rec[o] = "none" => rec'[o] = "none"
  PROVE  CtlBounded'
<1>1. /\ Controller!Recoveries \in SUBSET Controller!Op
      /\ Controller!Recoveries' \subseteq Controller!Recoveries
  BY DEF Controller!Recoveries
<1>2. /\ IsFiniteSet(Controller!Recoveries)
      /\ Cardinality(Controller!Recoveries') <= Cardinality(Controller!Recoveries)
      /\ Cardinality(Controller!Recoveries') \in Nat /\ Cardinality(Controller!Recoveries) \in Nat
  BY <1>1, CtlOps, FS_Subset, FS_CardinalityType
<1>3. QED
  BY <1>2, ControllerAssumption DEF CtlBounded

\* A call that comes, goes on or leaves.
CtlCallTypes == /\ caller' \in [Caller -> CtlCall]
                /\ \A c \in Caller : caller'[c].stage # "away" => caller'[c].op \in Controller!Op

LEMMA CtlCallMoves ==
  ASSUME CtlTypes, NEW c \in Caller, NEW n \in CtlCall, n.stage # "away" => n.op \in Controller!Op,
         caller' = [caller EXCEPT ![c] = n]
  PROVE  CtlCallTypes
BY DEF CtlTypes, CtlCallTypes

LEMMA CtlLeaves ==
  ASSUME CtlTypes, NEW c \in Caller, Controller!Leave(c)
  PROVE  CtlCallTypes
<1>1. Controller!Away \in CtlCall /\ Controller!Away.stage = "away"
  BY DEF Controller!Away, CtlCall
<1>2. QED
  BY <1>1, CtlCallMoves DEF Controller!Leave

LEMMA CtlArrives ==
  ASSUME CtlTypes, NEW c \in Caller, NEW o \in Controller!Op,
         NEW t \in {"recover", "wait", "disable"}, NEW s \in {"observing", "awaiting"},
         Controller!At(c, t, o, s)
  PROVE  CtlCallTypes
<1> DEFINE n == [tool |-> t, op |-> o, stage |-> s]
<1>1. n \in CtlCall /\ n.op \in Controller!Op
  BY DEF CtlCall
<1>2. caller' = [caller EXCEPT ![c] = n]
  BY DEF Controller!At
<1> HIDE DEF n
<1>3. QED
  BY <1>1, <1>2, CtlCallMoves

LEMMA CtlGoesOn ==
  ASSUME CtlTypes, NEW c \in Caller, caller[c].stage # "away",
         NEW s \in {"observing", "joined"}, caller' = [caller EXCEPT ![c].stage = s]
  PROVE  CtlCallTypes
<1> DEFINE n == [caller[c] EXCEPT !.stage = s]
<1>1. n \in CtlCall /\ n.op \in Controller!Op
  BY DEF CtlTypes, CtlCall
<1>2. caller' = [caller EXCEPT ![c] = n]
  BY DEF CtlTypes
<1> HIDE DEF n
<1>3. QED
  BY <1>1, <1>2, CtlCallMoves

LEMMA CtlWakes ==
  ASSUME CtlTypes, NEW o \in Controller!Op, NEW s \in {"resumed", "refused"}, Controller!Wake(o, s)
  PROVE  CtlCallTypes
<1> DEFINE n(c) == [caller[c] EXCEPT !.stage = s]
           now(c) == IF caller[c].stage = "joined" /\ caller[c].op = o THEN n(c) ELSE caller[c]
<1>1. \A c \in Caller : /\ n(c) \in CtlCall /\ n(c).op = caller[c].op
                        /\ caller[c] \in CtlCall /\ (caller[c].stage # "away" => caller[c].op \in Controller!Op)
  BY DEF CtlTypes, CtlCall
<1>2. caller' = [c \in Caller |-> now(c)]
  BY DEF Controller!Wake
<1>3. \A c \in Caller : caller'[c] = now(c)
  BY <1>2
<1> HIDE DEF n
<1>4. \A c \in Caller : now(c) \in CtlCall /\ (now(c).stage # "away" => now(c).op \in Controller!Op)
  BY <1>1
<1> HIDE DEF now
<1>5. QED
  BY <1>2, <1>3, <1>4 DEF CtlCallTypes

\* A step of calls and the watch alone.
LEMMA CtlIdles ==
  ASSUME CtlIInv, CtlCallTypes,
         UNCHANGED <<saved, failed, sent, rec, alone, posts, blind, called>>
  PROVE  CtlIInv'
<1>1. CtlTypes'
  BY DEF CtlIInv, CtlTypes, CtlCallTypes
<1>2. CtlFirst' /\ CtlSecond' /\ CtlBrowser' /\ CtlBlind'
  BY DEF CtlIInv, CtlFirst, CtlSecond, CtlBrowser, CtlBlind
<1>3. CtlBounded'
  BY CtlFewer DEF CtlIInv
<1>4. QED
  BY <1>1, <1>2, <1>3 DEF CtlIInv

\* What an observation does to recoveries.
LEMMA CtlObserved ==
  ASSUME CtlIInv, NEW o \in Controller!Op, CtlCallTypes,
         UNCHANGED <<saved, failed, sent, posts, blind, called>>,
         \/ UNCHANGED <<rec, alone>>
         \/ rec[o] = "failed" /\ rec' = [rec EXCEPT ![o] = "none"] /\ UNCHANGED alone
         \/ /\ ~Controller!Fails(o) /\ rec[o] = "none"
            /\ Cardinality(Controller!Recoveries) < MaxRecoveries
            /\ rec' = [rec EXCEPT ![o] = "waiting"]
            /\ alone' = [alone EXCEPT ![o] = (saved[o] = "queued")]
  PROVE  CtlIInv'
<1>1. CASE UNCHANGED <<rec, alone>>
  BY <1>1, CtlIdles
<1>2. CASE rec[o] = "failed" /\ rec' = [rec EXCEPT ![o] = "none"] /\ UNCHANGED alone
  <2>1. CtlTypes'
    BY <1>2 DEF CtlIInv, CtlTypes, CtlCallTypes, CtlRec
  <2>2. CtlFirst' /\ CtlSecond' /\ CtlBrowser' /\ CtlBlind'
    BY <1>2, CtlOps DEF CtlIInv, CtlTypes, CtlFirst, CtlSecond, CtlBrowser, CtlBlind
  <2>3. CtlBounded'
    BY <1>2, CtlFewer DEF CtlIInv, CtlTypes
  <2>4. QED
    BY <2>1, <2>2, <2>3 DEF CtlIInv
<1>3. CASE /\ ~Controller!Fails(o) /\ rec[o] = "none"
           /\ Cardinality(Controller!Recoveries) < MaxRecoveries
           /\ rec' = [rec EXCEPT ![o] = "waiting"]
           /\ alone' = [alone EXCEPT ![o] = (saved[o] = "queued")]
  <2>1. CtlTypes'
    <3>1. (saved[o] = "queued") \in BOOLEAN
      OBVIOUS
    <3>2. alone' \in [Controller!Op -> BOOLEAN]
      BY <1>3, <3>1 DEF CtlIInv, CtlTypes
    <3>3. rec' \in [Controller!Op -> CtlRec]
      BY <1>3 DEF CtlIInv, CtlTypes, CtlRec
    <3>4. QED
      BY <3>2, <3>3 DEF CtlIInv, CtlTypes, CtlCallTypes
  <2>2. /\ rec'[o] = "waiting" /\ (alone'[o] <=> saved[o] = "queued")
        /\ \A p \in Controller!Op : p # o => rec'[p] = rec[p] /\ alone'[p] = alone[p]
    BY <1>3 DEF CtlIInv, CtlTypes
  <2>3. CtlFirst' /\ CtlSecond' /\ CtlBrowser' /\ CtlBlind'
    BY <1>3, <2>2, CtlOps
    DEF CtlIInv, CtlTypes, CtlFirst, CtlSecond, CtlBrowser, CtlBlind, Controller!Fails,
        Controller!Unsent
  <2>4. CtlBounded'
    <3>1. /\ Controller!Recoveries \in SUBSET Controller!Op
          /\ Controller!Recoveries' = Controller!Recoveries \cup {o}
      BY <1>3, <2>2 DEF Controller!Recoveries
    <3>2. /\ IsFiniteSet(Controller!Recoveries) /\ Cardinality(Controller!Recoveries) \in Nat
          /\ Cardinality(Controller!Recoveries') <= Cardinality(Controller!Recoveries) + 1
      BY <3>1, CtlOps, FS_Subset, FS_CardinalityType, FS_AddElement
    <3>3. Cardinality(Controller!Recoveries') \in Nat
      <4>1. IsFiniteSet(Controller!Recoveries')
        BY <3>1, <3>2, FS_AddElement
      <4>2. QED
        BY <4>1, FS_CardinalityType
    <3>4. QED
      BY <1>3, <3>2, <3>3, ControllerAssumption DEF CtlBounded
  <2>5. QED
    BY <2>1, <2>3, <2>4 DEF CtlIInv
<1>4. QED
  BY <1>1, <1>2, <1>3

\* The calls and the watch observe.
LEMMA CtlObserves ==
  ASSUME CtlIInv,
         \/ \E c \in Caller : Controller!RecoverObserves(c) \/ Controller!WaitObserves(c)
         \/ Controller!WatchLoops
  PROVE  CtlIInv'
<1>0. CtlTypes
  BY DEF CtlIInv
<1>1. ASSUME NEW c \in Caller, Controller!RecoverObserves(c)
      PROVE  CtlIInv'
  <2> DEFINE o == caller[c].op
             Goes(s) == caller' = [caller EXCEPT ![c].stage = s]
  <2>1. /\ caller[c].stage = "observing" /\ o \in Controller!Op
        /\ UNCHANGED <<saved, failed, sent, posts, blind, called>>
    BY <1>0, <1>1 DEF Controller!RecoverObserves, CtlTypes, Controller!ledgerRows
  <2>2. Controller!Observed(o, Controller!Leave(c), Goes("joined"), Controller!Leave(c))
    BY <1>1 DEF Controller!RecoverObserves
  <2>3. /\ Controller!Leave(c) \/ Goes("joined")
        /\ \/ UNCHANGED <<rec, alone>>
           \/ rec[o] = "failed" /\ rec' = [rec EXCEPT ![o] = "none"] /\ UNCHANGED alone
           \/ /\ ~Controller!Fails(o) /\ rec[o] = "none"
              /\ Cardinality(Controller!Recoveries) < MaxRecoveries
              /\ rec' = [rec EXCEPT ![o] = "waiting"]
              /\ alone' = [alone EXCEPT ![o] = (saved[o] = "queued")]
    BY <2>2, OneCardinality DEF Controller!Observed, Controller!NeedsLock
  <2>4. CtlCallTypes
    BY <1>0, <2>1, <2>3, CtlLeaves, CtlGoesOn
  <2> HIDE DEF o, Goes
  <2>5. QED
    BY <2>1, <2>3, <2>4, CtlObserved
<1>2. ASSUME NEW c \in Caller, Controller!WaitObserves(c)
      PROVE  CtlIInv'
  <2> DEFINE o == caller[c].op
             Goes(s) == caller' = [caller EXCEPT ![c].stage = s]
  <2>1. /\ caller[c].stage = "observing" /\ o \in Controller!Op
        /\ UNCHANGED <<saved, failed, sent, posts, blind, called>>
    BY <1>0, <1>2 DEF Controller!WaitObserves, CtlTypes, Controller!ledgerRows
  <2>2. Controller!Observed(o, Controller!Look(c, o), Goes("joined"), Controller!Leave(c))
    BY <1>2 DEF Controller!WaitObserves
  <2>3. /\ Controller!Look(c, o) \/ Controller!Leave(c) \/ Goes("joined")
        /\ \/ UNCHANGED <<rec, alone>>
           \/ rec[o] = "failed" /\ rec' = [rec EXCEPT ![o] = "none"] /\ UNCHANGED alone
           \/ /\ ~Controller!Fails(o) /\ rec[o] = "none"
              /\ Cardinality(Controller!Recoveries) < MaxRecoveries
              /\ rec' = [rec EXCEPT ![o] = "waiting"]
              /\ alone' = [alone EXCEPT ![o] = (saved[o] = "queued")]
    BY <2>2, OneCardinality DEF Controller!Observed, Controller!NeedsLock
  <2>4. CtlCallTypes
    BY <1>0, <2>1, <2>3, CtlLeaves, CtlGoesOn DEF Controller!Look
  <2> HIDE DEF o, Goes
  <2>5. QED
    BY <2>1, <2>3, <2>4, CtlObserved
<1>3. CASE Controller!WatchLoops
  <2>1. CtlCallTypes /\ UNCHANGED <<saved, failed, sent, posts, blind, called>>
    BY <1>0, <1>3 DEF Controller!WatchLoops, CtlTypes, CtlCallTypes, Controller!ledgerRows
  <2>2. \/ UNCHANGED <<rec, alone>>
        \/ Controller!Observed(Second, UNCHANGED <<watcher, report>>,
                               watcher' = "joined" /\ UNCHANGED report, Controller!Stop("stopped"))
    BY <1>3 DEF Controller!WatchLoops
  <2>3. CASE UNCHANGED <<rec, alone>>
    BY <2>1, <2>3, CtlIdles
  <2>4. CASE Controller!Observed(Second, UNCHANGED <<watcher, report>>,
                                 watcher' = "joined" /\ UNCHANGED report,
                                 Controller!Stop("stopped"))
    <3>1. Second \in Controller!Op
      BY CtlOps
    <3>2. \/ UNCHANGED <<rec, alone>>
          \/ rec[Second] = "failed" /\ rec' = [rec EXCEPT ![Second] = "none"] /\ UNCHANGED alone
          \/ /\ ~Controller!Fails(Second) /\ rec[Second] = "none"
             /\ Cardinality(Controller!Recoveries) < MaxRecoveries
             /\ rec' = [rec EXCEPT ![Second] = "waiting"]
             /\ alone' = [alone EXCEPT ![Second] = (saved[Second] = "queued")]
      BY <2>4, OneCardinality DEF Controller!Observed, Controller!NeedsLock
    <3>3. QED
      BY <2>1, <3>1, <3>2, CtlObserved
  <2>5. QED
    BY <2>2, <2>3, <2>4
<1>4. QED
  BY <1>1, <1>2, <1>3

\* The calls that change no submission, and the watch.
LEMMA CtlTurns ==
  ASSUME CtlIInv,
         \/ \E c \in Caller : \/ \E o \in Controller!Op : Controller!Wait(c, o)
                              \/ Controller!RecoverAnswers(c) \/ Controller!WaitResumes(c)
                              \/ Controller!Disable(c) \/ Controller!Disabled(c)
                              \/ Controller!Enable(c)
         \/ Controller!Lapse \/ Controller!WatchResumes
  PROVE  CtlIInv'
<1>0. CtlTypes
  BY DEF CtlIInv
<1>1. UNCHANGED <<saved, failed, sent, rec, alone, posts, blind, called>>
  BY DEF Controller!Wait, Controller!RecoverAnswers, Controller!WaitResumes, Controller!Disable,
         Controller!Disabled, Controller!Enable, Controller!Lapse, Controller!WatchResumes,
         Controller!ledgerRows
<1>2. CtlCallTypes
  <2>1. caller' = caller => CtlCallTypes
    BY <1>0 DEF CtlTypes, CtlCallTypes
  <2>2. ASSUME NEW c \in Caller, NEW o \in Controller!Op, Controller!Wait(c, o)
        PROVE  CtlCallTypes
    BY <1>0, <2>2, CtlArrives DEF Controller!Wait
  <2>3. ASSUME NEW c \in Caller, Controller!RecoverAnswers(c) \/ Controller!Disabled(c)
        PROVE  CtlCallTypes
    BY <1>0, <2>3, CtlLeaves DEF Controller!RecoverAnswers, Controller!Disabled
  <2>4. ASSUME NEW c \in Caller, Controller!WaitResumes(c)
        PROVE  CtlCallTypes
    <3>1. \/ Controller!Leave(c)
          \/ caller[c].stage # "away" /\ caller' = [caller EXCEPT ![c].stage = "observing"]
      BY <2>4 DEF Controller!WaitResumes, Controller!Look
    <3>2. QED
      BY <1>0, <3>1, CtlLeaves, CtlGoesOn
  <2>5. ASSUME NEW c \in Caller, Controller!Disable(c)
        PROVE  CtlCallTypes
    BY <1>0, <2>5, CtlArrives, CtlOps DEF Controller!Disable
  <2>6. QED
    BY <2>1, <2>2, <2>3, <2>4, <2>5
    DEF Controller!Enable, Controller!Lapse, Controller!WatchResumes
<1>3. QED
  BY <1>1, <1>2, CtlIdles

\* A caller asks for another try, or sends the first submission again.
LEMMA CtlAsks ==
  ASSUME CtlIInv, NEW c \in Caller,
         Controller!Send(c) \/ \E o \in Controller!Op : Controller!Recover(c, o)
  PROVE  CtlIInv'
<1>0. CtlTypes
  BY DEF CtlIInv
<1>1. ASSUME NEW o \in Controller!Op, Controller!Recover(c, o)
      PROVE  CtlIInv'
  <2>1. CtlCallTypes
    BY <1>0, <1>1, CtlArrives DEF Controller!Recover
  <2>2. /\ failed' = [failed EXCEPT ![o] = failed[o] /\ saved[o] # "queued"]
        /\ UNCHANGED <<saved, sent, rec, alone, posts, blind, called>>
    BY <1>0, <1>1 DEF Controller!Recover, CtlTypes
  <2>3. /\ failed' \in [Controller!Op -> BOOLEAN]
        /\ \A p \in Controller!Op : failed'[p] => failed[p]
    <3>1. (failed[o] /\ saved[o] # "queued") \in BOOLEAN
      OBVIOUS
    <3>2. QED
      BY <1>0, <2>2, <3>1 DEF CtlTypes
  <2>4. CtlTypes'
    BY <1>0, <2>1, <2>2, <2>3 DEF CtlTypes, CtlCallTypes
  <2>5. CtlFirst' /\ CtlSecond' /\ CtlBrowser' /\ CtlBlind'
    BY <2>2, <2>3, CtlOps DEF CtlIInv, CtlFirst, CtlSecond, CtlBrowser, CtlBlind
  <2>6. CtlBounded'
    BY <2>2, CtlFewer DEF CtlIInv
  <2>7. QED
    BY <2>4, <2>5, <2>6 DEF CtlIInv
<1>2. CASE Controller!Send(c)
  <2>1. /\ saved[First] = "prepared" /\ sent \in {"none", "failed"}
        /\ sent' = "waiting" /\ failed' = [failed EXCEPT ![First] = FALSE]
        /\ UNCHANGED <<saved, rec, alone, caller, posts, blind, called>>
    BY <1>0, <1>2 DEF Controller!Send, Controller!Sending, CtlTypes
  <2>2. CtlTypes'
    BY <1>0, <2>1 DEF CtlTypes
  <2>3. failed'[First] = FALSE /\ failed'[Second] = failed[Second]
    BY <1>0, <2>1, CtlOps DEF CtlTypes
  <2>4. CtlFirst' /\ CtlSecond' /\ CtlBrowser' /\ CtlBlind'
    BY <2>1, <2>3 DEF CtlIInv, CtlFirst, CtlSecond, CtlBrowser, CtlBlind
  <2>5. CtlBounded'
    BY <2>1, CtlFewer DEF CtlIInv
  <2>6. QED
    BY <2>2, <2>4, <2>5 DEF CtlIInv
<1>3. QED
  BY <1>1, <1>2

\* Cancelling, here or through the gateway.
LEMMA CtlCancels ==
  ASSUME CtlIInv, NEW o \in Controller!Op,
         Controller!CancelElsewhere(o) \/ \E c \in Caller : Controller!Cancel(c, o)
  PROVE  CtlIInv'
<1>0. CtlTypes
  BY DEF CtlIInv
<1>1. /\ saved[o] \in {"prepared", "queued", "cancelled"} /\ called' = called \cup {o}
      /\ saved' = [saved EXCEPT ![o] = "cancelled"]
      /\ UNCHANGED <<failed, alone, posts, blind>>
  BY DEF Controller!CancelElsewhere, Controller!Cancel, Controller!Unsent
<1>2. /\ rec' = rec \/ rec' = [rec EXCEPT ![o] = "none"]
      /\ sent' = sent \/ sent' = "none"
  BY DEF Controller!CancelElsewhere, Controller!Cancel
<1>3. CtlCallTypes
  <2>1. caller' = caller \/ Controller!Wake(o, "resumed")
    BY DEF Controller!CancelElsewhere, Controller!Cancel
  <2>2. QED
    BY <1>0, <2>1, CtlWakes DEF CtlTypes, CtlCallTypes
<1>4. CtlTypes'
  BY <1>0, <1>1, <1>2, <1>3 DEF CtlTypes, CtlCallTypes, CtlRec
<1>5. /\ saved'[o] = "cancelled"
      /\ \A p \in Controller!Op : /\ p # o => saved'[p] = saved[p]
                                  /\ rec'[p] = rec[p] \/ rec'[p] = "none"
  BY <1>0, <1>1, <1>2 DEF CtlTypes
<1>6. CtlFirst' /\ CtlSecond'
  BY <1>1, <1>2, <1>5, CtlOps DEF CtlIInv, CtlFirst, CtlSecond
<1>7. CtlBrowser' /\ CtlBlind'
  BY <1>1, <1>2, <1>5, CtlOps DEF CtlIInv, CtlBrowser, CtlBlind
<1>8. CtlBounded'
  BY <1>5, CtlFewer DEF CtlIInv
<1>9. QED
  BY <1>4, <1>6, <1>7, <1>8 DEF CtlIInv

\* The task that sends the first submission.
LEMMA CtlSends ==
  ASSUME CtlIInv,
         \/ Controller!SendStarts \/ Controller!SendFails \/ Controller!SendReserves
         \/ Controller!SendPosts \/ Controller!SendEnds
  PROVE  CtlIInv'
<1>0. CtlTypes
  BY DEF CtlIInv
<1>1. /\ rec' = rec /\ alone' = alone /\ caller' = caller /\ called' = called
  BY DEF Controller!SendStarts, Controller!SendFails, Controller!SendReserves,
         Controller!SendPosts, Controller!SendEnds
<1>2. CtlBounded'
  BY <1>1, CtlFewer DEF CtlIInv
<1>3. CASE Controller!SendStarts
  <2>1. /\ sent = "waiting" /\ UNCHANGED <<saved, failed, posts>>
        /\ ~(rec[Second] \in {"looking", "preparing", "posting", "posted"} /\ alone[Second])
        /\ sent' = "preparing" \/ sent' = "none"
        /\ blind' = (blind \/ failed[First])
    BY <1>3, CtlOps DEF Controller!SendStarts, Controller!ledgerRows, Controller!Locked,
                        Controller!Working
  <2>2. CtlTypes'
    BY <1>0, <1>1, <2>1 DEF CtlTypes
  <2>3. CtlFirst' /\ CtlSecond' /\ CtlBrowser' /\ CtlBlind'
    BY <1>1, <2>1 DEF CtlIInv, CtlFirst, CtlSecond, CtlBrowser, CtlBlind
  <2>4. QED
    BY <1>2, <2>2, <2>3 DEF CtlIInv
<1>4. CASE Controller!SendFails
  <2>1. /\ sent = "preparing" /\ sent' = "none" /\ failed' = [failed EXCEPT ![First] = TRUE]
        /\ UNCHANGED <<saved, posts, blind>>
    BY <1>4 DEF Controller!SendFails
  <2>2. CtlTypes'
    BY <1>0, <1>1, <2>1 DEF CtlTypes
  <2>3. failed'[Second] = failed[Second]
    BY <1>0, <2>1, CtlOps DEF CtlTypes
  <2>4. CtlFirst' /\ CtlSecond' /\ CtlBrowser' /\ CtlBlind'
    BY <1>1, <2>1, <2>3 DEF CtlIInv, CtlFirst, CtlSecond, CtlBrowser, CtlBlind
  <2>5. QED
    BY <1>2, <2>2, <2>4 DEF CtlIInv
<1>5. CASE Controller!SendReserves
  <2>1. /\ sent = "preparing" /\ UNCHANGED <<failed, posts, blind>>
        /\ \/ /\ saved[First] = "prepared" /\ sent' = "posting"
              /\ saved' = [saved EXCEPT ![First] = "sending"]
           \/ sent' = "none" /\ saved' = saved
    BY <1>5 DEF Controller!SendReserves
  <2>2. CtlTypes'
    BY <1>0, <1>1, <2>1, CtlOps DEF CtlTypes
  <2>3. /\ saved'[Second] = saved[Second]
        /\ \/ saved[First] = "prepared" /\ sent' = "posting" /\ saved'[First] = "sending"
           \/ sent' = "none" /\ saved'[First] = saved[First]
    BY <1>0, <2>1, CtlOps DEF CtlTypes
  <2>4. CtlFirst' /\ CtlSecond' /\ CtlBrowser' /\ CtlBlind'
    BY <1>1, <2>1, <2>3 DEF CtlIInv, CtlFirst, CtlSecond, CtlBrowser, CtlBlind
  <2>5. QED
    BY <1>2, <2>2, <2>4 DEF CtlIInv
<1>6. CASE Controller!SendPosts
  <2>1. /\ sent = "posting" /\ sent' = "posted" /\ UNCHANGED <<saved, failed, blind>>
        /\ posts' = [posts EXCEPT ![First] = posts[First] + 1]
    BY <1>6 DEF Controller!SendPosts, Controller!ledgerRows
  <2>2. CtlTypes'
    BY <1>0, <1>1, <2>1, CtlOps DEF CtlTypes
  <2>3. posts'[First] = posts[First] + 1 /\ posts'[Second] = posts[Second]
    BY <1>0, <2>1, CtlOps DEF CtlTypes
  <2>4. CtlFirst' /\ CtlSecond' /\ CtlBrowser' /\ CtlBlind'
    BY <1>1, <2>1, <2>3 DEF CtlIInv, CtlFirst, CtlSecond, CtlBrowser, CtlBlind
  <2>5. QED
    BY <1>2, <2>2, <2>4 DEF CtlIInv
<1>7. CASE Controller!SendEnds
  <2>1. /\ sent = "posted" /\ sent' \in {"none", "failed"} /\ UNCHANGED <<failed, posts, blind>>
        /\ \/ saved[First] = "sending" /\ saved' = [saved EXCEPT ![First] = "submitted"]
           \/ saved' = [saved EXCEPT ![First] = saved[First]]
    BY <1>7 DEF Controller!SendEnds
  <2>2. CtlTypes'
    BY <1>0, <1>1, <2>1, CtlOps DEF CtlTypes
  <2>3. /\ saved'[Second] = saved[Second]
        /\ \/ saved[First] = "sending" /\ saved'[First] = "submitted"
           \/ saved'[First] = saved[First]
    BY <1>0, <2>1, CtlOps DEF CtlTypes
  <2>4. CtlFirst' /\ CtlSecond' /\ CtlBrowser' /\ CtlBlind'
    BY <1>1, <2>1, <2>3 DEF CtlIInv, CtlFirst, CtlSecond, CtlBrowser, CtlBlind
  <2>5. QED
    BY <1>2, <2>2, <2>4 DEF CtlIInv
<1>8. QED
  BY <1>3, <1>4, <1>5, <1>6, <1>7

\* The end of a recovery, and its steps before it looks and after it posts.
LEMMA CtlRecoveryMoves ==
  ASSUME CtlIInv, NEW o \in Controller!Op,
         \/ Controller!Starts(o) \/ Controller!LookFails(o) \/ Controller!PreparationFails(o)
         \/ Controller!Accept(o)
  PROVE  CtlIInv'
<1>0. CtlTypes
  BY DEF CtlIInv
<1>1. CtlCallTypes
  <2>1. caller' = caller \/ \E s \in {"resumed", "refused"} : Controller!Wake(o, s)
    BY DEF Controller!Starts, Controller!LookFails, Controller!PreparationFails,
           Controller!Accept, Controller!Ends, Controller!Errs
  <2>2. QED
    BY <1>0, <2>1, CtlWakes DEF CtlTypes, CtlCallTypes
<1>2. CASE Controller!Starts(o)
  <2>1. /\ rec[o] = "waiting" /\ rec' = [rec EXCEPT ![o] = "looking"]
        /\ alone[o] => sent \notin {"preparing", "posting", "posted"}
        /\ UNCHANGED <<saved, failed, sent, alone, posts, blind, called>>
    BY <1>2 DEF Controller!Starts, Controller!Step, Controller!ledgerRows, Controller!Locked
  <2>2. CtlTypes'
    BY <1>0, <1>1, <2>1 DEF CtlTypes, CtlCallTypes, CtlRec
  <2>3. rec'[o] = "looking" /\ \A p \in Controller!Op : p # o => rec'[p] = rec[p]
    BY <1>0, <2>1 DEF CtlTypes
  <2>4. CtlFirst' /\ CtlSecond' /\ CtlBrowser' /\ CtlBlind'
    BY <2>1, <2>3, CtlOps DEF CtlIInv, CtlFirst, CtlSecond, CtlBrowser, CtlBlind
  <2>5. CtlBounded'
    BY <2>1, <2>3, CtlFewer DEF CtlIInv
  <2>6. QED
    BY <2>2, <2>4, <2>5 DEF CtlIInv
<1>3. CASE Controller!LookFails(o)
  <2>1. /\ rec[o] \in {"looking", "preparing", "posted"}
        /\ \E s \in {"none", "failed"} : rec' = [rec EXCEPT ![o] = s]
        /\ UNCHANGED <<saved, failed, sent, alone, posts, blind, called>>
    BY <1>3 DEF Controller!LookFails, Controller!Errs, Controller!ledgerRows
  <2>2. CtlTypes'
    BY <1>0, <1>1, <2>1 DEF CtlTypes, CtlCallTypes, CtlRec
  <2>3. rec'[o] \in {"none", "failed"} /\ \A p \in Controller!Op : p # o => rec'[p] = rec[p]
    BY <1>0, <2>1 DEF CtlTypes
  <2>4. CtlFirst' /\ CtlSecond' /\ CtlBrowser' /\ CtlBlind'
    BY <2>1, <2>3, CtlOps DEF CtlIInv, CtlFirst, CtlSecond, CtlBrowser, CtlBlind
  <2>5. CtlBounded'
    BY <2>1, <2>3, CtlFewer DEF CtlIInv
  <2>6. QED
    BY <2>2, <2>4, <2>5 DEF CtlIInv
<1>4. CASE Controller!PreparationFails(o)
  <2>1. /\ rec[o] = "preparing" /\ rec' = [rec EXCEPT ![o] = "none"]
        /\ failed' = [failed EXCEPT ![o] = TRUE]
        /\ UNCHANGED <<saved, sent, alone, posts, blind, called>>
    BY <1>4 DEF Controller!PreparationFails
  <2>2. CtlTypes'
    BY <1>0, <1>1, <2>1 DEF CtlTypes, CtlCallTypes, CtlRec
  <2>3. /\ rec'[o] = "none"
        /\ \A p \in Controller!Op : p # o => rec'[p] = rec[p] /\ failed'[p] = failed[p]
    BY <1>0, <2>1 DEF CtlTypes
  <2>4. CtlFirst' /\ CtlSecond' /\ CtlBrowser' /\ CtlBlind'
    BY <2>1, <2>3, CtlOps DEF CtlIInv, CtlFirst, CtlSecond, CtlBrowser, CtlBlind
  <2>5. CtlBounded'
    BY <2>1, <2>3, CtlFewer DEF CtlIInv
  <2>6. QED
    BY <2>2, <2>4, <2>5 DEF CtlIInv
<1>5. CASE Controller!Accept(o)
  <2>1. /\ rec[o] = "posted" /\ rec' = [rec EXCEPT ![o] = "none"]
        /\ \/ saved[o] = "sending" /\ saved' = [saved EXCEPT ![o] = "submitted"]
           \/ saved' = [saved EXCEPT ![o] = saved[o]]
        /\ UNCHANGED <<failed, sent, alone, posts, blind, called>>
    BY <1>5 DEF Controller!Accept, Controller!Ends
  <2>2. CtlTypes'
    BY <1>0, <1>1, <2>1 DEF CtlTypes, CtlCallTypes, CtlRec
  <2>3. /\ rec'[o] = "none"
        /\ (saved[o] = "sending" /\ saved'[o] = "submitted") \/ saved'[o] = saved[o]
        /\ \A p \in Controller!Op : p # o => rec'[p] = rec[p] /\ saved'[p] = saved[p]
    BY <1>0, <2>1 DEF CtlTypes
  <2>4. CtlFirst' /\ CtlSecond' /\ CtlBrowser' /\ CtlBlind'
    BY <2>1, <2>3, CtlOps DEF CtlIInv, CtlFirst, CtlSecond, CtlBrowser, CtlBlind
  <2>5. CtlBounded'
    BY <2>1, <2>3, CtlFewer DEF CtlIInv
  <2>6. QED
    BY <2>2, <2>4, <2>5 DEF CtlIInv
<1>6. QED
  BY <1>2, <1>3, <1>4, <1>5

\* The Chat is read.
LEMMA CtlLooks ==
  ASSUME CtlIInv, NEW o \in Controller!Op, Controller!Looked(o)
  PROVE  CtlIInv'
<1> DEFINE p == IF saved[o] = "queued" THEN First ELSE o
<1>0. CtlTypes
  BY DEF CtlIInv
<1>1. /\ rec[o] = "looking" /\ p \in Controller!Op
      /\ UNCHANGED <<failed, sent, alone, posts, called>>
  BY <1>0, CtlOps DEF Controller!Looked
<1>2. /\ \/ /\ saved[p] \in {"sending", "submitted"}
            /\ \/ /\ saved' = [saved EXCEPT ![p] = "completed"]
                  /\ IF p = o THEN Controller!Ends(o)
                     ELSE rec' = [rec EXCEPT ![o] = "preparing"] /\ UNCHANGED <<caller, watcher>>
               \/ saved' = [saved EXCEPT ![p] = "submitted"] /\ Controller!Ends(o)
               \/ saved' = saved /\ Controller!Ends(o)
         \/ /\ saved[p] \notin {"sending", "submitted"} /\ UNCHANGED saved
            /\ IF saved[p] = "completed" /\ p # o
                  THEN rec' = [rec EXCEPT ![o] = "preparing"] /\ UNCHANGED <<caller, watcher>>
                  ELSE Controller!Ends(o)
      /\ blind' = (blind \/ (rec'[o] = "preparing" /\ failed[o]))
  BY DEF Controller!Looked
<1>3. p # o => o = Second /\ p = First /\ saved[o] = "queued"
  BY CtlOps
<1> HIDE DEF p
<1>4. /\ \/ saved' = saved
         \/ /\ saved[p] \in {"sending", "submitted"}
            /\ \E s \in {"submitted", "completed"} : saved' = [saved EXCEPT ![p] = s]
      /\ \/ /\ rec' = [rec EXCEPT ![o] = "preparing"] /\ caller' = caller
            /\ p # o /\ ((saved[p] = "completed" /\ saved' = saved)
                         \/ saved' = [saved EXCEPT ![p] = "completed"])
         \/ rec' = [rec EXCEPT ![o] = "none"] /\ Controller!Wake(o, "resumed")
  BY <1>2 DEF Controller!Ends
<1>5. CtlTypes'
  <2>1. CtlCallTypes
    BY <1>0, <1>4, CtlWakes DEF CtlTypes, CtlCallTypes
  <2>2. saved' \in [Controller!Op -> {"prepared", "queued", "sending", "submitted", "completed",
                                      "cancelled"}]
    BY <1>0, <1>4 DEF CtlTypes
  <2>3. rec' \in [Controller!Op -> CtlRec]
    BY <1>0, <1>4 DEF CtlTypes, CtlRec
  <2>4. QED
    BY <1>0, <1>1, <2>1, <2>2, <2>3 DEF CtlTypes, CtlCallTypes
<1>6. /\ \A q \in Controller!Op : q # o => rec'[q] = rec[q]
      /\ \A q \in Controller!Op : saved'[q] = saved[q] \/ /\ saved[q] \in {"sending", "submitted"}
                                                          /\ saved'[q] \in {"submitted", "completed"}
      /\ \/ rec'[o] = "none"
         \/ rec'[o] = "preparing" /\ o = Second /\ saved[Second] = "queued"
            /\ saved'[First] = "completed"
  BY <1>0, <1>1, <1>3, <1>4 DEF CtlTypes
<1>7. saved[First] = "completed" => saved'[First] = "completed"
  BY <1>6, CtlOps
<1>8. CtlFirst' /\ CtlSecond'
  BY <1>1, <1>6, <1>7, CtlOps DEF CtlIInv, CtlFirst, CtlSecond
<1>9. CtlBrowser'
  BY <1>1, <1>6, CtlOps DEF CtlIInv, CtlFirst, CtlBrowser
<1>10. CtlBlind'
  <2>1. failed[Second] /\ saved[Second] = "queued" => rec[Second] \in {"none", "failed"}
    BY DEF CtlIInv, CtlBlind
  <2>2. ~(rec'[o] = "preparing" /\ failed[o])
    BY <1>1, <1>6, <2>1
  <2>3. blind' = FALSE
    BY <1>2, <2>2 DEF CtlIInv, CtlBlind
  <2>4. failed[Second] /\ saved'[Second] = "queued" => rec'[Second] \in {"none", "failed"}
    BY <1>1, <1>6, <2>1, CtlOps
  <2>5. QED
    BY <1>1, <2>3, <2>4 DEF CtlIInv, CtlBlind
<1>11. CtlBounded'
  <2>1. \A q \in Controller!Op : rec[q] = "none" => rec'[q] = "none"
    BY <1>1, <1>6
  <2>2. QED
    BY <2>1, CtlFewer DEF CtlIInv
<1>12. QED
  BY <1>5, <1>8, <1>9, <1>10, <1>11 DEF CtlIInv

\* A recovery reserves its row and posts.
LEMMA CtlDispatches ==
  ASSUME CtlIInv, NEW o \in Controller!Op, Controller!BeginSend(o) \/ Controller!Post(o)
  PROVE  CtlIInv'
<1>0. CtlTypes
  BY DEF CtlIInv
<1>1. CASE Controller!BeginSend(o)
  <2>1. /\ rec[o] = "preparing" /\ UNCHANGED <<failed, sent, alone, posts, blind, called>>
        /\ \/ /\ saved[o] \in {"prepared", "queued"} /\ rec' = [rec EXCEPT ![o] = "posting"]
              /\ saved' = [saved EXCEPT ![o] = "sending"] /\ caller' = caller
           \/ /\ rec' = [rec EXCEPT ![o] = "none"] /\ saved' = saved
              /\ Controller!Wake(o, "resumed")
    BY <1>1 DEF Controller!BeginSend, Controller!Step, Controller!Ends, Controller!Unsent
  <2>2. CtlTypes'
    <3>1. CtlCallTypes
      BY <1>0, <2>1, CtlWakes DEF CtlTypes, CtlCallTypes
    <3>2. QED
      BY <1>0, <2>1, <3>1 DEF CtlTypes, CtlCallTypes, CtlRec
  <2>3. /\ \/ /\ saved[o] \in {"prepared", "queued"} /\ rec'[o] = "posting"
              /\ saved'[o] = "sending"
           \/ rec'[o] = "none" /\ saved'[o] = saved[o]
        /\ \A p \in Controller!Op : p # o => rec'[p] = rec[p] /\ saved'[p] = saved[p]
    BY <1>0, <2>1 DEF CtlTypes
  <2>4. o = Second
    BY <2>1, CtlOps DEF CtlIInv, CtlFirst
  <2>5. CtlFirst' /\ CtlSecond' /\ CtlBrowser' /\ CtlBlind'
    BY <2>1, <2>3, <2>4, CtlOps DEF CtlIInv, CtlFirst, CtlSecond, CtlBrowser, CtlBlind
  <2>6. CtlBounded'
    BY <2>1, <2>3, CtlFewer DEF CtlIInv
  <2>7. QED
    BY <2>2, <2>5, <2>6 DEF CtlIInv
<1>2. CASE Controller!Post(o)
  <2>1. /\ rec[o] = "posting" /\ rec' = [rec EXCEPT ![o] = "posted"]
        /\ posts' = [posts EXCEPT ![o] = posts[o] + 1]
        /\ UNCHANGED <<saved, failed, sent, alone, caller, blind, called>>
    BY <1>2 DEF Controller!Post, Controller!Step, Controller!ledgerRows
  <2>2. CtlTypes'
    BY <1>0, <2>1 DEF CtlTypes, CtlRec
  <2>3. /\ rec'[o] = "posted" /\ posts'[o] = posts[o] + 1
        /\ \A p \in Controller!Op : p # o => rec'[p] = rec[p] /\ posts'[p] = posts[p]
    BY <1>0, <2>1 DEF CtlTypes
  <2>4. o = Second
    BY <2>1, CtlOps DEF CtlIInv, CtlFirst
  <2>5. CtlFirst' /\ CtlSecond' /\ CtlBrowser' /\ CtlBlind'
    BY <2>1, <2>3, <2>4, CtlOps DEF CtlIInv, CtlFirst, CtlSecond, CtlBrowser, CtlBlind
  <2>6. CtlBounded'
    BY <2>1, <2>3, CtlFewer DEF CtlIInv
  <2>7. QED
    BY <2>2, <2>5, <2>6 DEF CtlIInv
<1>3. QED
  BY <1>1, <1>2

LEMMA CtlStep ==
  ASSUME CtlIInv, [Controller!ControllerNext]_controllerVars
  PROVE  CtlIInv'
<1>1. CASE Controller!ControllerNext
  <2>1. ASSUME NEW c \in Caller,
               \/ \E o \in Controller!Op : \/ Controller!Recover(c, o) \/ Controller!Wait(c, o)
                                           \/ Controller!Cancel(c, o)
               \/ Controller!RecoverObserves(c) \/ Controller!RecoverAnswers(c)
               \/ Controller!WaitObserves(c) \/ Controller!WaitResumes(c)
               \/ Controller!Send(c) \/ Controller!Disable(c) \/ Controller!Disabled(c)
               \/ Controller!Enable(c)
        PROVE  CtlIInv'
    BY <2>1, CtlTurns, CtlAsks, CtlCancels, CtlObserves
  <2>2. ASSUME NEW o \in Controller!Op,
               \/ Controller!CancelElsewhere(o) \/ Controller!Starts(o) \/ Controller!Looked(o)
               \/ Controller!LookFails(o) \/ Controller!PreparationFails(o)
               \/ Controller!BeginSend(o) \/ Controller!Post(o) \/ Controller!Accept(o)
        PROVE  CtlIInv'
    BY <2>2, CtlCancels, CtlRecoveryMoves, CtlLooks, CtlDispatches
  <2>3. QED
    BY <1>1, <2>1, <2>2, CtlTurns, CtlObserves, CtlSends DEF Controller!ControllerNext
<1>2. CASE UNCHANGED controllerVars
  <2>1. CtlCallTypes
    BY <1>2 DEF CtlIInv, CtlTypes, CtlCallTypes, controllerVars
  <2>2. QED
    BY <1>2, <2>1, CtlIdles DEF controllerVars
<1>3. QED
  BY <1>1, <1>2

\* What the invariant says of the controller.
LEMMA CtlKeeps ==
  ASSUME CtlIInv
  PROVE  /\ Controller!CancelledIsSilent /\ Controller!NoBlindRetry
         /\ Controller!RecoveriesBounded /\ Controller!OneInput
<1>1. Controller!CancelledIsSilent
  <2>1. ASSUME NEW o \in Controller!Op
        PROVE  posts[o] <= 1 /\ (o \in called => posts[o] <= 0)
    BY CtlOps DEF CtlIInv, CtlTypes, CtlFirst, CtlSecond
  <2>2. posts[Second] > 0 => saved[First] = "completed"
    BY DEF CtlIInv, CtlSecond
  <2>3. QED
    BY <2>1, <2>2 DEF Controller!CancelledIsSilent
<1>2. Controller!NoBlindRetry
  BY DEF CtlIInv, CtlBlind, Controller!NoBlindRetry
<1>3. Controller!RecoveriesBounded
  BY OneCardinality DEF CtlIInv, CtlBounded, Controller!RecoveriesBounded
<1>4. Controller!OneInput
  <2>1. /\ rec[First] \notin {"preparing", "posting"}
        /\ ~(sent \in {"preparing", "posting"} /\ rec[Second] \in {"preparing", "posting"})
    BY DEF CtlIInv, CtlFirst, CtlBrowser
  <2>2. \E x : Controller!Inputs \in SUBSET {x}
    <3>1. CASE sent \in {"preparing", "posting"}
      <4>1. Controller!Inputs \subseteq {<<"send", First>>}
        BY <2>1, <3>1, CtlOps DEF Controller!Inputs
      <4>2. QED
        BY <4>1
    <3>2. CASE sent \notin {"preparing", "posting"}
      <4>1. Controller!Inputs \subseteq {<<"recover", Second>>}
        BY <2>1, <3>2, CtlOps DEF Controller!Inputs
      <4>2. QED
        BY <4>1
    <3>3. QED
      BY <3>1, <3>2
  <2>3. PICK x : Controller!Inputs \in SUBSET {x}
    BY <2>2
  <2>4. IsFiniteSet({x}) /\ Cardinality({x}) = 1
    BY FS_Singleton
  <2>5. Cardinality(Controller!Inputs) <= 1
    BY <2>3, <2>4, FS_Subset
  <2>6. QED
    BY <2>5, OneCardinality DEF Controller!OneInput
<1>5. QED
  BY <1>1, <1>2, <1>3, <1>4

-----------------------------------------------------------------------------
(* The parts together.                                                     *)

localVars == <<part, vars, pluginVars, directVars, terminalVars, restVars>>

LocalIInv == /\ MailIInv /\ PluginIInv /\ DirectIInv /\ TermIInv /\ GateIInv /\ CtlIInv
             /\ RemoteIInv

LEMMA LocalStart == LocalInit => LocalIInv
BY MailStart, PluginStart, DirectStart, TermStart, GateStart, CtlStart, RemoteStart
DEF LocalInit, LocalIInv

\* A step of one part leaves the others as they are.
LEMMA LocalStep ==
  ASSUME LocalIInv, [LocalNext]_localVars
  PROVE  LocalIInv'
<1>1. /\ [Next]_vars /\ [Plugin!PluginNext]_pluginVars /\ [Direct!DirectNext]_directVars
      /\ [Terminal!TerminalNext]_terminalVars /\ [Gateway!GatewayNext]_gatewayVars
      /\ [Controller!ControllerNext]_controllerVars /\ [Remote!PeersNext]_peerVars
  <2>1. CASE UNCHANGED localVars
    BY <2>1 DEF localVars, restVars
  <2>2. CASE LocalNext
    BY <2>2 DEF LocalNext, restVars
  <2>3. QED
    BY <2>1, <2>2
<1>2. MailIInv' /\ PluginIInv' /\ DirectIInv' /\ TermIInv'
  BY <1>1, MailStep, PluginStep, DirectStep, TermStep DEF LocalIInv
<1>3. GateIInv' /\ CtlIInv' /\ RemoteIInv'
  BY <1>1, GateStep, CtlStep, RemoteStep DEF LocalIInv
<1>4. QED
  BY <1>2, <1>3 DEF LocalIInv

LEMMA LocalInvariant == LocalSpec => []LocalIInv
BY LocalStart, LocalStep, PTL DEF LocalSpec, localVars

\* Nothing is done twice: a delivery is accepted once, one input is posted for an
\* intent, none for a submission that was cancelled, a failed preparation is not
\* repeated unasked, and an operation of a peer runs once.
THEOREM LocalAcceptedOnce == LocalSpec => []AcceptedOnce
<1>1. LocalIInv => AcceptedOnce
  BY MailKeeps, GateKeeps, CtlKeeps, RemoteKeeps DEF LocalIInv, AcceptedOnce
<1>2. QED
  BY <1>1, LocalInvariant, PTL

\* Who is told that nothing was accepted or dispatched is told the truth, an
\* acknowledged message was read, and the pages of a terminal add up.
THEOREM LocalAnswersHonest == LocalSpec => []AnswersHonest
<1>1. LocalIInv => AnswersHonest
  BY MailKeeps, GateKeeps, TermKeeps, RemoteKeeps DEF LocalIInv, AnswersHonest
<1>2. QED
  BY <1>1, LocalInvariant, PTL

\* No pool runs more than its limit: sessions, terminals, kept requests,
\* recoveries, the one input of the browser, connections of peers.
THEOREM LocalCapacity == LocalSpec => []Capacity
<1>1. LocalIInv => Capacity
  BY PluginKeeps, DirectKeeps, TermKeeps, GateKeeps, CtlKeeps, RemoteKeeps
  DEF LocalIInv, Capacity
<1>2. QED
  BY <1>1, LocalInvariant, PTL

\* Idle expiry and a requested stop spare what still works.
THEOREM LocalWorkSpared == LocalSpec => []WorkSpared
<1>1. LocalIInv => WorkSpared
  BY PluginKeeps, DirectKeeps, GateKeeps DEF LocalIInv, WorkSpared
<1>2. QED
  BY <1>1, LocalInvariant, PTL

\* What has closed runs nothing any more, and nothing starts for a peer whose
\* grant or enrollment ended.
THEOREM LocalClosedForGood == LocalSpec => []ClosedForGood
<1>1. LocalIInv => ClosedForGood
  BY PluginKeeps, GateKeeps, RemoteKeeps DEF LocalIInv, ClosedForGood
<1>2. QED
  BY <1>1, LocalInvariant, PTL

\* A message the mailbox accepted stays until somebody it was returned to has
\* acknowledged it, its ID stays taken, and a peer's credential file is the one
\* it was enrolled with.
THEOREM LocalMailKept == LocalSpec => [](NothingLost /\ CredentialOpens)
<1>1. LocalIInv => NothingLost /\ CredentialOpens
  BY MailKeeps DEF LocalIInv
<1>2. QED
  BY <1>1, LocalInvariant, PTL

\* The gateway alone, held to nothing: with every intent, restart and observation in one
\* behaviour, an intent is posted once, who is told that nothing was dispatched is told
\* the truth, a send outlives the call it came with, what is kept stays within its limit,
\* and a gateway that has closed is silent.
THEOREM GatewayHonest ==
  Gateway!GatewaySpec =>
    [](/\ Gateway!IntentOnce /\ Gateway!NotMisled /\ Gateway!WorkOutlivesCalls
       /\ Gateway!PendingBounded /\ Gateway!SilentWhenClosed)
<1>1. GateIInv /\ [Gateway!GatewayNext]_(Gateway!gatewayVars) => GateIInv'
  BY GateStep DEF Gateway!gatewayVars, gatewayVars
<1>2. QED
  BY <1>1, GateStart, GateKeeps, PTL DEF Gateway!GatewaySpec
================================================================================
