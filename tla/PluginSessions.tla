---------------------------- MODULE PluginSessions ----------------------------
(***************************************************************************)
(* The pool of plugin sessions (plugin_sessions.py) over the Codex App     *)
(* Server processes its contexts own (codex_plugins.py, PluginContext).    *)
(*                                                                         *)
(* An open first sweeps the idle sessions, as the reaper does, and only    *)
(* then asks whether there is room.  One holder at a time has the lock of  *)
(* a session; others leave a held session alone, and close() waits for it. *)
(*                                                                         *)
(* Left out: owners and workspaces, catalogs and their digests, the times  *)
(* of probes beyond that one may be skipped, and the forgetting of ended   *)
(* sessions.                                                               *)
(***************************************************************************)
EXTENDS Naturals, FiniteSets

CONSTANTS MaxOpened,  \* sessions ever opened
          Capacity,   \* max_sessions
          MaxSweeps   \* opens that sweep at a time

Sessions == 1 .. MaxOpened

VARIABLES
    shut,      \* _closed
    shutdown,  \* sessions close() is done with, and one more when it is over
    sweeps,    \* opens that are past their first check of _closed
    state,     \* of a session
    confirmed, \* cleanup_confirmed, as it was last seen
    alive,     \* its process runs
    busy,      \* its background work goes on
    background,\* background_servers is not empty
    unused,    \* unused for its timeout
    holder,    \* who holds its lock, and doing what
    ended      \* history: sessions whose work expiry or a stop ended

sessions == <<state, confirmed, alive, busy, background, unused, holder>>
pluginVars == <<shut, shutdown, sweeps, sessions, ended>>

Free == [at |-> "free", by |-> "nobody"]

PluginInit ==
    /\ shut = FALSE /\ shutdown = 0 /\ sweeps = 0
    /\ state = [s \in Sessions |-> "none"]
    /\ confirmed = [s \in Sessions |-> FALSE]
    /\ alive = confirmed /\ busy = confirmed /\ background = confirmed /\ unused = confirmed
    /\ holder = [s \in Sessions |-> Free]
    /\ ended = {}

Hold(s, at, by) == holder' = [holder EXCEPT ![s] = [at |-> at, by |-> by]]
Release(s) == holder' = [holder EXCEPT ![s] = Free]
Held(s, at) == holder[s].at = at

Entered == {s \in Sessions : state[s] # "none"}

---------------------------------------------------------------------------
(* Retiring. *)

\* _retire up to its await.  What only matters to an open session is reset.
Retire(s, as, by) ==
    /\ state' = [state EXCEPT ![s] = as]
    /\ Hold(s, "retiring", by)
    /\ background' = [background EXCEPT ![s] = FALSE]
    /\ unused' = [unused EXCEPT ![s] = FALSE]
    /\ ended' = IF state[s] = "open" /\ busy[s] /\ as # "unusable" /\ by # "close"
                THEN ended \cup {s} ELSE ended
    /\ UNCHANGED <<shut, shutdown, sweeps, confirmed, alive, busy>>

\* Mutant: a session that was told to end has ended.
Assumed(s) == TRUE

\* What _retire makes of cleanup_confirmed.
Confirmed(s) == ~ alive'[s]

\* The process ends within four seconds, or not; the caller may give up.
Retired(s) ==
    /\ Held(s, "retiring")
    /\ \/ alive' = [alive EXCEPT ![s] = FALSE] /\ busy' = [busy EXCEPT ![s] = FALSE]
       \/ UNCHANGED <<alive, busy>>
    /\ confirmed' = [confirmed EXCEPT ![s] = Confirmed(s)]
    /\ shutdown' = IF holder[s].by = "close" THEN s ELSE shutdown
    /\ Release(s)
    /\ UNCHANGED <<shut, sweeps, state, background, unused, ended>>

---------------------------------------------------------------------------
(* Opening. *)

Sweep ==
    /\ ~ shut /\ sweeps < MaxSweeps
    /\ sweeps' = sweeps + 1
    /\ UNCHANGED <<shut, shutdown, sessions, ended>>

\* Mutant: the pool may have been closed while the open was sweeping.
AdmitsLate == Cardinality({s \in Entered : ~ confirmed[s]}) < Capacity

\* The second check of _closed, and the count.
Admits == ~ shut /\ Cardinality({s \in Entered : ~ confirmed[s]}) < Capacity

Admit(s) ==
    /\ sweeps > 0 /\ Admits
    /\ state[s] = "none" /\ 1 .. s - 1 \subseteq Entered
    /\ sweeps' = sweeps - 1
    /\ state' = [state EXCEPT ![s] = "opening"]
    /\ alive' = [alive EXCEPT ![s] = TRUE]
    /\ Hold(s, "opening", "open")
    /\ UNCHANGED <<shut, shutdown, confirmed, busy, background, unused, ended>>

\* Full, closed, or the caller gives up.
Refuse ==
    /\ sweeps > 0
    /\ sweeps' = sweeps - 1
    /\ UNCHANGED <<shut, shutdown, sessions, ended>>

Opened(s) ==
    /\ Held(s, "opening") /\ alive[s]
    /\ state' = [state EXCEPT ![s] = "open"]
    /\ Release(s)
    /\ UNCHANGED <<shut, shutdown, sweeps, confirmed, alive, busy, background, unused, ended>>

\* The start fails, or the outcome of a call is unknown.
Fail(s) ==
    /\ holder[s].at \in {"opening", "calling"}
    /\ Retire(s, "unusable", "failure")

---------------------------------------------------------------------------
(* Checking an open session, and calling it. *)

GoOn(s, by) ==
    /\ IF by \in {"call", "send"} THEN Hold(s, "calling", by) ELSE Release(s)
    /\ background' = [background EXCEPT ![s] = @ \/ by = "send"]
    /\ UNCHANGED <<shut, shutdown, sweeps, state, confirmed, alive, busy, unused, ended>>

Check(s, by) ==
    /\ Hold(s, "checking", by)
    /\ UNCHANGED <<shut, shutdown, sweeps, state, confirmed, alive, busy, background,
                   unused, ended>>

\* _refresh; a probe is not repeated within thirty seconds.
Refresh(s, by) ==
    /\ state[s] = "open" /\ Held(s, "free")
    /\ IF ~ alive[s] THEN Retire(s, "unusable", by)
       ELSE IF ~ unused[s] THEN GoOn(s, by)
       ELSE IF background[s] THEN Check(s, by) \/ GoOn(s, by)
       ELSE Retire(s, "expired", by)

\* The reaper and the opens under way, each at one session.
ExpireIdle(s) ==
    /\ Cardinality({t \in Sessions : holder[t].by = "sweep"})
         < sweeps + (IF shut THEN 0 ELSE 1)
    /\ ~ alive[s] \/ unused[s]
    /\ Refresh(s, "sweep")

Stop(s) ==
    /\ state[s] # "none" /\ Held(s, "free")
    /\ CASE state[s] = "open" /\ ~ alive[s] -> Retire(s, "unusable", "stop")
         [] state[s] = "open" /\ alive[s] /\ background[s] -> Check(s, "stop")
         [] OTHER -> /\ state[s] = "open" \/ ~ confirmed[s]
                     /\ Retire(s, "closed", "stop")

\* An unanswered probe leaves the work unknown.
Active(s, answered) == busy[s] \/ ~ answered

\* The answer to subchat_activity, or none.
Checked(s) ==
    LET by == holder[s].by
    IN  /\ Held(s, "checking")
        /\ IF ~ alive[s] THEN Retire(s, "unusable", by)
           ELSE \E answered \in BOOLEAN :
                  IF Active(s, answered) THEN GoOn(s, by)
                  ELSE Retire(s, IF by = "stop" THEN "closed" ELSE "expired", by)

\* What waits for a probe is cancelled.
GiveUp(s) ==
    /\ Held(s, "checking")
    /\ Release(s)
    /\ UNCHANGED <<shut, shutdown, sweeps, state, confirmed, alive, busy, background,
                   unused, ended>>

Return(s) ==
    /\ Held(s, "calling") /\ alive[s]
    /\ busy' = [busy EXCEPT ![s] = @ \/ holder[s].by = "send"]
    /\ unused' = [unused EXCEPT ![s] = FALSE]
    /\ Release(s)
    /\ UNCHANGED <<shut, shutdown, sweeps, state, confirmed, alive, background, ended>>

---------------------------------------------------------------------------
(* Time, processes and shutdown. *)

Unuse(s) ==
    /\ state[s] = "open" /\ ~ unused[s]
    /\ unused' = [unused EXCEPT ![s] = TRUE]
    /\ UNCHANGED <<shut, shutdown, sweeps, state, confirmed, alive, busy, background,
                   holder, ended>>

WorkEnds(s) ==
    /\ busy[s]
    /\ busy' = [busy EXCEPT ![s] = FALSE]
    /\ UNCHANGED <<shut, shutdown, sweeps, state, confirmed, alive, background, unused,
                   holder, ended>>

Die(s) ==
    /\ alive[s]
    /\ alive' = [alive EXCEPT ![s] = FALSE]
    /\ busy' = [busy EXCEPT ![s] = FALSE]
    /\ UNCHANGED <<shut, shutdown, sweeps, state, confirmed, background, unused, holder, ended>>

\* close() cancels the reaper, which gives up what it checks.
Close ==
    /\ ~ shut
    /\ shut' = TRUE
    /\ UNCHANGED <<shutdown, sweeps, sessions, ended>>

CloseNext(s) ==
    /\ shut /\ s = shutdown + 1 /\ s \in Entered /\ Held(s, "free")
    /\ IF confirmed[s]
       THEN /\ shutdown' = s
            /\ UNCHANGED <<shut, sweeps, sessions, ended>>
       ELSE Retire(s, "closed", "close")

CloseEnds ==
    /\ shut /\ shutdown = Cardinality(Entered)
    /\ shutdown' = MaxOpened + 1
    /\ UNCHANGED <<shut, sweeps, sessions, ended>>

PluginNext ==
    \/ Sweep \/ Refuse \/ Close \/ CloseEnds
    \/ \E s \in Sessions :
         \/ Admit(s) \/ Opened(s) \/ Fail(s) \/ Retired(s)
         \/ \E by \in {"call", "send", "status"} : Refresh(s, by)
         \/ ExpireIdle(s) \/ Stop(s) \/ Checked(s) \/ GiveUp(s) \/ Return(s)
         \/ Unuse(s) \/ WorkEnds(s) \/ Die(s) \/ CloseNext(s)

PluginSpec == PluginInit /\ [][PluginNext]_pluginVars

---------------------------------------------------------------------------

\* Never more live processes than the capacity, over concurrent opens, failed
\* starts, and processes that do not end when they are told to.
PluginCapacity == Cardinality({s \in Sessions : alive[s]}) <= Capacity

\* When close() is over no session is open or opens, though an open may have
\* been sweeping when it began.
ClosedForGood ==
    shutdown > MaxOpened => \A s \in Sessions : state[s] \notin {"opening", "open"}

\* Expiry and a requested stop spare a session with work in the background, over every
\* probe they wait for: expiry as docs/SUBCHAT-PROBE.md:107-109 promises, a stop because
\* stop() refuses with session_busy (plugin_sessions.py:313-332).  Of a stop the same
\* page, in lines 110-111, says the opposite; this is what the code does.
WorkSpared == ended = {}
=============================================================================
