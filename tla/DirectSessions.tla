---------------------------- MODULE DirectSessions ----------------------------
(***************************************************************************)
(* The pool of direct MCP sessions (direct_mcp_sessions.py) over the       *)
(* servers its contexts own (direct_mcp.py).                               *)
(*                                                                         *)
(* One call, check, poll or shutdown holds the lock of a session at a      *)
(* time; calls and the reaper leave a held session alone, watch loops and  *)
(* close() wait.  The activity probe is a task of its own: the holder that *)
(* asked waits 15 seconds for it and then goes on without it.              *)
(*                                                                         *)
(* Left out: the binding of grants to owners (engine.py), the journal of   *)
(* watches, catalogs, and the forgetting of ended sessions.                *)
(***************************************************************************)
EXTENDS Naturals, FiniteSets

CONSTANTS MaxOpened,  \* sessions ever opened
          Capacity,   \* four servers at a time
          MaxWatches  \* queue watches ever started

Sessions == 1 .. MaxOpened
Watches == 1 .. MaxWatches

VARIABLES
    closed,  \* close() has begun
    swept,   \* sessions close() is done with
    entry,   \* state of a session
    server,  \* of its context: "none" yet, "up", told to stop, or cleaned up
    work,    \* the server is sending, recovering or waiting
    tracked, \* background_subchat
    idle,    \* idle for its timeout
    probe,   \* activity_probe: "none", "asked", or what it observed
    hold,    \* who holds the lock of a session, and doing what
    watch,   \* queue watches: session, state, deadline passed, and its loop
    killed,  \* history: sessions whose work idle expiry ended
    cut      \* history: sessions whose watch one of them ended

pool == <<closed, swept, entry, server, hold>>
activity == <<work, tracked, idle, probe>>
directVars == <<pool, activity, watch, killed, cut>>

Free == [at |-> "free", by |-> "nobody"]
NoWatch == [on |-> 0, state |-> "none", due |-> FALSE, loop |-> "none"]

DirectInit ==
    /\ closed = FALSE /\ swept = 0
    /\ entry = [s \in Sessions |-> "none"] /\ server = [s \in Sessions |-> "none"]
    /\ work = [s \in Sessions |-> FALSE] /\ tracked = work /\ idle = work
    /\ probe = [s \in Sessions |-> "none"]
    /\ hold = [s \in Sessions |-> Free]
    /\ watch = [w \in Watches |-> NoWatch]
    /\ killed = {} /\ cut = {}

Hold(s, at, by) == hold' = [hold EXCEPT ![s] = [at |-> at, by |-> by]]
Release(s) == hold' = [hold EXCEPT ![s] = Free]
Held(s, at) == hold[s].at = at

\* cleanup_confirmed
Clean(s) == server[s] \in {"none", "down"}

Watching(s) == {w \in Watches : watch[w].on = s /\ watch[w].state = "watching"}
Watched(s) == \E w \in Watching(s) : ~ watch[w].due

\* active_count
Active == {s \in Sessions : entry[s] = "opening" \/ ~ Clean(s)}

---------------------------------------------------------------------------
(* Opening and retiring. *)

Open(s) ==
    /\ ~ closed /\ Cardinality(Active) < Capacity
    /\ entry[s] = "none" /\ \A t \in 1 .. s - 1 : entry[t] # "none"
    /\ entry' = [entry EXCEPT ![s] = "opening"]
    /\ server' = [server EXCEPT ![s] = "up"]
    /\ Hold(s, "opening", "open")
    /\ UNCHANGED <<closed, swept, activity, watch, killed, cut>>

Opened(s) ==
    /\ Held(s, "opening") /\ server[s] = "up"
    /\ entry' = [entry EXCEPT ![s] = "open"]
    /\ idle' = [idle EXCEPT ![s] = FALSE]
    /\ Release(s)
    /\ UNCHANGED <<closed, swept, server, work, tracked, probe, watch, killed, cut>>

\* _retire up to the close of its context, which is still to end; the probe
\* is cancelled, and watches are told to stop.  What only matters to an open
\* session is reset.
Retire(s, state, by) ==
    /\ entry' = [entry EXCEPT ![s] = state]
    /\ probe' = [probe EXCEPT ![s] = "none"]
    /\ watch' = [w \in Watches |-> IF w \in Watching(s)
                                   THEN [watch[w] EXCEPT !.state = "stopped"] ELSE watch[w]]
    /\ Hold(s, "retiring", by)
    /\ LET unasked == /\ entry[s] = "open" /\ server[s] = "up"
                       /\ by \notin {"failure", "loop", "close"}
       IN  /\ killed' = IF unasked /\ by # "stop" /\ work[s] THEN killed \cup {s} ELSE killed
           /\ cut' = IF unasked /\ Watched(s) THEN cut \cup {s} ELSE cut
    /\ tracked' = [tracked EXCEPT ![s] = FALSE] /\ idle' = [idle EXCEPT ![s] = FALSE]
    /\ UNCHANGED <<closed, swept, server, work>>

\* Opening fails, and so does a call: its outcome is unknown.
Fail(s) ==
    /\ hold[s].at \in {"opening", "calling"} /\ hold[s].by # "loop"
    /\ Retire(s, "closed", "failure")

\* The server of a retired session ends, or its cleanup stays unconfirmed.
Retired(s) ==
    /\ Held(s, "retiring")
    /\ \/ /\ server' = [server EXCEPT ![s] = "down"]
          /\ work' = [work EXCEPT ![s] = FALSE]
          /\ UNCHANGED entry
       \/ /\ ~ Clean(s)
          /\ server' = [server EXCEPT ![s] = "stopping"]
          /\ entry' = [entry EXCEPT ![s] = "cleanup_incomplete"]
          /\ UNCHANGED work
    /\ swept' = IF hold[s].by = "close" THEN s ELSE swept
    /\ Release(s)
    /\ UNCHANGED <<closed, tracked, idle, probe, watch, killed, cut>>

---------------------------------------------------------------------------
(* Checking a session before a call, at its idle timeout, and on request.  *)

\* The check found the session busy, or not.
Decide(s, by, busy, asked) ==
    IF ~ busy THEN Retire(s, IF by = "stop" THEN "closed" ELSE "expired", by)
    ELSE /\ probe' = [probe EXCEPT ![s] = asked]
         /\ IF by \in {"call", "send"} THEN Hold(s, "calling", by) ELSE Release(s)
         /\ tracked' = [tracked EXCEPT ![s] = @ \/ by = "send"]
         /\ UNCHANGED <<closed, swept, entry, server, work, idle, watch, killed, cut>>

\* _background_active, up to its await.
Check(s, by) ==
    CASE ~ tracked[s] \/ Clean(s) -> Decide(s, by, FALSE, probe[s])
      [] tracked[s] /\ ~ Clean(s) /\ probe[s] = "asked" -> Decide(s, by, TRUE, "asked")
      [] OTHER -> /\ probe' = [probe EXCEPT ![s] = IF @ = "none" THEN "asked" ELSE @]
                  /\ Hold(s, "checking", by)
                  /\ UNCHANGED <<closed, swept, entry, server, work, tracked, idle, watch,
                                 killed, cut>>

\* ... and after it: the answer, its failure, or the timeout.
Checked(s) ==
    /\ Held(s, "checking")
    /\ Decide(s, hold[s].by,
              probe[s] \in {"asked", "busy"} \/ (probe[s] = "lost" /\ ~ Clean(s)),
              IF probe[s] = "asked" THEN "asked" ELSE "none")

\* The probe is answered, or malformed, or its call fails: the context stops.
Probed(s) ==
    /\ probe[s] = "asked"
    /\ \/ /\ server[s] = "up"
          /\ probe' = [probe EXCEPT ![s] = IF work[s] THEN "busy" ELSE "idle"]
          /\ UNCHANGED <<server, work>>
       \/ /\ probe' = [probe EXCEPT ![s] = "lost"]
          /\ \/ UNCHANGED <<server, work>>
             \/ /\ server[s] = "up"
                /\ server' = [server EXCEPT ![s] = "stopping"] /\ UNCHANGED work
    /\ UNCHANGED <<closed, swept, entry, hold, tracked, idle, watch, killed, cut>>

\* Mutant: a queue watch does not count as use.
ExpiresUnwatched(s) == idle[s]

Expires(s) == idle[s] /\ ~ Watched(s)

Begin(s, by) ==
    /\ entry[s] = "open" /\ Held(s, "free")
    /\ IF Expires(s) THEN Check(s, by) ELSE Decide(s, by, TRUE, probe[s])

ExpireIdle(s) ==
    /\ ~ closed /\ entry[s] = "open" /\ Held(s, "free") /\ Expires(s)
    /\ \A t \in Sessions : hold[t].by # "reaper"
    /\ Check(s, "reaper")

Stop(s) ==
    /\ entry[s] \notin {"none", "opening"} /\ Held(s, "free")
    /\ IF entry[s] # "open" THEN Retire(s, "closed", "stop")
       ELSE /\ Clean(s) \/ ~ Watched(s)
            /\ Check(s, "stop")

\* A caller gives up while its session is checked.
GiveUp(s) ==
    /\ Held(s, "checking") /\ hold[s].by # "reaper"
    /\ Release(s)
    /\ UNCHANGED <<closed, swept, entry, server, activity, watch, killed, cut>>

---------------------------------------------------------------------------
(* Calls, and what they start: background work, and a queue watch.         *)

Started(s, w) ==
    [watch EXCEPT ![w] = [on |-> s, state |-> "watching", due |-> FALSE, loop |-> "asleep"]]

\* The context takes one call at a time: one made after a probe waits for it.
Return(s) ==
    /\ Held(s, "calling") /\ hold[s].by \in {"call", "send"}
    /\ server[s] = "up" /\ probe[s] # "asked"
    /\ \/ UNCHANGED <<work, watch>>
       \/ /\ hold[s].by = "send"
          /\ work' = [work EXCEPT ![s] = TRUE]
          /\ \/ UNCHANGED watch
             \/ \E w \in Watches : /\ watch[w] = NoWatch /\ Watching(s) = {}
                                   /\ watch' = Started(s, w)
             \/ /\ Watching(s) # {}
                /\ watch' = [w \in Watches |-> IF w \in Watching(s)
                                THEN [watch[w] EXCEPT !.state = "stopped"] ELSE watch[w]]
    /\ idle' = [idle EXCEPT ![s] = FALSE]
    /\ Release(s)
    /\ UNCHANGED <<closed, swept, entry, server, tracked, probe, killed, cut>>

\* What is called from a watch loop does not count as use.
LoopCalls(w) ==
    LET s == watch[w].on
    IN  /\ watch[w].loop = "asleep" /\ Held(s, "free")
        /\ IF entry[s] = "open" /\ (watch[w].state = "watching" \/ watch[w].due)
           THEN /\ watch' = [watch EXCEPT ![w].loop = "calling",
                                          ![w].state = IF watch[w].due THEN "stopped" ELSE @]
                /\ Hold(s, "calling", "loop")
           ELSE /\ watch' = [watch EXCEPT ![w].loop = "ended", ![w].state = "stopped"]
                /\ UNCHANGED hold
        /\ UNCHANGED <<closed, swept, entry, server, activity, killed, cut>>

LoopReturns(w) ==
    LET s == watch[w].on
    IN  /\ watch[w].loop = "calling" /\ probe[s] # "asked"
        /\ \/ /\ watch[w].state = "watching"
              /\ watch' = [watch EXCEPT ![w].loop = "asleep"]
           \/ watch' = [watch EXCEPT ![w].loop = "ended", ![w].state = "stopped"]
           \/ watch' = [watch EXCEPT ![w].loop = "failed", ![w].state = "stopped"]
        /\ Release(s)
        /\ UNCHANGED <<closed, swept, entry, server, activity, killed, cut>>

\* The loop's call failed, or its owner lost the authorization.
LoopRetires(w) ==
    LET s == watch[w].on
    IN  /\ \/ watch[w].loop = "failed"
           \/ (watch[w].loop = "asleep" /\ watch[w].state = "watching")
        /\ Held(s, "free") /\ entry[s] = "open"
        /\ Retire(s, "worker_failed", "loop")

LoopEnds(w) ==
    /\ watch[w].loop = "failed" /\ Held(watch[w].on, "free") /\ entry[watch[w].on] # "open"
    /\ watch' = [watch EXCEPT ![w].loop = "ended"]
    /\ UNCHANGED <<pool, activity, killed, cut>>

---------------------------------------------------------------------------
(* Time, servers and shutdown.                                             *)

IdleFor(s) ==
    /\ entry[s] = "open" /\ ~ idle[s]
    /\ idle' = [idle EXCEPT ![s] = TRUE]
    /\ UNCHANGED <<pool, work, tracked, probe, watch, killed, cut>>

Lapse(w) ==
    /\ watch[w].state = "watching" /\ ~ watch[w].due
    /\ watch' = [watch EXCEPT ![w].due = TRUE]
    /\ UNCHANGED <<pool, activity, killed, cut>>

WorkEnds(s) ==
    /\ work[s]
    /\ work' = [work EXCEPT ![s] = FALSE]
    /\ UNCHANGED <<pool, tracked, idle, probe, watch, killed, cut>>

\* A server told to stop has ended, before or after its cleanup lost patience.
LateCleanup(s) ==
    /\ server[s] = "stopping" /\ Held(s, "free")
    /\ server' = [server EXCEPT ![s] = "down"]
    /\ work' = [work EXCEPT ![s] = FALSE]
    /\ UNCHANGED <<closed, swept, entry, hold, tracked, idle, probe, watch, killed, cut>>

\* close() cancels the reaper, wherever it is, and retires one session at a time.
Close ==
    /\ ~ closed
    /\ closed' = TRUE
    /\ hold' = [s \in Sessions |-> IF hold[s].by = "reaper" THEN Free ELSE hold[s]]
    /\ UNCHANGED <<swept, entry, server, activity, watch, killed, cut>>

CloseNext(s) ==
    /\ closed /\ s = swept + 1 /\ entry[s] # "none" /\ Held(s, "free")
    /\ Retire(s, "closed", "close")

DirectNext ==
    \/ \E s \in Sessions :
         \/ Open(s) \/ Opened(s) \/ Fail(s) \/ Retired(s) \/ Checked(s) \/ Probed(s)
         \/ \E by \in {"call", "send"} : Begin(s, by)
         \/ ExpireIdle(s) \/ Stop(s) \/ GiveUp(s) \/ Return(s)
         \/ IdleFor(s) \/ WorkEnds(s) \/ LateCleanup(s) \/ CloseNext(s)
    \/ \E w \in Watches :
         LoopCalls(w) \/ LoopReturns(w) \/ LoopRetires(w) \/ LoopEnds(w) \/ Lapse(w)
    \/ Close

DirectSpec == DirectInit /\ [][DirectNext]_directVars

---------------------------------------------------------------------------

\* Never more servers than the capacity, whatever opens, fails to open, or
\* does not end when it is told to.
DirectCapacity == Cardinality({s \in Sessions : ~ Clean(s)}) <= Capacity

\* Idle expiry and a requested stop spare a session with an unexpired queue
\* watch, though both may wait for an activity probe in between.
WatchKept == cut = {}

\* Idle expiry spares a session whose server works in the background
\* (tests/test_direct_mcp_sessions.py:472, docs/SUBCHAT-PROBE.md:108).
WorkKept == killed = {}
=============================================================================
