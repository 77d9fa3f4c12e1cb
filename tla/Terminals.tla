------------------------------ MODULE Terminals ------------------------------
(***************************************************************************)
(* Terminal sessions (sessions.py): processes the engine owns, each under  *)
(* a worker that stays until its process group is empty                    *)
(* (terminal_worker.py), with a bounded buffer of output that clients read *)
(* by cursor.                                                              *)
(*                                                                         *)
(* Left out: input, prompts and window sizes, the decoding of UTF-8 (a     *)
(* page is any prefix of what may be returned), and Windows.               *)
(***************************************************************************)
EXTENDS Naturals, FiniteSets

CONSTANTS MaxStarted,  \* terminals ever started
          MaxActive,   \* 32 live processes
          MaxRetained, \* 128 sessions
          Cap,         \* OUTPUT_CAP
          MaxOutput,   \* output a terminal ever writes
          Starters     \* calls of start under way

Terms == 1 .. MaxStarted

VARIABLES
    starter,  \* calls of start: waiting for the lock, or admitted
    process,  \* of a terminal: "none", "running", or "exited"
    kept,     \* sessions that are not forgotten
    pipe,     \* something can still write to its output
    reader,   \* its reader: "none", "reading", or done
    first,    \* first_cursor
    end,      \* first_cursor and the length of the buffer
    stop,     \* a call of stop: "none", "asked", "forced", "draining"
    cursor,   \* next_cursor of a client that follows its pages
    read,     \* history: how much that client was given
    missed    \* history: the sum of its dropped_bytes

streams == <<pipe, reader, first, end, cursor, read, missed>>
terminalVars == <<starter, process, kept, stop, streams>>

TerminalInit ==
    /\ starter = [k \in Starters |-> "free"]
    /\ process = [t \in Terms |-> "none"] /\ kept = {}
    /\ pipe = [t \in Terms |-> FALSE] /\ reader = [t \in Terms |-> "none"]
    /\ first = [t \in Terms |-> 0] /\ end = first /\ cursor = first
    /\ read = first /\ missed = first
    /\ stop = [t \in Terms |-> "none"]

Running == {t \in kept : process[t] = "running"}

\* _start_lock: one call is between its count and its registration.
Alone == \A k \in Starters : starter[k] # "admitted"

Admit(k) ==
    /\ starter[k] = "free" /\ Alone
    /\ Cardinality(Running) < MaxActive
    /\ starter' = [starter EXCEPT ![k] = "admitted"]
    /\ kept' = IF Cardinality(kept) < MaxRetained THEN kept
               ELSE kept \ {CHOOSE t \in kept \ Running :
                               \A u \in kept \ Running : t <= u}
    /\ UNCHANGED <<process, stop, streams>>

\* The worker is spawned, and its reader started.
Start(k, t) ==
    /\ starter[k] = "admitted"
    /\ process[t] = "none" /\ \A u \in 1 .. t - 1 : process[u] # "none"
    /\ starter' = [starter EXCEPT ![k] = "free"]
    /\ process' = [process EXCEPT ![t] = "running"]
    /\ kept' = kept \cup {t}
    /\ pipe' = [pipe EXCEPT ![t] = TRUE]
    /\ reader' = [reader EXCEPT ![t] = "reading"]
    /\ UNCHANGED <<stop, first, end, cursor, read, missed>>

StartFails(k) ==
    /\ starter[k] = "admitted"
    /\ starter' = [starter EXCEPT ![k] = "free"]
    /\ UNCHANGED <<process, kept, stop, streams>>

\* The group is empty; what left it may keep the pipe open.
Exit(t) ==
    /\ process[t] = "running"
    /\ process' = [process EXCEPT ![t] = "exited"]
    /\ pipe' \in {pipe, [pipe EXCEPT ![t] = FALSE]}
    /\ UNCHANGED <<starter, kept, stop, reader, first, end, cursor, read, missed>>

ClosePipe(t) ==
    /\ process[t] = "exited" /\ pipe[t]
    /\ pipe' = [pipe EXCEPT ![t] = FALSE]
    /\ UNCHANGED <<starter, process, kept, stop, reader, first, end, cursor, read, missed>>

\* _append_output drops what is over the cap.
Output(t, n) ==
    /\ pipe[t] /\ reader[t] = "reading" /\ end[t] + n <= MaxOutput
    /\ end' = [end EXCEPT ![t] = @ + n]
    /\ first' = [first EXCEPT ![t] = IF end'[t] - @ > Cap THEN end'[t] - Cap ELSE @]
    /\ UNCHANGED <<starter, process, kept, stop, pipe, reader, cursor, read, missed>>

Eof(t) ==
    /\ reader[t] = "reading" /\ ~ pipe[t]
    /\ reader' = [reader EXCEPT ![t] = "done"]
    /\ UNCHANGED <<starter, process, kept, stop, pipe, first, end, cursor, read, missed>>

\* Mutant: all output ever dropped is reported with every page.
DroppedEver(t) == first[t]

\* dropped_bytes: from what was asked for to where the page starts.
Dropped(t) == IF cursor[t] < first[t] THEN first[t] - cursor[t] ELSE 0

\* A page starts at the cursor, or where the buffer does.
Page(t) ==
    /\ t \in kept
    /\ \E to \in cursor[t] + Dropped(t) .. end[t] :
         /\ cursor' = [cursor EXCEPT ![t] = to]
         /\ read' = [read EXCEPT ![t] =
                       @ + to - (IF cursor[t] < first[t] THEN first[t] ELSE cursor[t])]
    /\ missed' = [missed EXCEPT ![t] = @ + Dropped(t)]
    /\ UNCHANGED <<starter, process, kept, stop, pipe, reader, first, end>>

---------------------------------------------------------------------------
(* stop: SIGTERM, three seconds, SIGKILL, and two seconds for the reader.  *)

Stop(t) ==
    /\ t \in kept /\ stop[t] = "none" /\ reader[t] = "reading"
    /\ stop' = [stop EXCEPT ![t] = IF process[t] = "running" THEN "asked" ELSE "draining"]
    /\ UNCHANGED <<starter, process, kept, streams>>

Kill(t) ==
    /\ stop[t] = "asked" /\ process[t] = "running"
    /\ stop' = [stop EXCEPT ![t] = "forced"]
    /\ UNCHANGED <<starter, process, kept, streams>>

Drain(t) ==
    /\ stop[t] \in {"asked", "forced"} /\ process[t] = "exited"
    /\ stop' = [stop EXCEPT ![t] = "draining"]
    /\ UNCHANGED <<starter, process, kept, streams>>

\* The reader is done, or cancelled: end of output, whatever still writes.
Stopped(t) ==
    /\ stop[t] = "draining"
    /\ stop' = [stop EXCEPT ![t] = "none"]
    /\ reader' = [reader EXCEPT ![t] = "done"]
    /\ UNCHANGED <<starter, process, kept, pipe, first, end, cursor, read, missed>>

TerminalNext ==
    \/ \E k \in Starters : Admit(k) \/ StartFails(k) \/ \E t \in Terms : Start(k, t)
    \/ \E t \in Terms :
         \/ Exit(t) \/ ClosePipe(t) \/ Eof(t) \/ Page(t)
         \/ \E n \in 1 .. MaxOutput : Output(t, n)
         \/ Stop(t) \/ Kill(t) \/ Drain(t) \/ Stopped(t)

TerminalSpec == TerminalInit /\ [][TerminalNext]_terminalVars

---------------------------------------------------------------------------

\* Never more live terminals than the limit, though a start counts them
\* before it waits for the process it spawns.
TerminalCapacity == Cardinality({t \in Terms : process[t] = "running"}) <= MaxActive

\* A client that follows next_cursor can account for every byte up to it:
\* it was given to it, or it was told that it was dropped.
PagesAddUp == \A t \in Terms : cursor[t] = read[t] + missed[t]
=============================================================================
