------------------------------ MODULE Releases ------------------------------
(***************************************************************************)
(* The local agent and its runtime: connectors that start an agent when    *)
(* there is none (connection.ensure_agent), the life of an agent           *)
(* (connection.serve), and stable updates (release_update, _activation,    *)
(* _record, runtime_selection) that replace an idle agent by a newer one.  *)
(* Everybody works on files of one control directory, under locks that a   *)
(* dying process releases; any process may die, and any answer be lost,    *)
(* between two steps.                                                      *)
(***************************************************************************)
EXTENDS Integers, FiniteSets

CONSTANTS Caller,      \* processes that connect to the agent or run `update`
          Slot,        \* agent processes
          MaxVersion,  \* runtimes are numbered by their version, 0 is none
          None

Version == 1..MaxVersion
\* Whoever runs ensure_agent: a caller, or the `start` child that it waits for.
Actor == Caller \X {"call", "start"}

VARIABLES
    selection,  \* runtime-selection.json
    intent,     \* runtime-update.pending.json
    record,     \* prepared-release.json
    endpoint,   \* agent.json: the agent it names
    agent,      \* agent processes: runtime, phase, and whether work is active
    latest,     \* the newest stable release
    checking,   \* the holder of release-check.lock
    starting,   \* the holder of startup.lock
    call,       \* callers
    run,        \* runs of ensure_agent
    ready,      \* history: runtimes that have answered as an agent
    downed      \* history: an update stopped the agent, and none has served since

files == <<selection, intent, record>>
history == <<ready, downed>>
releaseVars == <<files, endpoint, agent, latest, checking, starting, call, run, history>>

Off == [version |-> 0, phase |-> "off", busy |-> FALSE]
NoCall == [kind |-> "none", pc |-> "idle", version |-> 0]
NoRun == [pc |-> "idle", version |-> 0, ok |-> FALSE]

ReleasesInit ==
    /\ selection = 0 /\ intent = 0 /\ record = [version |-> 0, state |-> "none"]
    /\ endpoint = None /\ agent = [s \in Slot |-> Off]
    /\ latest = 1 /\ checking = None /\ starting = None
    /\ call = [c \in Caller |-> NoCall] /\ run = [a \in Actor |-> NoRun]
    /\ ready = {} /\ downed = FALSE

-----------------------------------------------------------------------------
(* The agent *)

Locked == {s \in Slot : agent[s].phase \in {"opening", "serving", "stopping", "closing"}}
\* The agent that answers an exchange; any exchange may also time out.
Answering == {s \in Slot : endpoint = s /\ agent[s].phase = "serving"}
Running(v) == \E s \in Answering : agent[s].version = v

Agent(s, phase) == agent' = [agent EXCEPT ![s].phase = phase]

\* serve() takes agent.lock without waiting and opens the store.
Boot(s) ==
    /\ agent[s].phase = "booting"
    /\ IF Locked = {} THEN Agent(s, "opening") ELSE agent' = [agent EXCEPT ![s] = Off]
    /\ UNCHANGED <<files, endpoint, latest, checking, starting, call, run, history>>

Publish(s) ==
    /\ agent[s].phase = "opening" /\ Agent(s, "serving") /\ endpoint' = s
    /\ ready' = ready \cup {agent[s].version} /\ downed' = FALSE
    /\ UNCHANGED <<files, latest, checking, starting, call, run>>

Work(s) ==
    /\ agent[s].phase = "serving"
    /\ agent' = [agent EXCEPT ![s].busy = ~@]
    /\ UNCHANGED <<files, endpoint, latest, checking, starting, call, run, history>>

\* Mutant: an agent that works is stopped.
StopWhateverRuns(s) == TRUE

\* __stop: refused while work is active.
Stoppable(s) == ~agent[s].busy

\* Also the end of an agent that could not publish.
Unlink(s) ==
    /\ agent[s].phase \in {"opening", "stopping"} /\ Agent(s, "closing") /\ endpoint' = None
    /\ UNCHANGED <<files, latest, checking, starting, call, run, history>>

\* The lock is released after the endpoint is gone; a killed agent leaves it.
Exit(s) ==
    /\ agent[s].phase \in {"closing", "booting", "opening", "serving", "stopping"}
    /\ agent' = [agent EXCEPT ![s] = Off]
    /\ UNCHANGED <<files, endpoint, latest, checking, starting, call, run, history>>

\* `anywhere stop`
OwnerStops(s) ==
    /\ s \in Answering /\ Stoppable(s) /\ Agent(s, "stopping")
    /\ UNCHANGED <<files, endpoint, latest, checking, starting, call, run, history>>

-----------------------------------------------------------------------------
(* ensure_agent: a "start" replaces an idle agent, a "call" only connects *)

Replaces(a) == a[2] = "start"
Goto(a, pc) == run' = [run EXCEPT ![a].pc = pc]
End(a, ok) ==
    /\ run' = [run EXCEPT ![a] = [NoRun EXCEPT !.ok = ok /\ call[a[1]].pc = "child"]]
    /\ starting' = None

\* load_runtime_selection: an incomplete update is only for the start of its runtime.
Selectable(a) == intent # 0 => (Replaces(a) /\ intent = run[a].version)

\* A caller that meets no agent starts the selected runtime, else its own.
Lock(a) ==
    /\ run[a].pc = "lock" /\ starting = None
    /\ IF ~Selectable(a) THEN End(a, FALSE)
       ELSE /\ starting' = a
            /\ run' = [run EXCEPT ![a] = [pc |-> "look", ok |-> FALSE,
                version |-> IF Replaces(a) \/ selection = 0 THEN @.version ELSE selection]]
    /\ UNCHANGED <<files, endpoint, agent, latest, checking, call, history>>

GiveUp(a) ==
    /\ run[a].pc \in {"lock", "wait", "poll"}
    /\ run' = [run EXCEPT ![a] = NoRun]
    /\ starting' = IF starting = a THEN None ELSE starting
    /\ UNCHANGED <<files, endpoint, agent, latest, checking, call, history>>

LookAnswered(a) ==
    /\ run[a].pc = "look"
    /\ \E s \in Answering :
          IF agent[s].version = run[a].version /\ Replaces(a)
          THEN Goto(a, "save") /\ UNCHANGED <<intent, starting>>
          ELSE IF ~Replaces(a) THEN End(a, TRUE) /\ UNCHANGED intent
          ELSE IF agent[s].busy THEN End(a, FALSE) /\ UNCHANGED intent
          ELSE Goto(a, "stop") /\ intent' = run[a].version /\ UNCHANGED starting
    /\ UNCHANGED <<selection, record, endpoint, agent, latest, checking, call, history>>

LookFails(a) ==
    /\ run[a].pc = "look" /\ Goto(a, "pid")
    /\ UNCHANGED <<files, endpoint, agent, latest, checking, starting, call, history>>

\* The agent stops, unless work began meanwhile; the answer may be lost.
Stop(a) ==
    /\ run[a].pc = "stop"
    /\ \E s \in Answering :
          IF Stoppable(s)
          THEN /\ Agent(s, "stopping") /\ downed' = TRUE /\ UNCHANGED <<intent, starting>>
               /\ \E pc \in {"wait", "pid"} : Goto(a, pc)
          ELSE intent' = 0 /\ End(a, FALSE) /\ UNCHANGED <<agent, downed>>
    /\ UNCHANGED <<selection, record, endpoint, latest, checking, call, ready>>

StopFails(a) ==
    /\ run[a].pc = "stop" /\ Goto(a, "pid")
    /\ UNCHANGED <<files, endpoint, agent, latest, checking, starting, call, history>>

Wait(a) ==
    /\ run[a].pc = "wait" /\ endpoint = None /\ Goto(a, "pid")
    /\ UNCHANGED <<files, endpoint, agent, latest, checking, starting, call, history>>

\* A process that agent.json names and that lives is left alone.
Alive == \E s \in Slot : endpoint = s /\ agent[s].phase # "off"

Pid(a) ==
    /\ run[a].pc = "pid"
    /\ IF Alive THEN End(a, FALSE) /\ UNCHANGED intent
       ELSE /\ intent' = IF Replaces(a) THEN run[a].version ELSE intent
            /\ Goto(a, "spawn") /\ UNCHANGED starting
    /\ UNCHANGED <<selection, record, endpoint, agent, latest, checking, call, history>>

Spawn(a) ==
    /\ run[a].pc = "spawn"
    /\ \E s \in Slot :
          /\ agent[s].phase = "off" /\ endpoint # s
          /\ agent' = [agent EXCEPT ![s] = [version |-> run[a].version, phase |-> "booting",
                                            busy |-> FALSE]]
    /\ Goto(a, "poll")
    /\ UNCHANGED <<files, endpoint, latest, checking, starting, call, history>>

\* Another runtime may have won agent.lock; a timeout or a dead child is GiveUp.
Poll(a) ==
    /\ run[a].pc = "poll"
    /\ \E s \in Answering :
          IF agent[s].version # run[a].version THEN End(a, FALSE)
          ELSE IF Replaces(a) THEN Goto(a, "save") /\ UNCHANGED starting
          ELSE End(a, TRUE)
    /\ UNCHANGED <<files, endpoint, agent, latest, checking, call, history>>

Save(a) ==
    /\ run[a].pc = "save" /\ selection' = run[a].version /\ Goto(a, "clear")
    /\ UNCHANGED <<intent, record, endpoint, agent, latest, checking, starting, call, history>>

Clear(a) ==
    /\ run[a].pc = "clear" /\ intent' = 0 /\ End(a, TRUE)
    /\ UNCHANGED <<selection, record, endpoint, agent, latest, checking, call, history>>

Ensure(a) ==
    \/ Lock(a) \/ GiveUp(a) \/ LookAnswered(a) \/ LookFails(a) \/ Stop(a) \/ StopFails(a)
    \/ Wait(a) \/ Pid(a) \/ Spawn(a) \/ Poll(a) \/ Save(a) \/ Clear(a)

-----------------------------------------------------------------------------
(* Updates *)

Self(c) == <<c, "call">>
Child(c) == <<c, "start">>
Call(c, pc) == call' = [call EXCEPT ![c].pc = pc]
EndCall(c) ==
    /\ call' = [call EXCEPT ![c] = NoCall]
    /\ checking' = IF checking = c THEN None ELSE checking

Begins(a, v) == run' = [run EXCEPT ![a] = [pc |-> "lock", version |-> v, ok |-> FALSE]]

\* A connector goes on to ensure_agent, without release-check.lock.
Proceed(c) ==
    /\ run' = [run EXCEPT ![Child(c)] = NoRun,
                          ![Self(c)] = [pc |-> "lock", version |-> call[c].version, ok |-> FALSE]]
    /\ Call(c, "ensure")
    /\ checking' = IF checking = c THEN None ELSE checking

\* A connector of some installation, the update cycle, or an explicit `start`.
Arrive(c) ==
    /\ call[c].pc = "idle" /\ run[Child(c)].pc = "idle"
    /\ \E v \in Version, kind \in {"connect", "update", "start"} :
          /\ v <= latest
          /\ IF kind = "start" THEN Begins(Child(c), v) /\ UNCHANGED call
             ELSE /\ call' = [call EXCEPT ![c] = [kind |-> kind, pc |-> "check",
                                                  version |-> IF kind = "update" THEN 0 ELSE v]]
                  /\ UNCHANGED run
    /\ UNCHANGED <<files, endpoint, agent, latest, checking, starting, history>>

Release(v) ==
    /\ v = latest + 1 /\ latest' = v
    /\ UNCHANGED <<files, endpoint, agent, checking, starting, call, run, history>>

\* resume_pending_release looks for an interrupted update before it takes the lock.
Connect(c) ==
    /\ call[c].pc = "check" /\ call[c].kind = "connect" /\ intent = 0
    /\ Proceed(c)
    /\ UNCHANGED <<files, endpoint, agent, latest, starting, history>>

Check(c) ==
    /\ call[c].pc = "check" /\ checking = None
    /\ call[c].kind = "update" \/ intent # 0
    /\ checking' = c /\ Call(c, "decide")
    /\ UNCHANGED <<files, endpoint, agent, latest, starting, run, history>>

Busy(c) ==
    /\ call[c].pc = "check" /\ checking # None /\ EndCall(c)
    /\ UNCHANGED <<files, endpoint, agent, latest, starting, run, history>>

\* The interrupted release comes first; a newer one is looked for under an idle agent.
Decide(c) ==
    /\ call[c].pc = "decide"
    /\ IF call[c].kind = "connect"
       THEN /\ UNCHANGED record
            /\ IF intent = 0 THEN Proceed(c)
               ELSE /\ UNCHANGED run
                    /\ IF record.version = 0 THEN EndCall(c)
                       ELSE Call(c, "activate") /\ UNCHANGED checking
       ELSE /\ UNCHANGED run
            /\ \/ /\ record.state = "prepared" /\ Call(c, "activate")
                  /\ UNCHANGED <<record, checking>>
               \/ /\ record.state # "prepared"
                  /\ \E s \in Answering : ~agent[s].busy /\ agent[s].version < latest
                  /\ Call(c, "activate") /\ UNCHANGED checking
                  \* prepare_release, saved before anything is stopped
                  /\ record' = IF record.version = latest THEN record
                               ELSE [version |-> latest, state |-> "prepared"]
               \/ record.state # "prepared" /\ EndCall(c) /\ UNCHANGED record
    /\ UNCHANGED <<selection, intent, endpoint, agent, latest, starting, history>>

\* install_release saves the outcome; resume_pending_release goes on to ensure_agent.
Applied(c) ==
    /\ record' = [record EXCEPT !.state = "applied"]
    /\ IF call[c].kind = "connect" /\ intent = 0 THEN Proceed(c)
       ELSE EndCall(c) /\ run' = [run EXCEPT ![Child(c)] = NoRun]

\* activate_release: nothing to do, not now, or a `start` of the prepared runtime.
\* An interrupted switch goes on even if no agent answers.
Activate(c) ==
    /\ call[c].pc = "activate"
    /\ \/ intent = 0 /\ Running(record.version) /\ Applied(c)
       \/ /\ intent \in {0, record.version} /\ run[Child(c)].pc = "idle"
          /\ \/ intent # 0
             \/ \E s \in Answering : ~agent[s].busy /\ agent[s].version # record.version
          /\ Begins(Child(c), record.version) /\ Call(c, "child")
          /\ UNCHANGED <<record, checking>>
       \/ EndCall(c) /\ UNCHANGED <<record, run>>
    /\ UNCHANGED <<selection, intent, endpoint, agent, latest, starting, history>>

\* The start is confirmed by the agent that answers; else it stays prepared.
Confirm(c) ==
    /\ call[c].pc = "child" /\ run[Child(c)].pc = "idle"
    /\ \/ run[Child(c)].ok /\ Running(record.version) /\ Applied(c)
       \/ /\ EndCall(c) /\ run' = [run EXCEPT ![Child(c)] = NoRun]
          /\ UNCHANGED record
    /\ UNCHANGED <<selection, intent, endpoint, agent, latest, starting, history>>

Connected(c) ==
    /\ call[c].pc = "ensure" /\ run[Self(c)].pc = "idle" /\ EndCall(c)
    /\ run' = [run EXCEPT ![Self(c)] = NoRun]
    /\ UNCHANGED <<files, endpoint, agent, latest, starting, history>>

-----------------------------------------------------------------------------
\* A process dies, or the updater ends its child after 45 seconds.
KillRun(a) ==
    /\ run[a].pc # "idle" /\ a[2] = "start"
    /\ run' = [run EXCEPT ![a] = NoRun]
    /\ starting' = IF starting = a THEN None ELSE starting
    /\ UNCHANGED <<files, endpoint, agent, latest, checking, call, history>>

KillCall(c) ==
    /\ call[c].pc # "idle" /\ EndCall(c)
    /\ run' = [run EXCEPT ![Self(c)] = NoRun]
    /\ starting' = IF starting = Self(c) THEN None ELSE starting
    /\ UNCHANGED <<files, endpoint, agent, latest, history>>

ReleasesNext ==
    \/ \E s \in Slot : Boot(s) \/ Publish(s) \/ Work(s) \/ Unlink(s) \/ Exit(s) \/ OwnerStops(s)
    \/ \E a \in Actor : Ensure(a) \/ KillRun(a)
    \/ \E v \in Version : Release(v)
    \/ \E c \in Caller : \/ Arrive(c) \/ Connect(c) \/ Check(c) \/ Busy(c) \/ Decide(c)
                         \/ Activate(c) \/ Confirm(c) \/ Connected(c) \/ KillCall(c)

ReleasesSpec == ReleasesInit /\ [][ReleasesNext]_releaseVars

-----------------------------------------------------------------------------
(* Properties *)

\* An agent that serves can be found: agent.json names it, whoever starts, stops or
\* dies around it, and no two agents have the store open.
AgentReachable ==
    /\ Cardinality(Locked) <= 1
    /\ \A s \in Slot : agent[s].phase = "serving" => endpoint = s

\* What is selected, or recorded as applied, has answered as an agent on this machine.
PublishedReady ==
    /\ selection # 0 => selection \in ready
    /\ record.state = "applied" => record.version \in ready

\* While an update is incomplete, no other runtime is started in its place, and an
\* agent that an update has stopped leaves the intent that connectors resume.
NoFallback ==
    /\ \A a \in Actor : run[a].pc = "spawn" /\ intent # 0 => intent = run[a].version
    /\ downed => intent # 0

\* An agent never stops for anybody while it has work that it has accepted.
BusySpared == \A s \in Slot : agent[s].phase \in {"stopping", "closing"} => ~agent[s].busy

=============================================================================
