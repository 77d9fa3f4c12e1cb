------------------------------- MODULE MCAgent -------------------------------
(***************************************************************************)
(* The local agent: the ledger of the calls it executes, its own life      *)
(* around it (connectors that start it, releases that replace it), and its *)
(* isolated browsers, and its pipe.  They share no state: a behaviour runs *)
(* one of them, the others stay in their initial states.                   *)
(***************************************************************************)
EXTENDS OperationLedger, TLC

CONSTANTS o1, o2, p1, p2, p3

\* Two operation IDs, which also name the two agents; two processes, which
\* also connect to them.
Two == {o1, o2}
Both == {p1, p2}
\* The calls to one tab: somebody must have observed what two others act on.
Three == {p1, p2, p3}

CONSTANTS MaxVersion, TabCall, MaxChanges, MaxDialogs, MaxSessions, TabLimit, MaxPages,
          MaxConnections

\* No value is neither a number, nor a name, nor a run, nor an answer, nor a tool.
ASSUME AgentAssumption ==
    /\ MaxVersion \in Nat \ {0} /\ MaxChanges \in Nat /\ MaxDialogs \in Nat
    /\ MaxSessions \in Nat /\ TabLimit \in Nat /\ MaxPages \in Nat
    /\ MaxConnections \in Nat \ {0}
    /\ None \notin Nat \cup Op \cup Process \cup TabCall
    /\ None \notin Process \X {"call", "start"}
    /\ None \notin {"failed", "unknown", "completed", "closed"}
    /\ None \notin {"open", "tab_open", "tab_close", "stop"}

VARIABLES part, selection, intent, record, endpoint, agent, latest, checking,
          starting, call, run, ready, downed

Agents == INSTANCE Releases WITH Caller <- Process, Slot <- Op

agentVars == <<selection, intent, record, endpoint, agent, latest, checking,
               starting, call, run, ready, downed>>

VARIABLES revision, snapshot, shown, dialog, modal, closed, lock, dialogLock,
          tabCall, changes, dialogs, stale, sent, acted, misled, responses

Tab == INSTANCE BrowserTab WITH
    Call <- TabCall, call <- tabCall

tabVars == <<revision, snapshot, shown, dialog, modal, closed, lock, dialogLock,
             tabCall, changes, dialogs, stale, sent, acted, misled, responses>>

VARIABLES listed, browser, live, tabs, rejected, closing, cleanup, tabsLock,
          openLock, browserCall, leaked

Browsers == INSTANCE BrowserSessions WITH
    Session <- Op, Caller <- Process,
    lock <- openLock, call <- browserCall

browserVars == <<listed, browser, live, tabs, rejected, closing, cleanup, tabsLock,
                 openLock, browserCall, leaked>>

VARIABLES stop, refusing, stopped, capacity, accept, pipes, peer, worker, serving,
          dispatched, client, closer, fault

Pipe == INSTANCE OwnerPipe WITH
    Client <- Process, closing <- refusing, task <- dispatched

pipeVars == <<stop, refusing, stopped, capacity, accept, pipes, peer, worker, serving,
              dispatched, client, closer, fault>>

\* IDs, agents and processes are interchangeable.
AgentSymmetry == Permutations(Two) \cup Permutations(Both)

PartInit ==
    /\ part \in {"ledger", "agents", "tab", "browsers", "pipe"}
    /\ Init /\ Agents!ReleasesInit /\ Tab!TabInit /\ Browsers!ControlInit
    /\ Pipe!OwnerPipeInit

PartNext ==
    /\ UNCHANGED part
    /\ \/ part = "ledger" /\ Next /\ UNCHANGED <<agentVars, tabVars, browserVars, pipeVars>>
       \/ part = "agents" /\ Agents!ReleasesNext /\ UNCHANGED <<vars, tabVars, browserVars, pipeVars>>
       \/ part = "tab" /\ Tab!TabNext /\ UNCHANGED <<vars, agentVars, browserVars, pipeVars>>
       \/ part = "browsers" /\ Browsers!ControlNext /\ UNCHANGED <<vars, agentVars, tabVars, pipeVars>>
       \/ part = "pipe" /\ Pipe!OwnerPipeNext /\ UNCHANGED <<vars, agentVars, tabVars, browserVars>>
       \* Every call on the tab has been answered.
       \/ /\ part = "tab" /\ \A k \in TabCall : tabCall[k].answer # None
          /\ UNCHANGED <<vars, agentVars, tabVars, browserVars, pipeVars>>
       \* The pipe is closed, or could not be.
       \/ /\ part = "pipe" /\ closer \in {"closed", "failed"}
          /\ UNCHANGED <<vars, agentVars, tabVars, browserVars, pipeVars>>

PartSpec == PartInit /\ [][PartNext]_<<part, vars, agentVars, tabVars, browserVars, pipeVars>>

\* No answer of the ledger contradicts another, no runtime is selected or recorded as
\* applied that has never answered, and what the browser tools answer is what happened
\* (see Releases.PublishedReady, BrowserTab.ToolHonest, BrowserSessions.ClosedIsEnded);
\* whoever the pipe has admitted is answered (see OwnerPipe.AdmittedAnswered).
AnswersTrue ==
    /\ AnswersAgree
    /\ Agents!PublishedReady
    /\ Tab!ToolHonest
    /\ Browsers!ClosedIsEnded
    /\ Pipe!AdmittedAnswered

\* Connectors find the one agent that has the store open, no update falls back
\* to another runtime than the one it announced, and none stops an agent that
\* has work (see Releases); nor is a running browser forgotten (see BrowserSessions).
\* The pipe never runs out of instances and closes only behind its last call (see OwnerPipe).
AgentKept ==
    /\ Agents!AgentReachable /\ Agents!NoFallback /\ Agents!BusySpared
    /\ Browsers!BrowsersKept
    /\ Pipe!InstancesLeft /\ Pipe!ClosedIsQuiet

\* An action on a page is sent only if nothing happened since the page was observed, an
\* observation is of one document, and a dialog is answered once (see BrowserTab).
PageKnown == Tab!ActsOnShown /\ Tab!SnapshotTrue /\ Tab!AnsweredOnce
=============================================================================
