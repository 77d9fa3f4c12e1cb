# A TLA+ model of Anywhere Computer

Anywhere Computer lets an AI client work on a person's own computers: an agent
that runs tools, an HTTPS service with its own OAuth server, a relay for devices
behind a firewall, and the Subchat plugin, which sends messages to an ordinary
Chat account. Its hard part is not any single tool but what stays true when
calls are repeated, replies are lost, processes die, several controllers share
one SQLite file, and the owner revokes or resets in the middle. This directory
specifies those protocols in TLA+, checks them with TLC and proves the
properties of half of them with TLAPS.

Paths below are relative to `src/anywhere_computer/` unless they start with
`docs/` or `tests/`.

## 1. The system

```
 client process --(connector, loopback)--> agent: Engine -> ledger, tools, sessions
       |                                      ^
   keyring item                               | forwards
       |                                      |
       +--(OAuth, HTTPS)--> HTTP service -----+--> peers (TLS), devices (relay)
                             |        |
             consent pages, passkeys  +-- delegated children -> delegated ledger
             grants, tokens           +-- Subchat gateway --+
                                                            v
 Codex / Claude MCP servers, CLI ------------> Subchat ledger -> browser -> Chat service
```

| part | state it keeps | what is hard | what makes it correct |
|---|---|---|---|
| operation ledger (`state.py`, `engine.py`) | rows, result bodies, in-flight tasks | duplicate calls, a crash between effect and record, telling "not dispatched" from "unknown" | one effect per ID, an honest `dispatched = False`, answers that agree |
| local agent and its releases (`connection.py`, `release_*.py`, `runtime_selection.py`) | selection, intent, update record, endpoint, locks | an update killed at any step, connectors that start and find the agent meanwhile | one agent that can be found, no fallback, busy agents spared |
| owner pipe (`owner_json_pipe.py`) | pipe instances, threads, dispatched calls | closing against accepting | whoever is admitted is answered; closed means quiet |
| browser control (`browser_control.py`) | sessions, tabs, snapshots, dialogs | a page that changes while a call waits for its tab; a cleanup that fails | actions meet the observed page; no browser forgotten |
| file and document tools (`files.py`, `document*.py`) | the files, backups, locks by path | two names of one file, programs that write without the lock | no lost update, replaced content kept, edits change one thing |
| uploads (`uploads.py`) | rows with chunks, staging files, destinations | a crash between durable intent, link and record; paths that lead elsewhere later | one file per upload, at its destination |
| terminals, plugin and direct sessions | pools in memory | concurrent starts, stale probes, cleanup that cannot be confirmed | capacity, idle expiry that spares work |
| peer mailbox (`peer_mailbox.py`) | SQLite registry, presence leases | replaced instances, pruning, retries | accepted once; acknowledged means read |
| remote peers (`remote_transport.py`, `remote_bridge.py`) | enrolled peers, grants, TLS connections | a grant that ends while a frame waits | nothing starts after the end; one run per ID |
| authorization store (`authorization.py`) | device row, grants, codes, tokens | replayed refresh tokens, deadlines, bulk retention | nothing dead comes back |
| client credentials (`client_tokens.py`, `native_login.py`) | one keyring item and its lock | lost replies, failed saves, two processes | a credential is sent once; "ready" can be renewed |
| consent and the owner's means (`browser_authorization.py`, `owner_*.py`, `http_service.py`) | pending pages, verifier, passkeys, tickets, reset gate | a decision after an awaited verification; a reset that stops halfway | one decision, by means still valid |
| HTTP client and service (`http_client.py`, `http_mcp.py`) | MCP sessions, dispatch marks | a call posted again after 404 or 401 | rejected means not run |
| delegated children (`delegated_*.py`, `authorized_http.py`) | grants, routes, a ledger without a lock | two ledgers and a child that may die | receipts are true, nothing after revocation |
| relay, enrollment, routing (`relay_*.py`, `device_*.py`, `registration_client.py`) | channels, vault slots, registrations, routes | frames in flight against revocation; a killed worker | one registration, one channel, no call twice |
| remote service (`remote_service.py`, `cloudflare_tunnel.py`) | supervisor, service, runner, locks, saved token | any of them dies or is stopped at any step | nothing is left behind; a service behind each connector |
| migration and startup job (`engine_migration.py`, `startup_*.py`) | two stores, markers, configurations, a job | a kill between six writes | no row lost, no split, others' jobs untouched |
| Subchat submissions (`subchat_state.py`, `subchat.py`) | submission rows, HTTP dispatch claims | controllers without shared memory; awaits between check and reservation | sent once, as checked, in order, one per Chat |
| Subchat queue and controller (`subchat_mcp.py`) | armings, epochs, leases, events; recoveries | an old worker's end against a new arming | one honest event per arming; an armed row is watched |
| Subchat gateway (`subchat_gateway.py`) | owner aliases, kept requests | retries under new IDs, closing when idle | one send per intent, callers not misled |
| Subchat browser (`subchat_browser/`) | tabs, guards, intercepted requests, Chrome's owner | a POST issued late, a cleanup that fails | what the ledger says of a POST is true |
| Subchat setup (`subchat_setup.py`, `subchat_plugin.py`) | selections, snapshots, consents | a selection that changes while a session starts | the login used was seen and enabled |
| device save, Library upload (`subchat_device_save.py`, `subchat_upload_*.py`) | a journal row, leases; upload rows and claims | runners that lose their lease, writes without a reply | no write twice; saved means published |

Components interact by calls inside one process (engine and ledger, service
and store), by shared SQLite files (ledgers, Subchat, mailbox), by process locks
(`agent.lock`, `http-server.lock`, `owner-reset.lock`, the locks of a profile and
of the keyring item) and by HTTP, TLS and pipes between processes.
`PROJECT.json` lists every component with what is modelled of it, and every
hazard at its line with the properties that cover it.

## 2. Modules

Each component module has `Init`, an action per operation or handler section,
`Next`, a specification and its properties at the end. What follows an `await`,
an unlock or a commit in the code is a new step here; what runs in one
transaction or under one lock is a single step. Operators with "Mutant:"
comments are deliberately wrong variants of the definition below them; `Next`
does not use them.

Components that share no state are checked together: an MC module extends one
and instantiates the others, a variable `part` (or `half`) selects at the start
which of them takes steps, and all others stay in their initial states. So a
run explores the sum of the parts, not their product, and its properties are
conjunctions with one conjunct per part.

| module | code | its actions |
|---|---|---|
| `OperationLedger` | `state.py` `Ledger`, `Engine.execute`, the delegated file worker | `ClaimLookup`, `ClaimInsert` (the two statements of `claim`), `DispatchHandler` (the effect), `FinishPreflight`/`FinishUncertain`/`FinishCompleted` (the groups of exception handlers), `FinishLost`, `OpenLedger` with the recovery of unfinished rows. `Exclusive` says whether an opener holds a lock |
| `OperationPromise` | the contract of a ledger, without processes or rows | bind, effect, verdict; `KeepsPromise` is the refinement |
| `Releases` | updates, selection, connectors and the agent they start | the writes of `update_once` and activation, one by one, calls and kills |
| `OwnerPipe` | the Windows pipe | accept thread, worker threads, dispatched calls, `aclose` |
| `BrowserTab`, `BrowserSessions` | `BrowserControl` | observe, act, navigate, dialogs; open, popups, close, crash, shutdown |
| `Uploads` | `uploads`, `upload_parents`, staging files, destinations | `Begin`, `Chunk`, `Abort`, the phases of `commit` and `resolve`, the file system |
| `FileTools` | file tools and workbooks | the stretches of write, replace, append, move, download; other programs; workbook reading and editing as operators |
| `PeerMailbox` | `peer_mailbox.py` | enroll, presence, send, present, acknowledge, prune |
| `PluginSessions`, `DirectSessions`, `Terminals` | the three pools | admission, calls, probes, expiry, stop, shutdown |
| `RemotePeers` | `remote_transport.py`, `remote_bridge.py` | connect, call, lookup, narrow, expire, revoke, close |
| `SubchatLedger` | submissions, dispatch, deletion | every ledger method is a compare-and-swap on the row's revision, hence one step |
| `SubchatAutoQueue` | `subchat_auto_queue` and its workers | the stretches between awaits of `run_auto_queue`, `Callback` |
| `SubchatController` | the session that sends, recovers, waits, watches and cancels | one action per stretch between awaits |
| `SubchatGateway` | the gateway in front of Subchat sends | calls, retries, background tasks, closing when idle, restarts |
| `BrowserSend`, `BackgroundChrome` | the transport through a tab; the Chrome it runs in | choose, draft, click, late POST, interception, cleanup; owner file, lock, guardian |
| `SubchatSetup` | commands that choose the login | locks, stages, snapshots, interrupts; the three reads of a starting Plugin |
| `GrantTokens` | both ends of one approved connection | the transactions of the token endpoint; the saves around a renewal |
| `OwnerConsent` | pages, passkeys, tickets, reset | handlers, commands, the reset step by step |
| `RemoteService` | supervisor, service, runner, connector | start, watch, stop, kill, the saved token |
| `HttpSessions` | connector against hosted service | post, retry, renew, expire, kill, gateway answers |
| `DelegatedCalls` | a child's operation across two computers | grants, routes, forward, work, lookup, revoke |
| `DeviceEnrollment`, `RelayChannels`, `DeviceRouter` | enrollment, channels, routed calls | worker commands with kills; frames, replacement, revocation; bind, catalog, claim, forward |
| `EngineMigration`, `Startup` | migration, startup job | the six writes; the steps of install, upgrade, remove |
| `DeviceSave` | a save of a Chat's file, over `Uploads` (EXTENDS) | transactions of the journal, awaits of the runner |
| `LibraryUpload` | prepared files and the page that uploads them | reserve, pin, claim, give, checkpoint, batch |

`MCAgent`, `MCAuthorization`, `MCSubchatLedger`, `MCUploads`, `MCDeviceSave`,
`MCLocal` and `MCRemote` compose them for the runs; `*Proofs` hold the
theorems.

## 3. Runs

| run | module, bounds | asks |
|---|---|---|
| `engine_ledger` | `MCAgent`: 2 IDs, 2 requests, 2 bodies, 2 processes of which one holds the lock; 2 agents, connectors and versions; 3 calls on a tab with one change and one dialog; 2 calls on 2 browsers of which one may be open; 2 clients of a pipe with one connection | `AtMostOnce`, `RefusalHonest`, `AnswersTrue`, `AgentKept`, `PageKnown`, the refinement `KeepsPromise` |
| `delegated_recovery` | `OperationLedger` without the lock, 1 ID, 2 processes | a violation, section 6 |
| `subchat_ledger` | `MCSubchatLedger`: 3 messages (one a follow-up), an existing and a new Chat, 2 accounts, 2 choices of model, a worker per transport, 3 messages unedited or 2 of which one is edited (`MaxTurns`); 2 messages in 2 tabs with 2 tries; 3 owners of one Chrome; 2 setup commands, one change of login, one start of Plugin or service, three of these in one behaviour (`MaxMoves`), one kept name | `SentOnce`, `ChatSerialized`, `DeletionExclusive`, `SentAsChecked`, `FollowsTarget`, `PatchedOnce`, `TransportTrue` |
| `auto_queue` | `SubchatAutoQueue`: 1 submission, 2 controllers, 2 armings, under fairness | `ArmedIsWatched`, `OneEventPerArming`, `EventHonest`, and `WorkersEnd` |
| `auto_queue_lease`, `auto_queue_limit` | 1 controller; limit 2 with 3 submissions | violations, section 6 |
| `authorization` | `MCAuthorization`: 2 grants (one of an older release, with a deadline), 2 pairs each, 2 client processes, one code or access token past its lifetime (`MaxLate`); 1 page, 2 POSTs, 2 passkeys, 2 tickets, 3 passwords, 3 changes of the generation; 1 supervisor, 2 services, 2 runners, 2 tokens | `SentOnce`, `NoSelfRevocation`, `NoRevival`, `LiveIsFresh`, `OneDecision`, `TicketOnce`, `RemovedStaysOut`, `ReachKept` |
| `uploads` | `MCUploads`: 2 uploads of different content to one destination, 2 directories behind the parent path, 2 staging names each, where the path moves or a staging file is altered; 2 tool calls on a file with two names and a link; workbooks of one or two cells and sheets | `PublishedOnce`, `CompleteStood`, `StagingKnown`, `Reserved`, `FilesKept` |
| `device_save` | `MCDeviceSave`: 1 save, 2 runners, sources of one and two blocks; 2 Library operations, 2 interchangeable calls of one or both | `TransferredOnce` |
| `local` | `MCLocal`: a peer with two instances and 3 deliveries; 3 plugin sessions with room for 2, 2 direct sessions with room for 1; 2 terminals with room for 1; at the gateway 2 request IDs with 2 intents, or with one intent, a restart and an observation; 2 submissions and callers of the controller, 1 failure; 2 remote peers, one operation ID, 3 calls, 1 change by the owner | `AcceptedOnce`, `AnswersHonest`, `Capacity`, `WorkSpared`, `ClosedForGood` |
| `remote` | `MCRemote`: 2 workers, accounts and authorization attempts, one refusal by the account (`MaxRefusals`); a relay with room for one channel and 2 connections (one call beside 2 devices, or 2 calls from one PC at a time to the only one) and one withdrawal; 2 endpoints, requests and callers of the router; the delegated ledger of 2 processes; 2 calls of a child, 1 crash; an HTTP service with room for 2 sessions and 1 task (2 connectors and 1 fault, or 1 connector and 3 faults); 2 keys in 2 stores; 4 job IDs | `RecordsTrue`, `OneCurrent`, `OnceAndOwned`, `OthersKept` |
| `direct_probe` | `DirectSessions`: 1 session, 1 watch | a violation, section 6 |

Why the bounds are enough: every race in the code is between two actors over
one row, lock, page, tab or keyring item; two of each, plus one bystander where
exclusion is between different rows (the third message, the second request),
reach all of them. Two pairs allow a renewal of a renewed pair and a replay;
three passwords and three changes of the generation allow a reset, an enabling
and a second reset. Two armings are one re-arming, which is what an old worker can confuse.
Three deliveries with one retained tombstone allow a pruned ID to come back.
Three plugin sessions with room for two allow a session to be admitted while
another is being counted out. The gateway's run has one HTTP call at a time,
because its tasks outlive their callers and carry the concurrency; an
exploration with two calls found nothing more, and the theorems cover any number.
Some bounds are joint: a behaviour may meet each disturbance, and some of them
together, but not all that the single bounds would allow at once. `MaxTurns` counts
messages taken up and messages edited; `MaxMoves` commands, changed logins and starts;
`MaxRefusals` what the account denies, revokes or withdraws; `MaxLate` credentials
past their lifetime (a client may renew at any time, so this bounds no renewal);
`OnePC`, `OneIntrusion`, `OneIntent` and `Undisturbed` say which two disturbances do
not meet in a behaviour. Every mutant is still found within them, and no theorem
rests on them: `SubchatLedgerProofs` and `RemoteProofs` hold for every `MaxTurns`,
`MaxMoves` and `MaxRefusals`, and the theorems about `Spec` of `SubchatLedger`,
`GrantTokens` and `Uploads`, `RelayHonest`, `HttpHonest` and `GatewayHonest` are about
the modules without any such limit.
Counts matter to a guard only where they are a limit, and there the limit is in
the instance (`Limit`, the pools' rooms, `KeptRequests`, `MaxSlots`,
`MaxSessions`, `MaxPending`, `MaxRetained`). `MaxUploads` and `MaxBytes` are not
reached in the run, whose one destination is reserved first: that limit is
proved. Permutations of IDs, processes, bodies, keys, tickets, accounts, callers and
directories are symmetric, and no property under symmetry is a liveness
property. `MaxRevision`, `MaxEpoch`, `MaxPair`, `MaxGeneration`, `MaxVersion`,
`MaxTries`, `MaxOpened`, `MaxSweeps`, `MaxCalls`, `MaxChanges`, `MaxFailures` and
their like bound counters in the guards. Deadlock is off where the system may be at
rest (all submissions final and all workers gone).

In `FileTools`, an alphabet of 2 letters and 7 columns stands for 26 and 16384, which
reaches column names of one, two and three letters.

Every property of a passing run has a mutant in `PROJECT.json`: a plausible
slip in one definition that breaks it within the same bounds.

## 4. Fairness

Only `WorkersEnd` needs any. `FairSpec` assumes weak fairness of a worker's
own steps - `run_auto_queue` awaits only calls with time-outs, so the event
loop comes back to it - and of `Lapse`, because time passes. Nothing is
assumed of the browser, the Chat service, the owner or another controller.
Edits of the queued message may send the worker back any number of times; the
lease ends it all the same.

## 5. Theorems

All theorems are about the specifications themselves, for every value of the
constants under the modules' named assumptions: the markers such as `None` are
not data, bounds are naturals, sets that are counted are finite.

* *AgentProofs: the ledger.* The invariant ties a row to the request it was
  claimed for, a task to the process that claimed it and an effect to a
  dispatched task; `AtMostOnce` follows without the lock. With the lock a
  second invariant (one process is up, and a row with a task is running) gives
  `RefusalHonest`, `RestartHonest` and, action by action, `KeepsPromise`; a third
  (`AnswerGround`: an answer repeats its settled row, or refused another request)
  gives `AnswersAgree`.
* *AgentProofs: the other parts of `MCAgent`*, for any number of connectors, agents,
  versions, tool calls, browsers, pages and clients, under `AgentAssumption` (bounds are
  naturals, `None` is no value). The parts of a behaviour that do not run stutter
  (`AgentHasParts`), so `PageKnown`, `AnswersTrue` and `AgentKept` follow from one
  invariant each:
  - tab (`TabInv`): a snapshot that nothing has happened to shows the revisions that are
    there, an unclaimed dialog has no response, and where a call is says what it sent and
    whether that took effect;
  - pipe (`PipeInv`): every instance is the accepting thread's, its successor's or one
    connection's, and every connection has its part of the capacity; that the successor
    is made before the connection starts is why an instance is always left;
  - browsers (`BrowserInv`): whoever is listed, rejected or cleaned up has been started,
    and one call launches a session;
  - agents (`AgentInv`): who is past `startup.lock` holds it, what the holder knows of the
    intent stays true meanwhile, and an agent answers and can be found while it serves.
* *SubchatLedgerProofs.* `SentOnce` needs to know who may still post: the
  worker that won the reservation, or the one that won the HTTP claim.
  The other five follow from what each reservation checked and from what
  later steps cannot undo.
* *SubchatLedgerProofs: the other parts of `MCSubchatLedger`*, for any number of
  messages, tabs, owners, profiles, logins, names and commands, under
  `TransportAssumption` (markers are no values, names are finitely many, bounds are
  naturals). `TransportHonest` states `TransportTrue`; its invariant is one per part:
  - send (`BrowserInv`): the browser lock is held from `prepare` to the end of `send`
    (`LockSpansSend`), so that one message at most is "sending" under it; a draft or a
    POST that is still to come stands in the page of its message, intercepted there or
    blocked (`LooseBlocked`), whichever of the user, the click, the late callback and the
    cleanup comes first; and what a page shows without having sent it belongs to a
    message whose page is not used again (`GhostsOwned`), which is why a baseline is true;
  - Chrome (`ChromeInv`): a guardian is done only after its owner has ended and when
    nothing of its Chrome runs or is still to come;
  - setup (`SetupInv`): what a command is about to save was seen, what it read under the
    lock is still what the file says, and every snapshot belongs to one file or one
    command. A step is described by what it does to its command (`Moved`, `Stopped`) and
    to the files (`Quiet`, `FileStep`), and the other commands by what they rely on
    (`OthersFit`, `FileFrame`).
* *SubchatAutoQueueProofs.* An epoch's event exists exactly when the arming
  has ended; workers of older epochs are turned away by the epoch in the
  guard. Gives `OneEventPerArming` and `EventHonest`. `ArmedIsWatched` is false
  in general (section 6); `RoomKeepsWatch` proves it of every behaviour in which
  a controller always has room for the successor of a worker that ends, and
  `FewAreWatched` that this is so when there are no more submissions than the
  limit. Its invariant says, for each arming and each controller that took it
  up, which worker carries it on: a live one of this epoch, or an older one whose
  end will start it.
* *HostedServiceProofs.* Clients: a credential that was never sent has exactly one
  holder: the keyring item that says ready, or one process between two steps.
  That is `SentOnce`; from it and the server's books (an older pair is
  redeemed, what is redeemed was sent) follow `NoSelfRevocation` and
  `ReadyIsRenewable`. `NoRevival` is a theorem about steps.
  Consent: while `reset_pending` is false, the verifier
  and every passkey are younger than the last begun reset; the flag changes only
  while no handler runs, because the reset holds the service's lock. Gives all six
  properties of the consent pages.
  Remote service: parent and child know each other until one of them is gone
  (`WatchHas`, `ServeKnown`, `ServeHas`, `RunnerKnown`); a service that is up holds
  the server's lock until its runner is gone, a runner that may connect holds the
  tunnel's, and the saved token changes only while that one is free
  (`ServerLock`, `TunnelLock`); a service that looked for its runner's connector
  knows of it until it has ended it, or that connector is `loose` (`Stopping`);
  a connector runs only with a runner that is at it, a service that is about to end
  it, or as a loose one (`CloudRun`). That is `ReachKept`, for any number
  of supervisors, services, runners and tokens and every restart limit, under
  `ReachAssumption` (processes of different kinds are different).
* *UploadsProofs.* Four facts make the invariant: a phase of commit or resolve
  has its row in the state it needs (`Tasks`), nothing was linked before the
  link (`Links`), a file made by an upload is at its row's destination
  (`Files`), and a staging file on disk is the one its row names while the
  parent path stays (`Stages`). `PublishedOnce`, `CompleteStood`,
  `StagingKnown` and `Reserved` follow; `Reserved` is the only place where the
  limit of active uploads counts, and it is a theorem for every limit.
  The second half proves the two parts of `TransferredOnce`, for any number of
  runners, calls, operations and batches. *Save:* every write the journal of a
  save knows is about to be sent by one runner, on its way, or received
  (`Journal`, `Counted`); what a runner saw of the device stays true while it may
  use it (`SeenTrue`), so a step the journal calls verified took effect
  (`VerifiedIsTrue`) although a runner whose lease lapsed still runs. The saves
  write through the operations of `Uploads`, and their invariant rests on its
  own. *Library:* a call holds a row only by its claim, nothing was given to the
  page before it, and a row that was given is never claimed again (`Holder`,
  `Once`). Assumed: a content fits the bytes reserved for it (`SaveAssumption`;
  `BeginUpload` refuses a size above 1 GiB, and a source is spooled up to 16 MiB),
  and the marks for "nothing" are no values (`MarkerAssumption`,
  `LibraryAssumption`).
  The last part is `ToolsKeepFiles`: what `FileTools` promises of files
  (`FileTools!FilesKept`), for any number of calls, names, links, lines and changes by
  other programs. `ToolsInv` says what the stage of a call is worth: from admission on it
  holds its file's lock and knows the content it found (`CallFits`), a backup is whole
  before the file is compared with it, and a swap that nothing came late for replaces the
  content that was compared. An open read has a prefix of what was opened unless the file
  changed under it (`ReadFits`), and the pages of a download are the first of the content
  its hash is of (`LoadFits`). Assumed: the marker for "nothing" is no file, call, line or
  content, and a file may have a line (`ToolMarkers`).
* *LocalProofs.* The seven parts of `MCLocal`, for any number of deliveries,
  instances, sessions, terminals, requests, submissions, peers and calls, under
  `LocalAssumption`, `GatewayAssumption` and `ControllerAssumption`. The
  inductive invariant is the conjunction of one per part; a step of one part
  leaves the variables of the others. What each needs beside its properties:
  - mailbox: an ID whose message is gone has a tombstone or is the message's
    own; who may acknowledge was shown it;
  - plugin sessions: the slots held by calls, starts and unconfirmed clean-ups
    are within the room, also between counting and admission;
  - direct sessions: only an expired watch lets an entry go, whatever the probe
    says;
  - terminals: what a reader has seen and what the ring dropped add up to the
    output; `TermRoom <= TermKept` (32 and 128 in the code) is what keeps a start
    from forgetting a running terminal;
  - gateway: each request ID has one row of the kept table, a task belongs to one
    row, a posted intent belongs to the row that reserved it, and an answer that
    says "not dispatched" is given for a row that never gets to send. That
    acquiring the gateway and creating the task is one step
    (`subchat_gateway.py:564`, no `await` in between) is needed for `NotMisled`;
  - controller: one input is in the hands of the one caller inside the lock; a
    row somebody was told is cancelled is never reserved; recoveries are counted
    where they are started;
  - remote peers: a run has a record, a record a caller whose grant allowed it,
    and an exchange in progress a link that stands.
  `LocalMailKept` states two more properties of the mailbox that no run lists:
  no accepted message disappears unread, and a credential file opens.
  `GatewayHonest` says what `LocalSpec` says of the gateway about `SubchatGateway` by itself,
  without `OneIntent` and `Undisturbed`.

* *RemoteProofs.* The eight parts of `MCRemote`, for any number of workers, accounts,
  attempts, devices, connections, calls, sessions, rows and crashes, under
  `EnrollmentAssumption` and `RemoteAssumption` (markers are no values, counted sets are
  finite, limits are naturals). One invariant per part; what each needs beside its
  properties:
  - enrollment (`EnrollIInv`): what each worker's program counter says it holds, which
    lock excludes whom, and one registry row per attempt; a step of it that changes the
    vault is one of the two that may (`EnrollStep`). `OneDevice` has the hypothesis
    `Binds = TRUE`, because the exchange of an unbound attempt does not promise it. While a
    registration row stands, the grant it was made with is in the first slot, and is of the
    row's account (`Resumes`, which is `OthersKept`'s `Resumable`);
  - relay (`RelayIInv`): a call that was rejected or failed has no request left anywhere
    and has not run, and a reply says what became of its call (`Framed`, `Replied`);
  - router, ledger and child (`RouterIInv`, `LedgerIInv`, `ChildIInv`): a claim that was
    forwarded is its binding's, an effect has its dispatched task, and a worker's file and
    row agree wherever it may crash;
  - migration (`EngineIInv`): where the six writes of a migration stand decides which
    database has which rows (`Stages`, `Copied`), and an engine open elsewhere stops it;
  - startup (`StartupIInv`): an ID is used once, so a file or job that is not of the
    receipt is somebody else's; and at each step that enables, starts or removes
    by name, the command's object is still its own unless it was exchanged after the
    last look (`Looked`);
  - HTTP (`HttpIInv`): a client that has sent no call, or was told that it failed, has no
    task and nothing dispatched, and no request of it that could be (`Asked`); a request
    gets one task and a task dispatches once (`Served`). Every answer a client can hear in
    every phase keeps that (`HttpHears`), and a reply that nobody waits for changes
    nothing else (`HttpReplies`).
  `RelayHonest` and `HttpHonest` say the same of `RelayChannels` and `HttpSessions` by
  themselves, without the limits that keep `MCRemote` small for TLC.

Only model-checked: the part of `MCUploads!FilesKept` about workbooks (`EditExact`,
`CreatedReads`, `PagesCover`), which is about recursive functions over data, for which
induction is out of the provers' reach (its part about the steps of the file tools is
`ToolsKeepFiles`); `WorkersEnd`, which needs fairness; and everything the violation runs
show.

## 6. What the checks found

* `delegated_recovery` (`state.py:124`): opening the delegated ledger while
  another process works marks the live row "Agent restarted before the outcome
  was recorded". A caller reads `unknown` for an operation that is running.
* `auto_queue_lease` (`subchat_mcp.py:805`): a lease that lapses during the
  preparation ends the worker through the exception of an explicit disable;
  no event is saved and the row stays armed until a controller restarts,
  against `docs/SUBCHAT-PROBE.md:126`.
* `auto_queue_limit` (`subchat_mcp.py:832`): the successor promised to a
  re-armed row is refused by the limit inside the done callback.
* `direct_probe` (`direct_mcp_sessions.py:158`): an activity probe that timed
  out keeps its answer; used after a later call started background work, it lets
  the idle timeout end that work, against `docs/SUBCHAT-PROBE.md:107`.

Met while reading, without a run of their own (where a property would fail for
one of them, it excepts the case by name, as given):

* Ledgers: `connection.serve` answers `unknown` for a completed row whose reply
  exceeds the wire limit; a claim that fails on a damaged saved body is answered
  with `dispatched` false; a delegated worker whose clean-up raises after its
  write answers the same (`authorized_http.py:508`, excepted as `botched`).
* Subchat: `submitted()` fixes the conversation of a New Chat without looking at
  peers or deletions, which the comment at `subchat_state.py:743` does not
  exempt. Disabling a queue watch does not stop a recovery under way; two
  concurrent disables and an enable in one tick may leave a live new watch
  reported as stopped. A send cancelled after the callback claimed the POST lets
  a follow-up take the tab first, whose baseline may then show a message that
  never left (`orphaned`). The Plugin reads the selection three times while it
  starts, and a change in between can start a sending session for an account
  never enabled (`moved`, against `subchat_plugin.py:196`); `select` takes no
  `profile-stage.lock` (`subchat_setup.py:715`), so a stage under way may write
  back a consent that was withdrawn; an interrupt between `os.replace` and the
  return of a save removes the snapshot just selected (`torn`,
  `subchat_setup.py:705`).
* Transfers: a runner of a device save whose lease lapsed while it downloaded
  overwrites the spool of its successor, and the save then fails on it for ever
  (`subchat_device_save.py:537`); a retry of a dispatched Library request with
  no login selected is answered `dispatched: False`.
* Sessions: a watch loop at its deadline waits for the lock that a renewing call
  holds and then disables the renewed watch (`direct_mcp_sessions.py:337`); the
  reader of a terminal may close `master_fd` while `_write_pty` waits; a failed
  start of a browser whose clean-up fails too leaves a browser nobody lists
  (`leaked`).
* Sessions, documentation against code: of a plugin session with background work,
  `docs/SUBCHAT-PROBE.md:110-111` says that explicitly closing it "still ends that local
  background work", and `docs/PLUGIN-SESSIONS.md:69-70` says the same; `stop()` refuses it with
  `session_busy` (`plugin_sessions.py:313-332`), and `tests/test_plugin_sessions.py:249` expects
  the refusal. `WorkSpared` claims what the code does of a stop, and what
  `docs/SUBCHAT-PROBE.md:107-109` promises of the idle timeout. Only shutdown ends such work.
* Remote service: `stop_remote_connector` looks for the runner's descendants before it
  tells the runner to stop (`remote_service.py:34-42`). A connector that the runner starts
  in between, and that `_stop_child` then cuts off from it by killing it after the time
  limit (`http_supervisor.py:18-30`), is in nobody's hand and runs on. So does one whose
  runner is interrupted between starting it and the `try` that would end it
  (`cloudflare_tunnel.py:136-157`). `ReachKept` excepts these, and what a killed service or
  runner leaves, as `loose`.
* Startup: the file is checked and then unlinked (`startup_service.py:247-248`, `332-333`), the
  job is compared and then enabled, started or removed by its name in a subprocess
  (`startup_service.py:311-314`, `startup_native.py:244-254`): what others put there in
  between is enabled, started or removed. `OthersKept` excepts it as `late`.
* Owner: a password changed between its verification and `approve()` still
  approves (`browser_authorization.py:864`).
* Releases: a record "applied" for v1 with an intent for v1 that was interrupted
  while the old agent runs, then v2 published: `update_once` installs v2's record
  over it and activation refuses until v1 is started by hand; a prepared v1 that
  waits for idle is installed over a v2 started by hand meanwhile. A crash between the local and the HTTP
  marker of the migration lets the HTTP service start and write, after which
  the migration stays paused.
* Files: a torn backup makes every later replacement of that content refused
  until the content changes; a program that writes between the last comparison
  and `os.replace` is overwritten without a backup (`late`); `unlink` of the staged name
  after `os.link` may fail and the call be answered as failed though the file
  exists.
* Remote: the relay's timeout closes the channel with 1001, after which the PC's client
  stops, though `ChannelOutcomeUnknown` says "recover ... after reconnect"; a second
  enrollment worker's recovery may save its grant after another's clean-up deleted
  the row of its slot; a Chrome whose guardian failed after the next owner took the
  owner file blocks the profile until it is quit by hand.

## 7. Abstractions worth knowing

Data is reduced to what the properties tell apart: requests, bodies, models,
keys and tickets are model values, contents stand for their length and digest.
SQLite transactions are atomic and durable; a process that dies loses its memory
and its locks. Clocks appear as steps that may happen at any time (`Lapse`,
`TermOver`, `PageOver`, an expiry), so no property relies on their order. The Chat
service, pages and the network are nondeterministic. Handlers of tools are one
outcome with at most one effect. `lost`, `effects`, `told`, `misled`,
`late`, `robbed` and their like are history. Where the code's behaviour was merged or split:

* *Ledgers.* The row's record of a refusal that is replayed is read as "maybe", the
  cautious reading. In `DelegatedCalls` one operation ID is followed and lookups have IDs
  of their own; the claim of a finish over a lookup's receipt may turn it back into
  unknown, as the code does.
* *SubchatLedger.* Left out: mutation receipts, the preparation-failure table,
  `observe_rejection`, uniqueness of message IDs. A Chat belongs to one account.
* *SubchatGateway.* Opening and retiring is under one lock and a step each. A full
  gateway refuses with `dispatched = False` without looking at the ledger
  (`NotMisled` is about the others). All sends carry an intent key. A read done
  while the gateway is full runs as a task.
* *BrowserSend.* All messages go to one existing Chat (a New Chat never shares a
  tab); the page issues at most one POST per draft, however late; Stop-button
  and DOM readings are not relied on; users close no tab; the plain UI mode without
  `record_request`, checkpoints of streams and rejections are left out. A release of
  a tab that races with a failing preparation on it leaves an open tab (excluded).
* *BackgroundChrome.* Launch Services starts Chrome within `startup_grace` or never.
* *SubchatSetup.* `http-watch.lock` and `http-server.lock` are one; on macOS the
  Plugin's own profile is not signed in; environment overrides, discovery,
  prepare-dedicated and listings are left out.
* *GrantTokens.* A request is carried out at most once, late or never; whether a
  token is due is nondeterministic; scopes, PKCE and redirects are left out.
* *OwnerConsent.* The verifier is a version that grows with every password;
  `RestoreFile` lets the file system bring a ticket's file back. Ten attempts per
  minute, 64 pages, 20 keys, 128 tickets and signature counters are left out.
* *RemoteService.* The supervisor's three start-up locks are one step; sleeping
  before a retry is merged with the state it goes on at; closing a child's pipe
  and signalling it are one step; grace periods are nondeterministic. Looking for the
  connector, telling the runner and killing it are three steps. A process interrupted between
  the start of its child and the `try` that ends it is started and then killed. A
  runner may die at any step; its connector then runs on, and is `loose` unless its service
  had already found it.
* *Uploads.* What the code does in the pinned directory uses the row's `parent`,
  what it does by path uses `current`. `begin` is one step. The alias check of
  case and Unicode is left out.
* *DeviceSave.* A call to the device arrives at most once, late or never; its
  reply tells the runner nothing. `Observe` is `upload_status`: a missing upload looks
  like a failed status.
* *FileTools.* Lock and checks are one step, staging is local. Every in-place write moves
  mtime, ctime or size. A crash leaves staging files. One edit per workbook; types, formulas,
  styles, Word and PowerPoint are left out; a bad shared-string index refuses the reading.
* *Releases, Startup.* SIGTERM is a kill. When recovering, activation may proceed without
  asking an agent that does not answer. A legacy receipt is never restored; a
  job being removed may be seen as present. In `Startup` the look at the file and the job and
  the step that acts on them by name are separate steps (`Withdraw`/`Drop`, `Install`/`Create`,
  `Unregister`/`Remove`, `Stopped`/`Unlink`, `Start`/`Kick`). A manager asked to install may register
  what the file then says or enable the job that has the name (as systemd does). The
  comparison of the native XML by the Windows helper is left out of the late window, where it
  only narrows it. Others exchange a job of ours, and a new job appears only by a command.
* *BrowserTab.* Page navigation and its event are one step; an action answered
  "unknown" may take effect later.
* *HttpSessions.* A gateway that answers 400-429 by itself has not passed the request
  on; a receipt "running" may be followed by a task that ends before the engine; all
  calls carry an operation ID; DELETE and GET are left out.
* *OwnerPipe.* `CancelSynchronousIo` is sent once, so a close in the wrong moment
  may end in `CleanupError`; a worker thread that cannot start leaks its instance,
  and `aclose` then fails.
* *RemotePeers.* The client's reading is merged with the server's answer; catalogs,
  status and transfer IDs are left out.
* *Terminals, DirectSessions, PeerMailbox.* Input, resizing, the Windows console, media,
  catalogs, grant binding and history pages are left out.

## 8. Not modelled

Not modelled: GUI and desktop drivers, Word and PowerPoint, search and previews,
parsing of Chat packets and of the DOM, the CLI, diagnostics, set-up of connectors,
the tunnel over SSH and the bridge's health checks, the local supervisor, the
macOS helper, the desktop shell, build and verification scripts. They are
sequential, read-only or drivers of programs that a model could only guess at;
their outcome enters the ledger as one result.
