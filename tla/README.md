# Verification of rieul.app

TLA+ models of [rieul.app](../src/README.md), a daemon that gives an owner's
browsers access to the owner's machines, and of what makes it correct: the order in
which calls, tasks, messages, crashes and deliveries happen. TLC checks the models on
small instances; TLAPS proves the central invariants for every value of the
constants. `PROJECT.json` is the index: components, runs, the source lines behind each
definition, findings, hazards and theorems. Paths below are relative to `src/`.

Contents: [the system](#1-the-system-and-its-parts) ·
[modules](#2-modules-and-the-code-they-model) · [runs](#3-runs) ·
[fairness](#4-fairness) · [proofs](#5-proofs) · [findings](#6-findings) ·
[limits](#7-what-is-abstracted-and-what-is-not-modelled) · [plan](#8-plan)

## 1. The system and its parts

A rieul daemon runs on every machine of an owner. Browsers talk to it over
WebTransport; the daemon keeps terminals, command jobs, agent sessions and desktop
attachments for them, replaces itself through an updater and forms a cluster with the
owner's other daemons.

| Part | State | Operations | Talks to | What makes it correct |
|---|---|---|---|---|
| **Cluster journal** `daemon/host/src/cluster/primary.rs` | genesis, hash-chained signed log, `prepared`, `sealed` | `prepare`, `append`, `install`, `State::apply`, `replay` | its SQLite file | no two signed histories fork; the role is never lost |
| **Cluster runtime, worker** `cluster/primary/runtime.rs`, `runtime/*.rs` | `node.phase`, `node.admission`, `leaving`, cursors | join, admit, remove, adopt, revoke, transfer, leave, synchronize | journal, peers, clients | one writer; abandoned incarnations stay out; a leave ends |
| **Cluster RPC** `server/cluster_rpc.rs` | client-credentials mutex, challenge table | execute, forward, challenge, prove | runtime, peers | writes by the primary only; nothing after a removal; a nonce counts once |
| **Adoption outbox** `runtime/adoption.rs`, `client.rs` | grants waiting for the primary, cancellations | adopt, cancel, expire, dispatch | worker | a cancelled grant ends revoked |
| **Update transaction** `daemon/macos/src/root_update/transaction.rs`, `native.rs`, `receipt.rs` | the journal and result files, the two artifacts and their staging | quiesce, exchange, start, ready, rollback, retire, cleanup | launchd, drain | recoverable at every durable write |
| **Update startup, dispatch, preparation** `root_update/runtime.rs`, `launchd.rs`, `control.rs`, `preparation.rs` | start request, worker result, verified pair | startup, dispatch, check, download, prepare | transaction | only a consistent pair serves |
| **Protected store** `root_update/store.rs` | a private directory of records and a lock file | save, load, remove, lock | every updater file | whole records, none older than acknowledged |
| **Migration** `root_update/migration.rs` | a second journal | prepare, worker phases, finalise GUIs, policy | launchd, startup | completes, on a verified readiness only |
| **Idle drain** `daemon/host/src/maintenance.rs`, `root_update/drain.rs` | two files, lease, `WorkGate` | ask, grant, commit, exit, defer, expire | every source of work | an update never ends work; admission returns |
| **RPC server** `daemon/host/src/server.rs`, `daemon/core/src/rpc.rs` | sessions, streams, tasks, guards | connect, authenticate, call, stream, expire | everything | one answer; a known client; exclusive drains |
| **Subscriptions** `server.rs` `stream_*_subscription` | rows last told | snapshot, patch, end | sources of the host | the client's copy converges |
| **Startup, certificates** `server.rs`, `cert.rs` | resolver, watch state, status file | start loop, reload task | operator's files | a certificate with its own key; ready when serving |
| **Pairing** `server.rs`, `core/src/pairing.rs` | attempts, challenge, credentials | start, complete, renew, remove, authenticate | GUI process | the newest attempt only; one client per session |
| **Terminals** `terminal.rs`, `windows/src/terminal_ipc.rs` | sessions, table, attachments, pipe of the user process | create, attach, control, output, close | clients, user process | no silent loss; no child out of sight |
| **Commands** `command.rs`, `state_db.rs` | jobs, schedules, processes, retained output | start, cancel, delete, due schedules, follow output | database, drain | an occurrence runs once; output whole |
| **Agents** `agent.rs`, `agent_runtime.rs` | rows, runtimes, live snapshots, catalog | create, attach, turn, configure, list | ACP process | a turn is prompted once; views agree |
| **Desktop input** `desktop.rs`, `desktop_ipc.rs` | attachments, lease, epoch, held keys, ledger of presses | attach, control, inject, expire, recover | helper process | nothing stays pressed |
| **Desktop media** `desktop_flow.rs`, `desktop_quality.rs`, `server/desktop_rpc.rs` | configuration, codec epoch, flow, quality | configure, send, acknowledge, adapt | helper, viewer | nothing late touches what is new |
| **GUI process** `daemon/gui/src/*` | confirmation, window, menu, socket | confirm, draw, install, bind | daemon, updater | the user decides on what is shown |
| **Web session** `web/src/state/rpc-session.ts` | generation, transport, retry timer | connect, renew, lose, reconnect | RPC server | a stale generation changes nothing |

`PROJECT.json` lists these and the remaining parts (codecs, verification of
archives, platform bindings, schemas, the web workbench) with their status.

**What is hard here.** *Concurrency*: client calls, worker ticks and peers' calls
interleave on each node; handlers release one lock before taking the next, and rows
are saved after the lock that guarded them. *Delivery*: histories are carried by
browsers and may arrive late, repeatedly or never; answers of helpers are lost.
*Crashes*: an update stops and restarts the process that started it and can be cut off
between any two writes by three independent deaths. *Staleness*: a start request, a
lease, a verified pair, a challenge, a configuration or a connection generation is
used after the world it described has gone. *Limits*: 512 entries, 16 acceptances, a
table of challenges, windows and ledgers. The `hazards` list gives each at its line
with the properties that would catch it.

## 2. Modules and the code they model

```
ClusterJournal                                    UpdateTransaction
  +-- ClusterReplay                                 |-- UpdateTransactionProofs
        |-- ClusterJournalProofs                    +-- MCUpdateTransaction
        +-- MCClusterJournal                      UpdateDrain
                                                    |-- UpdateDrainProofs
                                                    +-- MCDepartures
                                                  ProtectedStore ==> AtomicRecord
ClusterCalls, ClusterAdoption                       +-- ProtectedStoreProofs
  +-- ClusterCallsProofs                          WebSession, DesktopInput
PeerChallenges, PairingSessions, RpcStreams,        +-- SessionProofs
PairingGui                                        DesktopHelper ==> InputBackend
  +-- IdentityProofs                                +-- DesktopHelperProofs
MCHostWork, MCHostScreens, MCHostServices  (instances of the other components)
```

`--` is `EXTENDS`, `==>` implements. Where a proof module serves several components, it
extends the first and takes each other one as an instance in a section of its own;
`MCHostWork`, `MCHostScreens` and `MCHostServices` extend or instantiate all they run, and
`MCDepartures` instantiates `ClusterJournal` beside the drain.

### ClusterJournal

State: one function over nodes per table of the node database (`phase`, `inc`,
`log`, `sealed`, `prepared`, `leaving`, `syncing`), and three facts about the world:
`lapsed` (admissions whose five-minute consent has expired), `signed` (every history
a primary ever committed) and `accepted` (every transfer acceptance ever signed).
Everything a node keeps is durable and every handler is one immediate SQLite
transaction under the client-credentials mutex, so an action is a handler and a
crash is a stuttering step.

* *Delivery*: an action that receives a history picks any member of `signed`, and a
  seal any member of `accepted`. That is every reordering, repetition, delay and loss.
* *Signatures* are the key in `Entry.by`, sequence number and previous hash are the
  position in the history. Only actions of that node add such an entry.
* *Identities*: a node is its key; `Adm(n) = <<n, inc[n]>>` is the random admission id
  of the current join attempt.
* `State::apply` appears as *views* of a history (`Epoch`, `Primary`, `Members`,
  `Seen`, ...) because views are what can be reasoned about. `ClusterReplay` goes
  through a log entry by entry, as the code does; `ReplayIsTheViews` shows the two agree.
* Actions: `ClientCall` (the management calls of `runtime.rs` and `join.rs`),
  `WorkerStep` (synchronization from one peer, a removal proof, the leave tick, the
  join tick) and `ConsentLapses`.

### UpdateTransaction

State: the two artifacts and their staging, every state file of
`/Library/.../updates`, the GUI session, the database's schema flag, the updater
lock, the worker's program counter and the daemon's state as launchd sees it. A
release is a number; `Digest(v)` is its daemon's digest, so that app-only releases
share one. One action per durable write or effect:

* the serving daemon verifies the installed pair (`check_candidate`), downloads
  (`download`), journals (`prepare_locked`), dispatches (`dispatch_attempt`,
  including the submission that is cut short) and restarts;
* the worker's program counter follows `resume_locked`: `QuiesceGuis`,
  `request_exit`, `StopDaemon`, `CheckStopped`, `exchange_app`, `exchange_service`,
  `SaveStarting`, `RequestStart`, `Bootstrap`, `Ready` or `CandidateFails`,
  `restore_guis`, `SaveResult`, `SavePending`, `Retire`, `Cleanup`, `Cleaned`;
* launchd relaunches an exited daemon, which runs `startup`: it serves
  (`StartupServes`, `Serves`) or parks and ensures a worker (`StartupParks`);
* `WorkerFails`, `WorkerDies`, `DaemonDies`, `Reboot`, and the candidate migrating
  the database (`CandidateMigrates`), at any point.

`observed` is the pair the controller verified under one hold of the lock and uses
under a later one; the model keeps the two apart.

### UpdateDrain

The inside of `request_exit` that `UpdateTransaction` takes as one step. State: the
request and response files, the asker, the accept loop's lease with its guards, the
suspended observation, and the work: admitted calls, connections, terminals, jobs
and agents, the scheduler's gate. Actions follow the branches of the 250 ms
maintenance tick (`NoRequest`, `Expire`, `Renew`, `Exit`, `Superseded`, `Observe`,
then `Observed`), of a process that never listened (`GrantUnstarted`), of the accept
loop (`Accept`), of the gate (`enter`, `Leave`) and of `run_due_schedules`.
`Launch` replaces a process that exited or died; the files survive it.

Observing is two steps because `observe_update_work` awaits: between freezing
admission and the answer calls end, clients leave, terminals and jobs end.
One asker at a time, because the callers of `request_exit` hold the updater lock.
A report may fail (`HookFails`, `Observed`, `Accept`), and a report that failed may be
visible all the same, because `Dir::save` renames before it syncs the directory
(`store.rs:454`). The daemon then keeps serving although its exit was reported; the
history `misled` holds the processes this happened to, and `StopsOnlyTheGone` and
`AcknowledgedIsGone` except them. Accordingly `request_exit` of `UpdateTransaction` and of
`UpdateMigration` may succeed without the process having gone.

### The other components

Each is one module with the state the code keeps and one action per lock hold, system
call or task step; the header of each module says what a step is.

| Module | Code | State and steps |
|---|---|---|
| `ClusterCalls` | `server/cluster_rpc.rs`, `commit_authorized` | log, the epoch each node holds, its credentials mutex, the call of its client, the peer request and the worker's revocation. A call locks, executes or gives the mutex back, relocks, forwards and waits with the mutex held; the peer takes its own. Transfers, imports and removals come in between |
| `PeerChallenges` | `server/cluster_rpc.rs`, `runtime/peer.rs`, `client.rs`, `join.rs` | connections, the bounded table of nonces, what was given and accepted, proofs under way, revoked grants, the identity of a session |
| `ClusterAdoption` | `runtime/adoption.rs`, part of `worker.rs` | the issuer's outbox, receipts, cancellations and expiries, its prefix of the log, the requests on the wire |
| `ProtectedStore` | `root_update/store.rs` | directory and its states since the last sync, files with version and sync flag, a writer, a reader and lockers, system call by system call; the machine may stop anywhere. Implements `AtomicRecord`: a record that is saved, removed and loaded in one step each |
| `UpdateMigration` | `root_update/migration.rs` with `runtime.rs`, `launchd.rs` | the record's phases, the administrator's command, the worker, launchd's job with its pid, the GUI of each user |
| `RpcStreams` | `server.rs` `run_rpc_session`, `handle_reqres_stream` | sessions, authentication, calls, response tasks, work guards, the drain |
| `Subscriptions` | `server.rs` `stream_*_subscription` | one subscription of one stream function, as a policy record (what wakes it, when it listens, what it writes, what ends it), against a changing source |
| `ServerStartup` | `server.rs`, `cert.rs`, `config.rs` | config and PEM files, start loop, reload task with its trigger channel, resolver, status file |
| `PairingSessions` | `server.rs`, `core/src/pairing.rs` | attempts, challenge, credentials file with load and store apart, session authentication |
| `TerminalSessions` | `terminal.rs`, `server.rs` | map and sessions with their own locks, table patches copied under a lock and broadcast after it in any order, the table's snapshot before its subscription, attach streams, bounded channels |
| `UserTerminal` | `windows/src/terminal_ipc.rs` | client thread, pipe, user process and its child, startup and event channels |
| `CommandJobs` | `command.rs`, `state_db.rs` | jobs and schedules in memory and in rows, the scheduler's tick in its three lock holds, deletions, restarts |
| `CommandProcess` | `command.rs` | child, grandchild holding the pipes, readers, stdin writer, timeout, cancellation |
| `JobOutput` | `command.rs`, `state_db.rs`, `server.rs` | retained chunks, their rows, the reader and the job's task as writers, each in its lock hold and two saves, the notification with the borrow it sends under, the follower and its cursor over a restart |
| `AgentSessions` | `agent.rs`, `agent_runtime.rs` | rows, attachment lock, runtimes, process, consumer, live snapshot, turns, `update_session` in its four steps, one subscriber |
| `AgentHistory`, `AgentCatalog` | `agent.rs`, `state_db.rs` | a client that collects pages and events of a session; a walk over the catalog while sessions change |
| `DesktopInput` | `desktop.rs`, `server/desktop_rpc.rs` | attachments, control lease and epoch, held keys, poison, what the OS holds, streams, cleanups |
| `DesktopHelper` | `desktop_ipc.rs` | proxy, connection, pending requests with their deadlines, ledger, helper; implements `InputBackend`, the abstract backend the broker is written against |
| `DesktopMedia` | `desktop.rs`, `desktop_flow.rs`, `server/desktop_rpc.rs` | attach stream, layout, configuration and codec epochs, flow window, media task |
| `DesktopQuality` | `desktop_quality.rs` | levels verified for a configuration, samples, the call that holds `quality_operation` |
| `PairingGui`, `GuiSocket`, `UpdateMenu` | `gui/src/controller.rs`, `view.rs`, `transport.rs`, `updates.rs` | queue, controller and what was drawn; the profile's socket name; the menu, its question and the status subscription |
| `WebSession` | `web/src/state/rpc-session.ts` | generation, attempts with their await, transport, retry timer, what the page shows |

## 3. Runs

| Run | Checks | Shows |
|---|---|---|
| `cluster_journal` | `JournalInvariant` (`TypeOK` and `ForkFreedom`), `NoFork`, `SoleWriter`, `AuthorityNeverLost`, `LeavingNeverPrimary`, `AbandonedNeverMember`, `ReplayAgrees` | every interleaving of two nodes with handoff, removal, re-join and late delivery; and over every log it reaches, followed by any entry at all, that going through it entry by entry (`State::apply`, `replay`) gives the views |
| `cluster_rejoin` | `RejoinInstalls` (violated) | finding 1 |
| `update_transaction` | `Recoverable`, `Consistent`, `NeverDowngrades`, `GuiObligation`, `RecoveryInvariant`, `ServiceReturns` | three transactions over four releases with failures anywhere; the daemon serves again once failures stop |
| `update_mixed_pair` | `MixedPairNeverServes` (violated) | finding 2 |
| `update_bootout` | `NeverKillsServing` (violated) | finding 3 |
| `departures` | `LeaseIsIdle`, `StopsOnlyTheGone`, `DrainInvariant`, `IdleExit`, `AdmissionReturns`, `LeaveCompletes` | an updater drains the daemon: two attempts, two processes, every work interleaving; or a node leaves a cluster of three, one of them behind, and the leave ends by the workers' retries |
| `protected_store` | `StoreInvariant`, `RecordSpec` | saves, removals and loads cut by each other and by stops of the computer, processes at the lock; each implements one step of `AtomicRecord` |
| `host_work` | `OutputIsWhole`, `WorkRunsOnce`, `ChildrenAccounted`, `ViewsAgree`, `SessionSound`, `LateChangesNothing`, `WorkEnds` | terminals, commands, agents and the web session: what clients see, what survives a restart, what a late step leaves alone, what ends |
| `job_output` | `SubscribersSeeExit` (violated) | finding 4 |
| `host_screens` | `NothingStaysPressed`, `ConfiguredAsVerified`, `ConfirmedAsSeen`, `StaleChangesNothing`, `BackendSpec`, `AbandonedEnds` | desktop, pairing window and update menu |
| `desktop_helper` | `PredecessorReleased` (violated) | finding 5 |
| `host_services` | `ServesSoundly`, `OnlyPrimaryWrites`, `ChallengesSound`, `IdentityIsOnce`, `NothingAfterRemoval`, `RequestsEnd` | startup, streams, pairing, migration and a node's cluster calls |

**Runs in parts.** The components of the host runs share no state, so composing them would
only multiply states. `part`, chosen in the initial state and kept, names the component
that runs; the others stand still. A component asked several questions appears once
for each, with its own bounds. A property of such a run is a conjunction of the
components' properties, each under its `part`; `MCHostWork`, `MCHostScreens` and
`MCHostServices` spell it out. `BackendSpec` is the refinement: every step of
`DesktopHelper` is a step of `InputBackend` or leaves it alone. `cluster_journal` has two
parts of one component (*roles*, *grants*: adoptions and revocations of clients, over
histories of three entries), `departures` the parts *drain* and *leave*.

| Run | Scenarios (`part`) and what their bounds are for |
|---|---|
| `host_work` | `TerminalSessions`: *streams* (three chunks, two retained: eviction and gaps), *control* (two attaches), *table* (two sessions, a channel of one: lag; a client that subscribes while they are created and closed), *rows* (one session whose patches overtake each other, two on their way at once, a reading thread that does not fail, an attach after the subscription), *ending*. `UserTerminal`: *user* (a loss at any point of `spawn`). `CommandJobs`: *jobs* (two jobs, edits at any moment, a schedule disabled or archived but not both, restarts), *deleting*, *due*. `CommandProcess`: *job*, *run* (in both a grandchild may inherit the pipes). `JobOutput`: *output* (both writers of stderr, chunks within and beyond the byte limit, one restart), *delivery* (the same without restarts and with a client that stays, with the live events as they are written: see finding 4). `AgentSessions`: *turns* (two requests, one notification), *renaming* (a turn without notifications against an `update_session`), *attach* (two attachers, retries, a crash, a failed write), *settle*. `AgentHistory`: *history* (six turns in pages of two), *order*. `AgentCatalog`: *catalog* (four sessions in pages of two). `WebSession`: *web* (three attempts, so that an old, a current and a next one meet) |
| `host_screens` | `DesktopInput`: *input* (two attachments of one connection), *layout* (displays change), *leaving* (two connections, helper lost once). `DesktopHelper`: *helper* (two generations, three calls, a queue of two, deadlines at any moment). `DesktopMedia`: *media* (a window of two), *follow* (two layouts). `DesktopQuality`: *quality*, *relaid*. `PairingGui`: *window*, *gone*. `GuiSocket`: *socket* (three processes). `UpdateMenu`: *menu*, *request*. |
| `host_services` | `ServerStartup`: *startup*. `RpcStreams`: *rpc*, *serving* (two calls and a drain). `Subscriptions`: *subscription* (every stream function, two keys, one fault). `PairingSessions`: *pairing* (three attempts of a client), *auth* (two clients, a renewal and a removal). `UpdateMigration`: *migration* (two users, one fault). `ClusterAdoption`: *adoption*, *outbox* (two grants fill it). `ClusterCalls`: *calls* (three epochs: away and back), *answers*. `PeerChallenges`: *challenges* (two connections, a table of one, two nonces) |

Operations, attempts and time run out in these scenarios, so deadlock is not checked;
the liveness properties take its place.

**Bounds of the other runs and why they are enough.**

* `cluster_journal`: two nodes, two incarnations each, histories of at most five
  entries, four client operations and one leave operation, one acceptance per prefix.
  Five entries are admit, transfer, remove, admit again and one more: the shortest
  history in which a former primary comes back with a wiped log. With one acceptance
  per prefix `MAX_ACTIVE` is reached, with five entries `MAX_HISTORY` is. Operation
  ids are opaque, hence the symmetry. The run stops when operations run out, so
  deadlock is not checked.
  `ReplayAgrees` extends each log reached by *every* entry over the constants, valid or
  not.
* `departures`, *drain*: two attempts (a second one meets the leftovers of the first), two
  processes (a request meets a process it was not made for), one of each kind of
  work. *leave* starts from a cluster of three members of which one has not heard
  of the last admission, a state the actions of `cluster_journal` reach; no symmetry, as
  it checks liveness. Attempts, processes and operations run out, so deadlock is not
  checked. `LeaveBlocked` names the three situations in which the code cannot
  finish a leave: a full history, an operation id used for something else, and no
  cached member that is still one.
* `update_transaction`: four releases, of which the third changes only the app
  (its digest equals the second's), and three transactions: a first success or
  failure, a confirmed retry of a rolled-back candidate, and one after it. Deadlock
  is checked.
* `protected_store`: two saves or removals, four files (a temporary that a failed save
  left behind is met by the next), two stops and two processes at the lock, each of
  which may find no file. Operations run out, so deadlock is not checked.
* `job_output`: two writers, two chunks; fairness as in section 4 for tasks. The property
  holds in the same instance when the borrow ends before the send (`GuardHeld = FALSE`).
* `desktop_helper`: the instance of *helper*, without the exception its properties make.

Every property has mutants in `PROJECT.json`: variants of a modelled definition, as a
plausible slip in that code would have it (a dropped guard, a missing reset, a write
in the wrong order), under which the same run reports the property violated. A group
has one for nearly every property it joins. The variants sit before the definitions
they vary.

## 4. Fairness

* **Cluster** (`WorkerFairness`): the worker of every daemon ticks for ever and each
  enabled synchronization or leave tick is eventually taken. `worker.rs` loops with a
  bounded delay and a rotating cursor over the cached members, and asks the cached
  primary first; `synchronize` encodes that preference. Client calls and the expiry
  of consents have no fairness.
* **Update** (`FairSpec`): launchd relaunches an exited daemon (KeepAlive), a running
  worker takes its next step, a serving daemon's preparation ends, and a machine on
  which nothing offers service (`Unavailable`) is rebooted by its owner. The last is
  an assumption about people: after a worker error the daemon stays down or parked and
  no code restarts it. `ServiceReturns` promises service only once `Disturbance`
  (deaths, failing steps, gratuitous reboots) stops for good.
* **Drain** (`FairSpec`): the accept loop keeps ticking, an observation ends, time
  passes. Clients, calls, jobs and the asker have no fairness.
* **Host runs**: each liveness property has the form `part = x /\ xFairness => P`.
  Tasks the runtime polls, worker threads, intervals and timers are weakly fair. Strong
  fairness is assumed where a step is enabled again and again but not continuously:
  acquiring a `tokio` mutex, which is first come first served (`Locks`, `Forward`,
  `PeerLocks`, the migration's lock), periodic ticks that need a lock or a state that
  comes and goes (`ExpireTick`, `Tick`), and in the outbox a request that is sent over
  and over and sometimes arrives whole and is answered (`Whole`, `Answered`).
  Clients, users, the operating system's faults and losses have no fairness.

## 5. Proofs

TLAPS checks every leaf. Assumptions on constants are the named ones of the component
modules: `ASSUME`s in `ClusterJournal`, `ClusterReplay`, `UpdateTransaction`, `UpdateDrain`
and `ProtectedStore`, and in the others a definition (`CallsAssumption`,
`ChallengesAssumption`, `AttemptsAssumption`, `HelperAssumption`, `PairingAssumption`,
`GuiAssumption` and `NoneAssumption` of `PairingGui`, `ConstantsAssumption` of
`DesktopInput`) that is a hypothesis of the theorems and part of
the `BoundsAssumption` TLC evaluates; `RpcStreams` and `ClusterAdoption` need none. They say
that the root or founder is a node, that bounds are naturals and the like; nothing limits
the number of nodes, incarnations, operations, releases, attempts, connections, sessions,
calls, grants, files or pieces of work.

| Theorem | States |
|---|---|
| `ClusterJournalProofs`: `TypeCorrect`, `ForkFree`, `JournalIsSound`, `NeverForks`, `WriterIsUnique` | `TypeOK`, `ForkFreedom`, `JournalInvariant` (both), `NoFork`, `SoleWriter` |
| `ClusterJournalProofs`: `ReplayIsTheViews` | `ReplayAgrees` |
| `ClusterJournalProofs`: `AuthorityIsSound`, `AbandonedStayOut`, `LeaversNeverPrimary`, `RoleIsNeverLost` | `AuthorityInvariant`, `AbandonedNeverMember`, `LeavingNeverPrimary`, `AuthorityNeverLost` |
| `ClusterCallsProofs`: `CallsAreSound`, `PrimaryWritesAlone`, `RemovedHasNoEffect` | `CallsInvariant`, `OnlyPrimaryWrites`, the action property `NothingAfterRemoval` |
| `ClusterCallsProofs`: `AdoptionIsSound`, `LateIsNeverAccepted` | of `ClusterAdoption`: `AdoptionInvariant`, `NeverAcceptedLate` |
| `IdentityProofs`: `ChallengesAreTyped`, `ChallengesCountOnce`, `IdentityIsKept` | `TypeOK`, the component's `ChallengesSound`, the action property `OneIdentity` |
| `IdentityProofs`: `PairingIsSound`, `NewestIsTaken`, `ChallengeIsCurrent`, `AuthIsStable` | of `PairingSessions`: `PairingInvariant`, the action properties `NewestTaken` and `AuthStable`, `ChallengeCurrent` |
| `IdentityProofs`: `StreamsAreSound`, `CallsAreServed`, `SessionIsOnePrincipal` | of `RpcStreams`: `StreamInvariant` with its `TypeOK`, `DrainExclusive`, `AnsweredOnce`, `KnownClient`, the action property `AuthOnce` |
| `IdentityProofs`: `PairingIsSeen` | of `PairingGui`: its `TypeOK`, `AcceptedAsSeen`, `PendingOnRoute`, `NeverUnseen` (the part *window* of `ConfirmedAsSeen`) |
| `UpdateTransactionProofs`: `TransactionIsSound`, `TypeCorrect`, `AlwaysRecoverable`, `AlwaysConsistent`, `NoDowngrade`, `GuiIsOwed`, `ExclusiveExchange` | `RecoveryInvariant`, `TypeOK`, `Recoverable`, `Consistent`, `NeverDowngrades`, `GuiObligation`, `ExchangeIsExclusive` |
| `UpdateDrainProofs`: `DrainIsSound`, `DrainTypeCorrect`, `LeasedIsIdle`, `AcknowledgedHasGone`, `ExitsIdle` | `DrainInvariant`, `TypeOK`, `LeaseIsIdle`, `StopsOnlyTheGone`, the action property `IdleExit` |
| `SessionProofs`: `SessionIsSound`, `AlwaysSound`, `LateIsHarmless` | `SessionInvariant`, `SessionSound`, the action property `LateChangesNothing` |
| `SessionProofs`: `InputIsSound`, `HolderHoldsAll`, `PoisonIsFenced` | of `DesktopInput`: `InputInvariant`, its `TypeOK`, `HeldByHolder`, `NoUpdateOverStuckInput`, `ViewportsAreCurrent`, the action property `PoisonFences` |
| `ProtectedStoreProofs`: `StoreIsSound`, `LoadsAreWhole`, `LockIsExclusive`, `StoreImplementsRecord` | `StoreInvariant`, the component's `LoadsWhole` and `OneHolder`, the refinement `RecordSpec` |
| `DesktopHelperProofs`: `ChannelIsSound`, `DownIsInTheLedger`, `ReadyInheritsNothing`, `CapturesKeepTheirGuard`, `ChannelIsABackend` | `HelperInvariant`, `LedgerCoversDown`, `ReadyIsClean`, `CapturesAreGuarded`, the refinement `BackendSpec`; the two before and `BackendSpec` except for what a dropped recovery named |

**Fork freedom.** `NoFork` is not inductive: a node that rejoins wipes its log, and
nothing in `NoFork` says that it cannot sign again from a shorter one. `ForkFreedom`
adds that every log is a signed history and signed histories replay and are closed
under prefixes (`SignedHistories`), that a *member's* log reaches past every entry
its key signed (`OwnEntriesHeld`), that a *joining* node has signed nothing since the
admission it waits for (`NothingSignedSinceAdmission`), and that only existing
incarnations were admitted (`AdmittedExist`). An appending node then holds the
longest signed history, for otherwise the next entry of a longer one, signed by the
same key, would lie beyond its log. The guards that carry this are `initialize` only
from phase 4, `finish` only when the history contains the current admission, and
`require_member` in front of every append. The `sealed` flag is not among them: it
keeps a former primary from trying, but a fork is already impossible without it.

**Replay.** `State::apply` runs through a log entry by entry; `ClusterJournal` reads its
state off the log as a whole. `ReplayIsTheViews` shows, entry by entry, that the views of
a prefix are what one application makes of the views of the prefix before it, and that
`State::apply` accepts an entry exactly when the views do (`ApplyAgrees`). The states of `replay` are given as a sequence with one application per entry, so no
induction over the log is needed: `ReplayAgrees` exhibits that sequence.

**Authority.** On top of fork freedom, `AuthorityInvariant` says what a node's own
tables promise about the histories signed elsewhere: a phase agrees with the
log (`MembershipKnown`), a node joins again only after its previous incarnation was
removed, and a history admits an incarnation only after the removal of the earlier ones
(`AbandonedRemoved`, `RemovedBeforeNext`), every transfer ever signed carries an
acceptance of its target (`TransfersAccepted`), an acceptance of the current
incarnation is still in the target's `prepared` and within its log (`AcceptedKnown`,
`PreparedHeld`), a leaving member is not primary and has no acceptance at its head
(`LeavingQuiet`), a signed history names one of its members primary and is within
`MAX_HISTORY` (`Led`), and somebody may append or the latest history waits for its new
primary (`RoleHeld`). The proof turns on one lemma, `MemberInstalls`: a member can install
*every* signed history that extends its log, because each transfer to it in the new
part was accepted in its current incarnation. `LeavingNeverPrimary` needs
`LeavingQuiet`, because a leave may be recorded while acceptances are in flight. The
steps are sorted by what they do to the tables (a commit, an import, a configuration,
a join, a cancellation, an acceptance, a leave, or nothing of these) and each shape is
treated once.

**Calls and challenges.** `OnlyPrimaryWrites` reads an epoch before a wait and writes
after it. `CallsInvariant` says that whoever was primary of an epoch but the last holds
a later one (`HandedOver`), so a node that is primary by the log it holds is at the last
epoch, although no node can ask; and which call, peer request or worker is behind each
mutex (`MutexHeld`), with a live credential while it is (`PairedUnderWay`).
`NothingAfterRemoval` follows from the mutex: a call that is under way holds it or has
to look the credential up again. For the challenges the invariant relates the table to
what was given (a connection's row is its newest nonce) and what was accepted to the table
it was taken from, whence a nonce is accepted once, in time and never after its successor
was given.

**Adoption.** `NeverAcceptedLate` speaks of an outbox and a history that grows elsewhere.
`LateRows` says where the row of a grant is whose owner has left: gone only after the
grant's expiry, in the outbox only if it is cancelled or the issuer has not seen it
accepted, a receipt only when its revocation is in the log. An entry the issuer appends
itself could break that only by accepting such a grant, which `dispatch_guard` refuses; one
it imports is followed by `cancel_inactive` under the same lock. `PrimaryHoldsAll` is the
other half: a prefix that makes the issuer primary is the whole history, since only the
primary appends, so what the issuer decides as primary it decides on all there is. The
bound on the outbox (`TypeOK`'s cardinality) is left to TLC.

**Pairing.** Handlers of several attempts of one client run between each other's steps and
look again, under the lock, whether theirs is the current attempt. `CurrentIsNewest` makes
that look sufficient: attempts are numbered as they begin, and the current attempt of a
client is the newest that began; the challenge belongs to a current attempt that has a
code.

**RPC calls.** Whoever runs and may change the host holds a guard, also when its session has
ended meanwhile, and a drain begins only when no guard is held (`Guarded`): that is all
`DrainExclusive` needs, and the abort of a session's calls keeps it because it spares those
with a guard. `Answered` ties the count of final answers to the calls that are done.

**Update.** `RecoveryInvariant` strengthens `Recoverable` with who may rely on what
while holding the lock (`LockDiscipline`), that the worker's position agrees with what
it journalled and stopped (`WorkerPosition`), and which of the two releases lies where
until cleanup is over (`Staging`). `Recoverable` alone is not inductive: whether an
exchange keeps it depends on where the worker stands.

**Drain.** `DrainInvariant`: nonces in use were drawn, so a new one matches
nothing old (`NoncesWereDrawn`); a lease for the current request was granted under
the confirmation that request carries (`RequestIsOwned`); what was seen on frozen
admission stays true until the answer (`FrozenObservation`); only a serving process
has work (`NoWorkUnlessServing`); an acknowledgement outlives its process, but for one whose
report failed after it was visible (`AcknowledgedIsGone`).

**Protected store.** `StoreInvariant` says what is on disk whatever happened: a file has one
name at a time, now and in every directory a stop may lead back to (`NamedOnce`), and the
record that a stop would leave is written whole and no older than the last save or removal
that returned (`RecordDurable`); and it places the
writer, the reader and the processes at the lock among their system calls (`SavePosition`,
`LoadPosition`, `LockPosition`). The refinement maps the version
under the record's name to the value of `AtomicRecord`, the versions a stop may lead back to
to its durable values, a save after its rename to one that is applied, and a load that is
about to read to one that has happened.

**Web session.** `SessionInvariant` numbers the attempts that were made, places the
promise and the transport among them, and says that every attempt's generation has
been reached, so that a new generation is nobody's yet.

**Desktop input.** The handlers of the broker are compositions of its operations, so the
proof is one lemma per operation on pairs of the broker's state and what is down: each
leaves what the next may rely on (`After`), and `After` is transitive. What is kept
(`Good`) is that attachments, holder and epoch fit together (`Sane`) and that, unless the
broker is poisoned, all that is down was pressed by the holder in the present epoch and is
in the books (`Holding`). Poison only ever ends by the replacement of the backend, and under
it no operation gives anything away (`Fenced`), which is `PoisonFences`. A closed gate means
that there are no attachments, whence nothing is down.

**Pairing window.** `WindowInvariant` adds to the three properties what carries them from
one click, request or hang-up to the next: a request still in the queue has no reply and is
not the pending one, and it is queued once (`Queued`), so taking it replaces something
else; a picture of the present generation is of the controller's request (`DrawnAsIs`), so
the generation a button carries is enough for `Controller::resolve` to know its request;
and no notification of the present generation is out once one was displayed
(`ToldOnce`), so no later `notification_result` counts in its place.

**Helper channel.** `ChannelIsABackend` shows the refinement step by step: a lost
helper or stream is `Lose`, an adopted recovery is `Adopt` with nothing held, and
everything else injects into one generation or stutters. None of `LedgerCoversDown`,
`ReadyIsClean` and the backend's guards is inductive: an answer that comes late
acknowledges a release, a broker that gave up on a recovery must not adopt on an old one,
and a helper that died leaves its keys down. `HelperInvariant` has two halves. One is
about the queues: requests are executed in the order of their ids, each is answered once,
and a caller waits for its newest call only and gives up only what is late (`InOrder`,
`AnsweredOnce`, `WaitsForNewest`, `WaitsWhenBusy`). The other is about keys: only the
broker that has adopted a generation presses in it (`PressesAreOwned`); the first request
of a later generation is the recovery, naming all that was in the ledger when the
connection was made (`RecoveryQueued`, `RecoverySent`); a recovery the broker still waits
for has released everything by the time it is acknowledged (`RecoveryDone`); and an
acknowledged release is never younger than a press that is down (`ReleasedBefore`).
Nothing is assumed of the worker's speed: it may reach any call after its deadline, the
connecting recovery included, since the timeout of `:464` bounds the connector only where
it awaits. In that one case the keys are lost: the worker drops the recovery and keeps the
connection, and no later one names them (finding 5). The history `forgotten` holds those
presses, and the theorems speak of `Owed == down \ forgotten`; nothing else is excepted,
and a press enters `forgotten` only in that step. In `InputBackend` it is the step
`Abandon`, which is possible only while the generation is not adopted. The drop needs a
stall of several seconds, or the helper's first heartbeat would end the connection first.

`CapturesKeepTheirGuard` rests on `CaptureInvariant`, which adds the media tasks to it. A
task gives its guard up when the end of its track is answered, or leaves it among the
uncertain ones, which `RecoverReturns` clears below the cutoff. So nothing of a track that
is over may be alive or still asked for (`OverIsOver`, `BelowMinimum`): the end that a task
waits for was sent behind every group of its track (`EndsLast`), since a task waits for one
call at a time (`MediaWaitsForOne`), and a cutoff is only raised before anything was
captured, by a first generation that has used no epoch (`FirstGeneration`) or by the first
request of a later one (`RecoveredFirst`).

**Only model-checked.** Liveness (`LeaveCompletes`, `ServiceReturns`,
`AdmissionReturns`, `WorkEnds`, `AbandonedEnds`, `RequestsEnd`): the prover handles
neither fairness nor `ENABLED`.
The groups of the host runs apart from `SessionSound`, `LateChangesNothing`,
`OnlyPrimaryWrites`, `NothingAfterRemoval` and `BackendSpec` are checked on their
scenarios. Of some the parts are proved, as theorems about the components' own
definitions: of `ChallengesSound` the nonces of `PeerChallenges`, the current challenge of
`PairingSessions` and the late grants of `ClusterAdoption`; of `NothingStaysPressed` the
invariants of `DesktopInput` and of the helper channel; of `ConfirmedAsSeen` the pairing
window; of `StaleChangesNothing` the
poisoned broker; of `IdentityIsOnce` the
identity of a peer's session, the principal of an RPC session, the client of a paired one
and the newest attempt; of `ServesSoundly` the RPC calls. Types of components without
proofs, and those of `ClusterAdoption`, are checked only.

## 6. Findings

1. **A former primary cannot use its new membership** (`cluster_rejoin`).
   `install` (`cluster/primary.rs:806`) demands a `prepared` row for every `Transfer`
   to the local key among the entries it adds; `initialize`
   (`runtime.rs:357`) deletes all of `prepared` when a removed node joins again. A
   node that was a transfer target, left and is admitted again can never install the
   history that admitted it. `cluster/REVIEW.md:181`: "A same-cluster rejoin can retry
   using its new active membership." `RoleIsNeverLost` shows that this strands the
   node, never the cluster: such a node is no member yet and is never handed the role.
2. **A rollback can let a mixed pair serve** (`update_mixed_pair`). The failed
   candidate's start request stays on disk until the rollback writes the old
   runtime's, so after a reboot between the two exchanges `allowed`
   (`root_update/runtime.rs:233`) passes a relaunched candidate beside the old app.
   The comment at 196: "Reboot recovery therefore cannot start an inconsistent
   app/runtime pair."
3. **A rollback can boot out a daemon that was never asked** (`update_bootout`). For
   the same reason an instance launchd relaunches between the acknowledged exit and
   the bootout (`native.rs:121`) may have come to serve. `drain.rs:111`: "A worker
   only bootouts after the serving process acknowledges an idle exit."

   In `UpdateDrain` there is a second way: a report of the exit that fails in the
   directory sync after its rename (`store.rs:454`) is read as the acknowledgement, and the
   daemon stays (`server.rs:411`).

2 and 3 share a cause and would share a remedy: withdrawing the candidate's start
request when the rollback begins.

4. **A follower of a job's output is told nothing, and whoever would tell it stops**
   (`job_output`). `notify_output` (`command.rs:1153`) sends to the watch in the statement
   that borrows its value; `send` waits for the write lock of the value when there is a
   receiver. The task or reader that appends, or that finishes the job, never goes on.
   `command.bdl:42`: "Subscribes to retained and live output for one job stream."
   `notify_jobs` and `notify_schedules` are written the same way; `CommandJobs` is about
   a manager whose jobs and schedules nobody subscribes to, and `DueRunsHappen` says so.
5. **A ready helper may leave keys of its predecessor down** (`desktop_helper`). The worker
   drops the connecting recovery at its deadline (`desktop_ipc.rs:501`), keeps the
   connection, and the next recovery names nothing. `desktop-v1.md:149`: "first private
   command releases the predecessor's possibly held keys/buttons."

**Exceptions the properties make.** The runs meet the following cases; each property
that would forbid one says at its definition which it excepts, by a history variable
that is set in the step where the code goes wrong and nowhere else. Where a document states
the sentence without the exception, that sentence is a definition of its own, and the
exception is what violates it.

* Agents: a change that overtakes an `update_session` between its rows, its snapshot and its
  event sets `latest_seq` back and makes the numbers of events go down (`agent.rs:886`,
  `:892`; `overtaken`, `behind`; `StrictlyIncreasing`, the sentence of `agent.bdl:78`); an
  attachment in progress misses a title (`:390`; `stale`).
* Commands: an edit between a job's creation and its checkpoint repeats the
  occurrence (`command.rs:1245`; `overtaken` of a run); two writers of stderr save in the
  wrong order (`:985`; `overlapped`); `run_command_until` waits for inherited pipes (`:399`).
* Terminals: a patch lost between the table's snapshot and its subscription
  (`server.rs:2618`), an upsert overtaken by a later one or after the removal
  (`terminal.rs:462`; `astray`; `CreatedSessionsShown` and `ClosedSessionsGone`, the
  sentences of `protocol/README.md:251` and `:253`); on Windows a loss between the
  client thread's answer and the return of `spawn` is swallowed (`terminal_ipc.rs:582`;
  `early`).
* Desktop: keys of a dropped recovery (`desktop_ipc.rs:501`; `forgotten`).
* Update: a process whose exit was reported and yet given up (`store.rs:454`; `misled`); a
  readiness receipt of the start before, when the restart gives the daemon the same pid and
  the worker inspects before that daemon has parked (`migration.rs:396`; `served`).

**Noted while modelling, without a property of their own.** Each is what the modelled code
does, and the runs meet it, unless a bound is named.

* Agents: `create_and_attach_session` uses a row read before the lock (`agent.rs:372`); a
  restart leaves a running turn for ever (`:150`); the consumer stops at the first failed
  write (`:1018`); `list_sessions` reads its revision after its rows (`:814`).
* Commands: `finish_job` saves a row that was deleted meanwhile (`command.rs:959`);
  `chunks_after` reports a gap where nothing is missing (`:194`).
* Terminals: `Lagged` names the wrong next chunk (`server.rs:3034`).
* Desktop: an input stream opened before control was taken releases nothing when it breaks
  (`desktop.rs:1203`); a display that vanishes during a configuration ends the attach
  stream (`desktop_rpc.rs:311`); quality goes up on old reports (`desktop_quality.rs:368`).
* Others: the name of a listening GUI socket may be removed (`gui/src/transport.rs:179`);
  the migration's bootout may end a relaunched daemon (`migration.rs:479`; `NeverKillsWork`);
  credential edits load and store under separate locks (`server.rs:4529`); the reload task
  drops collected paths (`server.rs:897`); a window subscription fails without a message
  (`server.rs:3331`).

## 7. What is abstracted and what is not modelled

* Cluster: signatures, hashes, byte limits (240 KB, `MAX_COUNTER`), transport and
  backoff; clocks of different nodes agree on whether a consent has expired; one
  cluster (a removed node creating another is left out). `ClusterCalls` and
  `ClusterAdoption` see the journal as epochs and as a log from one node; that view is
  not derived from `ClusterJournal`.
* Update: verification of signatures, manifests and archives is a verdict; the GUI
  barrier, `parked.json`, `downtime.json` and the policy file; status and timers of the
  controller. The lock is exact: who holds it while doing what. Records are written in
  one step in `UpdateTransaction` and `UpdateMigration`; `ProtectedStore` opens that step.
* Drain: the parked shortcut and the bootout itself are in `UpdateTransaction`.
  Timing is abstract: a grant may go stale and a lease may expire at any moment, so
  the eight and twenty seconds are not compared. Server streams other than file reads
  are not admitted through the gate and start no work. A worker that gave up after
  its commit does not stop the daemon from exiting; it was idle, and launchd
  relaunches it.
* Host components: payloads, formats, geometry, wall-clock arithmetic of recurrence
  rules and bit rates; a deadline is a step that may happen.
* Not modelled: the cluster slot and proof foundations (compiled for tests only),
  archive and signature verification, the web client's cluster trust and its workbench,
  codecs, the database's rows apart from those named above, platform bindings of macOS
  and Windows, schemas and their generators.

## 8. Plan

Done: the component models and their runs; the proofs of section 5. Next, in order:

1. A refinement of the one-step `request_exit` of `UpdateTransaction` by `UpdateDrain`, and
   of the log of `ClusterCalls` by `ClusterJournal`.
2. Proofs for the components of the host runs that have none yet: commands, agents,
   terminals, the media flow, the migration.
3. The web client's replay of histories against `ClusterReplay`.
