# Pi Desk: specification and verification

Pi Desk is a desktop client (Wails, Go host, Vue frontend) for the Pi coding
agent.  The Go host starts one Pi process per thread and talks to it over
stdin and stdout; for a workspace on another machine it keeps an SSH
connection, installs and starts a helper program there, and lets the local Pi
process reach the remote files through it.  What makes it hard to get right is
life cycles: processes, connections, generations, leases and sessions that are
started, used, replaced and torn down by goroutines that hold their locks only
for a few lines at a time, and files that several programs rewrite.  These
modules model that part.

Paths below are relative to `src/`.

## 1. Inventory

| Component | State it keeps | Operations | Correct when | Module |
|---|---|---|---|---|
| Pi RPC client, `internal/pirpc` | pending requests, tombstones, done channel | `Call`, `Send`, `Close`, reader, waiter | every call returns once with its own answer, and nobody blocks anybody else | `PiClient` |
| Pi session supervisor, `internal/piruntime/supervisor.go` | `sessions`, `starting`, `exiting`, generation counter | `Start`, `Stop`, `StopAll`, `Shutdown`, `watch`, event gate | one process per thread, its exit reported last and once, nothing left running | `PiSupervisor` |
| Pi starter, locator, maintainer, `internal/piruntime` | none | spawn, find, update Pi | I/O | |
| SSH connection supervisor, `internal/remotessh/supervisor.go` | state, generation, bound contexts, operation counts | `Connect`, `Disconnect`, `Close`, bind, wait for idle | a generation is live once, and its contexts die with it | `SshConnection` |
| Runtime lease supervisor, `internal/remotessh/runtime_supervisor.go` | state, epoch, helper, leases, idle timer | `OpenRoot`, `Acquire*`, `Release`, `Disconnect`, `Close`, watch, expiry | no helper or lease outlives its generation, none is lost | `RuntimeLease` |
| Runtime registry, target lifecycle, `runtime_registry.go`, `internal/appservice/remoteworkspace.go` and around it | one session per target, tasks, pending root trust, bound backends | connect, disconnect, remove target, open workspace, acquire and stop task | what the user disconnected, denied or removed serves no more | `TargetLifecycle` |
| Helper client, `internal/remotessh/runtime_process.go`, `runtime_terminal.go` | pending table, reader, transport error | `call`, `RunBash`, `StartTerminal`, `Shutdown`, `Kill` | every request gets its answer or an unknown outcome | `HelperClient` |
| Remote helper, `internal/remotehelper` | active requests, tombstones, stream credit | serve, cancel, shut down | each request one terminal answer, bounded resources | `HelperServer` |
| Helper protocol codec, `internal/remoteprotocol` | none | frames | formats | |
| Helper installation and SSH discovery, `internal/remotessh` | files on the target, locks of the process | upload, verify, publish | never anything but the exact helper | `HelperInstall` |
| Agent service, `internal/appservice/agent.go`, `pimaintenance.go` | which threads are remote, their sessions, history gate | start, stop, history edits, maintenance | no Pi serves during maintenance, and none that somebody waits for works on a history that is being edited; a remote session, its task and its Pi belong together | `AgentHistory`, `RemoteTask` |
| Session index and mutations, `internal/sessionindex` | session files | fork, rewind, delete | the tree stays a tree, the branch shown is the one kept | `SessionTree` |
| Terminals, `internal/terminal` and the pane | sessions, replay buffer, sequence | start, write, stop, read, wait, hydrate | output in sequence, no terminal left running | `Terminals` |
| Workspace catalog, `internal/workspace`, `internal/appservice/catalog.go` | records, trust, targets, anchors | add, trust, remove, save, load | references resolve, what is served is what is saved | `WorkspaceCatalog` |
| Remote broker, `internal/appservice/remotebroker.go` | connections, handshake, goroutines | serve a Pi process | only the Pi of its launch is served, a closed broker is quiet | `RemoteBroker` |
| Repository views, `internal/repository` | none | git status, diff, files | I/O | |
| Configuration services, `internal/appservice/*config.go` | configuration files | read, change, replace | an edit keeps what it does not name | `ConfigDocuments`, `AgentFiles` |
| Browser, clipboard, external applications | handles | open | I/O | |
| Frontend store, `frontend/src/stores/app.ts` | drafts, prompt queue, session states, scheduled tasks | send, dispatch, session events | prompts are neither lost nor sent twice | `PromptQueue` |
| Frontend views, bindings, translations | none | render | presentation | |

How they interact:

- the agent service calls the Pi session supervisor, which owns one RPC client
  per thread; events go back through a sink callback, guarded by a generation,
  and on to the store of the frontend;
- the target lifecycle owns one connection supervisor and, while a workspace is
  open, one runtime lease supervisor per target; it replaces the latter when it
  reconnects.  The lease supervisor binds the lifetime of its helper to the
  connection's generation and tears the connection down with the helper;
- a task of a remote thread holds a lease; the broker serves the Pi process of
  the thread under it and calls the helper client, which multiplexes requests
  and streams over one pipe to the helper.

## 2. How the modules fit together

Each component has a module; its theorems are in a module `...Proofs` that
extends it, which several components may share (the services of the application
in `AppServiceProofs`, the host and the store side of a session in
`PiSupervisorProofs`).  `RuntimeLease` composes `SshConnection`
(`Connection == INSTANCE SshConnection WITH ...`): each of its steps uses the
connection as `SshConnection` specifies, or leaves it alone, which is proved.
The others meet at interfaces, where each module keeps of its neighbour what
its own state needs:

- `PiSupervisor` sees of `PiClient` the reader and the `done` channel;
- `TargetLifecycle` sees of `SshConnection` and `RuntimeLease` the generations,
  the leases, and whole disconnects and closes;
- `RemoteTask` sees of `PiSupervisor` the slot of the thread and its exits, of
  `RemoteBroker` its handshake and its close, of `TargetLifecycle` the task;
- `AgentHistory` sees of `SessionTree` that an operation changes a set of
  entries; `HelperServer` is the other end of the pipe of `HelperClient`.

`MCServices`, `MCTaskServices` and `MCRemoteTarget` are instances for TLC that
put several of these modules into one run.  They share no state: a variable
`part` picks the module a behaviour exercises, and the others stay in one
initial state.  Such a run is the union of the state spaces of its parts, and
no more; `MCPiClient`, `MCPiSupervisor`, `MCRuntimeLease`, `MCHelperClient` and
`MCTargetLifecycle` are instances of one module.

## 3. How the modules read

Conventions shared by all modules:

- an invocation of a function (a `Start`, a `Call`, a `Connect`, a launch, an
  install) is a value of a constant set, used once; the process, context or
  session it creates is named after it.  The size of the set is the bound of
  the model;
- a critical section under a mutex is one action; a channel send or receive,
  a lock that may block, a system call and whatever else happens between two
  critical sections is an action of its own;
- a `select` with several ready branches takes any of them;
- a definition whose comment begins with `Mutant:` is a plausible mistake in the
  definition that follows it.  It is not part of the specification; replacing
  the definition by it must break the property it is listed with in
  `PROJECT.json`;
- nothing restricts the environment (Pi, the helper, SSH, the user) unless the
  fairness of the module says so.

### PiClient (`internal/pirpc/client.go`)

State: `pending`, the result channels `result`, `abandoned` with
`abandonedOrder`, `writeMu`, `done`; `finisher`, `swept` and `sweep` for the
progress of the `closeOnce` body; `pc` and `at` for the goroutines; and the Pi
process with its two pipes.  `calls` says which callers run `Call`; the others
run `Send`.

| Code | Actions |
|---|---|
| `Call`, `Send` | `CallRegister`, `SendStart`, `WriteLock`, `WriteDone`, `WriteFails`, `CallReceives`, `CallCancelled` (with `Abandon`), `CallSeesDone` |
| `finish` | `FinishSignal`, `FinishSweep`, `FinishNotify`, `FinishLeave` |
| `Close` | `Close`, `CloseStdin`, `Kill` |
| `readStdout`, `handleRecord` | `ReadResponse`, `Deliver`, `ReadOther`, `ReadEOF` |
| `wait` | `WaitExit` |
| Pi and a descendant that holds its pipe | `PiReads`, `PiAnswers`, `PiSpeaks`, `PiExits`, `HolderExits` |

### PiSupervisor (`internal/piruntime/supervisor.go`)

State: the tables `sessions`, `starting`, `exiting`, the counter
`nextGeneration`, `closed`, the cancelled context; per `Start` its place `loc`,
`generation`, `process`, `reader`, `clientDone`, `watch`.

| Code | Actions |
|---|---|
| `Start` | `Reserve`, `Launch`, `Number`, `Register`, `Unreserve`, `Ready`, `NotReady` |
| `Stop`, `StopAll`, `Shutdown` | `Stop`, `StopAll`, `ShutdownCancel`, `ShutdownClose`, and `Close` for each session taken |
| event gate, `isCurrent` | `EventArrives`, `EventSinks` |
| `watch`, `remove` | `WatchDone`, `WatchSinks`, `WatchEnds` |
| client and process | `ReaderEnds`, `WaitEnds`, `ProcessExits` |

### SshConnection (`internal/remotessh/supervisor.go`)

State: `state`, `nextGeneration`, `liveGeneration`, `attempt`, `attemptCancel`,
the bound `contexts` with `held` (their entry in `generationCancels`), `done`
and `idle` (the channel of `WaitForGenerationIdle`).

| Code | Actions |
|---|---|
| `Connect` | `Draw` and the two halves `BeginConnect`, `FinishConnect` around the probe |
| `bindGenerationContext` and its release | `Bind`, `Release` |
| `Disconnect`, `Close` | `Revoke` under the lock, then `Cancel` for each function taken |
| `WaitForGenerationIdle` | `Wait`, `WaitEnds`, `WaitTimesOut` |

### RuntimeLease (`internal/remotessh/runtime_supervisor.go`)

State: the connection's, and `state`, `epoch`, `runtime`, `startDone`, `leases`,
`timer`, `firing`; per acquisition its place `call`, its helper, lifetime, watch
goroutine and lease; per teardown its place in `revoke`.

| Code | Actions |
|---|---|
| `acquire`, `ensure`, the start | `Acquire`, `Begin`, `Ensure`, `Await`, `GiveUp`, `BindLifetime`, `LaunchHelper`, `FinishStart`, `Discard`, `StartReturns`, `StartError`, `Grant` |
| `Release`, idle timer | `ReleaseLease`, `TimerFires`, `ExpireIdle` |
| `watchRuntime` | `HelperExits`, `WatchExit`, `WatchReleases`, `WatchDisconnects`, `WatchStops` |
| `revoke` (`Disconnect`, `Close`, expiry) | `Revoke`, `SnapshotGeneration`, `TearDetach`, `TearCancelsLeases`, `TearAsksShutdown`, `TearReleases`, `TearDisconnects`, `TearWaits`, `WaitEnds`, `TearStops` |

The operation that binds the helper's lifetime is an operation of
`SshConnection`; a teardown is one of its revocations and one of its waits.
`OpenRoot`, the root bindings and the separate limits of task and read leases
are left out: they add data to a lease and no new order of events.

`Barrier` is the promise of `internal/remotessh/supervisor.go:204-206` ("a caller
may not start a replacement generation until this returns"): with `TRUE`,
`BeginConnect` waits until no teardown runs (`Quiet`).  Two runs assume it; a
third shows what happens without it.

### HelperClient (`internal/remotessh/runtime_process.go`, `runtime_terminal.go`)

State: `pending`, the result `channel` of each request (two results), `shutdown`,
`transportErr`, `once` with `sweep` for the progress of `stopTransport`, the
`reader` with the frame it holds, the process; and the helper as environment.

| Code | Actions |
|---|---|
| entering a request, writing it | `Register`, `WriteRequest`, `OpenCredit` |
| `callFrame` | `TakeOutcome`, `ReaderGone`, `ContextEnds`, `WriteCancel` |
| `RunBash`, terminal `consume` | `Consume`, `ReturnCredit`, `CancelStream`, `StreamReaderGone` |
| `StartTerminal`, `drainTerminalStartup` | `TerminalStarts`, `CancelStartup`, `Drain` |
| `stopTransport` | `StopBegin`, `StopNotify`, `StopEnd`, `StopReturn` |
| `Shutdown`, `Kill` | `Shutdown`, `CloseStdin`, `ProcessGone`, `ShutdownTimesOut`, `Kill` |
| `startReader` | `ReadFrame`, `Deliver`, `ReadFails` |
| helper and its process | `HelperStep`, `Exit` |

The helper is taken to keep the protocol, so the checks on malformed frames
(each kills the helper) have no action; the pipe to the helper is taken to have
room; terminal input, resize and an explicit `Close` are writes that change
nothing in the client unless they fail, and are left out.

### RemoteTask (`internal/appservice/agent.go`)

The remote session of one thread.  State: `act`, where each call of
`StartSession`, `StopSession`, of the maintenance and of the shutdown is;
`session` (`remoteSessions`), `threadTask` and `taskLeases` of the life cycle,
the `broker` of each launch, the slot `pi` of the thread in the Pi supervisor
and `exits`, the `runtime_exit` of each Pi.

| Code | Actions |
|---|---|
| `StartSession`, to the registration | `StartSession`, `AcquireTask`, `NewBroker`, `GiveTaskUp`, `ReleaseGivenUp`, `RegisterSession` |
| `StartSession`, Pi and the handshake | `LaunchPi`, `PiIsReady`, `AdapterHello`, `AwaitHandshake`, `SettleSession` |
| `StopSession`, `preparePiMaintenance`, `ServiceShutdown` | `Stop`, `CloseSession`, `SessionClosed`, `StopPi` |
| `closeRemoteSession` of a `runtime_exit` | `PiEnds`, `CloseOfExit`, `ExitHandled` |
| `Close` of a broker, `StopTask`, `watchTask` | `CloseBroker`, `StopTask`, `ReleaseTask`, `WatchTask`, `LoseConnection` |

`PromptIsAdmitted` is `admitRemotePrompt`.  That a launch which fails closes
the session of the thread, whichever launch it is of, is in the model, as is the
exit of an old Pi that closes a session whose generation is not known yet.

### RemoteBroker (`internal/appservice/remotebroker.go`)

State: the `stage` of `Close`, the `lease`, the `handshake`, the `launcher` that
waits for it, the goroutine `serve`, the counter `running` of the wait group and
each connection `dial` with the goroutine that handles it.

| Code | Actions |
|---|---|
| `serve` | `Dial`, `Accept`, `Admit`, `Refuse`, `StopServing`, `Track`, `ServeEnds` |
| `handle`, `execute` | `ReadRequest`, `InvalidRequest`, `Execute`, `Executed`, `Hello`, `HelloEnds`, `Answer` |
| `waitHandshake` | `WaitHandshake`, `GiveUpWaiting` |
| `Close` | `CloseListener`, `CloseConnections`, `Wait` |
| end of the task lease | `LeaseEnds` |

`Descendants` is `TRUE` where a child of Pi passes for Pi
(`remoteBrokerPeerMatches` on Windows).

### HelperInstall (`internal/remotessh/installer.go` over `sftp.go`)

State: the `step` of each install, its process `desk` and its connection `link`;
on the target `cache`, `final` and `temporary`; in each process `locks`, and per
lock `gate` (its channel) and `refs`.

| Code | Actions |
|---|---|
| `Install`, `ensureRemoteDirectory` | `InstallHelper`, `InspectDirectory`, `Mkdir`, `Chmod`, `WaitForDirectory` |
| validation and upload | `ValidateExisting`, `CreateUpload`, `VerifyUpload` |
| `acquireHelperInstallLock`, its release | `FindLock`, `TakeLock`, `ReturnLock`, `LeaveLock` |
| publication | `InspectFinal`, `Replace`, `Link`, `ValidateInstalled` |
| the end, and failures | `RemoveUpload`, `CloseSFTP`, `Fail`, `LoseLink` |

### HelperServer (`internal/remotehelper/server.go`, `bash.go`, `terminal.go`)

State: `input`, the frames not yet read; the `client`; `serve`, the loop;
`active`, `tombstones` and the goroutine `request` of each request; `broken`.

| Code | Actions |
|---|---|
| `Serve` | `registerRequest`, `cancelRequest`, `pushCredit`, `pushTerminal`, `ShutdownBegins`, `ShutdownAnswers`, `InputEnds`, `ServeCloses`, `ServeReturns` |
| `handleRequest`, `runBash`, `runTerminal`, `completeRequest` | `RequestStep`: the steps of one request, from its limits to its answer |
| `pruneTombstonesLocked` | `pruneTombstones` |
| the client of `runtime_process.go` | `SendRequest`, `SendCancel`, `SendInput`, `SendShutdown`, `ClientGoes` |

A process is its leader and, of a Bash, the rest of its group.  The output of a
command ends when nobody holds its other end any more, which says nothing of
processes that let it go: the answer waits for the leader, the group is killed
where the command was cancelled or its output could not be passed on, and left
alone otherwise (`GroupWaited`, `Killed`).  File, search and git operations are
I/O that ends with a result or an error.

### TargetLifecycle (`internal/appservice/remoteworkspace.go` and around it)

One target, one workspace, one task.  State: the `catalog`; `life`, the fields
of `RemoteWorkspaceLifecycle`; the `sessions` made, each with its connection;
`registry` and `runtimes`; the leases `granted`; `bound`, the coordinator of
backends; `epochs` of the service; and `op`, the operation of each goroutine.

| Code | Actions |
|---|---|
| `remoteworkspaceservice.go` | `BeginOperation`, `Track`, `FinishOperation` |
| `ConnectNewTarget` | `BeginAttempt`, `Dial`, `RegisterNewTarget`, `PublishSession` |
| `ConnectTarget`, `PrepareRootTrust` | `Find`, `Lock`, `Clean`, `RevokeRuntime`, `CleanFields`, `Connect`, `RecordTarget`, `PublishGeneration`, `Regenerate`, `RegenerateFields`, `Probe`, `DropCandidate`, `LeaseCandidate`, `OfferCandidate` |
| `OpenWorkspace`, `ensureRuntimeLocked` | `Snapshot`, `Install`, `RegisterRuntime`, `AdoptRuntime`, `AbandonRuntime`, `OpenRoot`, `DenyDrifted`, `CheckBinding`, `BindWorkspace`, `BindRepository`, `KeepRoot` |
| `DecideRootTrust` | `TakeCandidate`, `ValidateCandidate`, `Approve`, `Deny` |
| removals, `remotetrust.go` | `BeginRemoveWorkspace`, `RevokeBeforeRecord`, `Record`, `BeginRemove`, `RemoveTarget`, `DropTarget` |
| `DisconnectTarget` | `DetachTarget`, `UnregisterRuntime`, `Cut`, `ClearSession`, `UnbindDisconnected` |
| `AcquireTask`, `StopTask`, `watchTask` | `AcquireTask`, `BindTask`, `StopTask`, `UnbindTask`, `ReleaseTask`, `WatchTask`, `UnbindWatched` |
| `Close` | `CloseLifecycle`, `CloseAttempts`, `CloseTarget`, `CloseConnection`, `CloseRegistry` |

### AgentHistory (`internal/appservice/agent.go`, `pimaintenance.go`)

The local Pi of one thread and its session files.  State: `pi`, the Pi in the
supervisor's table (the file it works on, the history it has read, what it is
doing), `stopped`, the files to which one that left the table may still append,
`sessionFiles`, `backups` with the number of oldest ones `pruned`, `agent`, the
operation `call` of each goroutine; `astray` and `unwatched` record, for the
properties, by whom an entry was written.

| Code | Actions |
|---|---|
| `StartSession`, `StopSession`, commands | `StartSession`, `AdmitStart`, `SpawnPi`, `StartReturns`, `StopSession`, `callWithContext`, `CallReturns` |
| `mutateSessionMessage`, `ForkSessionAt`, before the write | `Rewrite`, `GetState`, `Abort` |
| `mutateMessage`, `ForkMessage`, `RestoreMutation` | `ReadSession`, `BackUpSession`, `ReplaceSession`, `ForkHistory`, `RestoreSession` |
| `reloadMutatedSession` and what follows | `PiSwitches`, `AnswerLost`, `ReloadReturns`, `SwitchCancelled`, `stopUncertainSession` |
| maintenance, shutdown | `MaintainPi`, `preparePiMaintenance`, `StopEverything`, `MaintainerReturns`, `ServiceShutdown`, `WithdrawRuntime`, `Shutdown` |
| Pi in the table | `PiWorks`, `PiRests`, `PiExits` |
| Pi after it was stopped | `StoppedPiWrites`, `StoppedPiEnds` |

Every stop (`PiLeaves`) takes Pi out of the table and kills it outside the lock,
with nobody waiting for its end (`piruntime/supervisor.go:174-189`,
`pirpc/client.go:162-169`), so a stopped Pi may append to its file during a
maintenance, beside the next Pi, or in the middle of a history operation.  What
else Pi does is external and as free as the code leaves it: it retries after a
pause that `get_state` does not show, a bash command runs with or without a turn
and goes on when its call gave up (`Left`), the goal extension begins turns by
itself (`resources/pi-desk-goal.ts:356-394`).  Left out are the commands by which
Pi changes its session by itself (`clone`, `fork`), and threads beyond the first.

### SessionTree (`internal/sessionindex/mutations.go`)

State: `transcript`, the entries of a session file in their order.  Actions:
`DeleteMessage`, `RewindBefore`, `ForkMessage`, each with the whole computation
of what is removed, reconnected and kept, and `PiAppends`.

### WorkspaceCatalog (`internal/workspace`, `internal/appservice/catalog.go`)

State: `disk` and `memory` of the catalog, `torn` (a write that failed after it
replaced the file), the session `files`, the `anchors` of SSH workspaces, and
the requests of services that leave the lock between two steps.

| Code | Actions |
|---|---|
| `Catalog` | `loadLocked`, `Add`, `Rename`, `RemoveAfter`, `ForgetSession`, `SaveDesktop` |
| `remote.go` | `RegisterTarget`, `AddSSHWorkspaceAfter`, `RemoveTargetAfter` |
| services | `SaveDesktopState`, `DeleteSession`, `DeleteWorkspaceSessions`, `RestoreOrphanSession`, `RebindSSHAnchor` |
| quitting, Pi | `Quit`, `NewSession` |

### ConfigDocuments, AgentFiles (`internal/appservice/*config.go`)

`ConfigDocuments` is one of the documents `models.json`, `mcp.json` and
`settings.json`, as a function from its keys: an edit is computed from what was
read (`EditModels`, `EditServersOrPackages`) and written afterwards
(`WriteModels`, `WriteServers`, `WritePackages`, `DocumentWriteFails`), refused
(`RefuseModel`, `RefuseServer`, `RefusePackage`), while Pi or an editor writes
(`ForeignWrite`, `PackageCommand`).  `AgentFiles` is the directories of skills,
prompt templates and bundled extensions: `CreateManagedSkill`,
`DeleteManagedSkill`, `UpsertPromptTemplate`, `WriteTemplate`,
`DeletePromptTemplate`, `InstallPiDeskTodo`, `WriteTodo`, `WriteTodoFails`,
`InstallBundled`, `RemoveBundled`, with an application that is `Killed` between
two calls of the file system.  The properties are about the
prompt templates and the bundled extensions; none is about the skills, each of
which is made or removed in one step.

### Terminals (`internal/terminal`, `TerminalPane.vue`)

One thread.  State: the `service` with the manager's session, local `ptys`,
`remotes`, `closers`, the `loads` of the pane, the `wire` of events, the `pane`.

| Code | Actions |
|---|---|
| `Start`, `Snapshot`, `Stop` of `manager.go` | `ManagerStart`, `LocalSnapshot`, `LocalReplay`, `ManagerStop` |
| its goroutine `read` | `ManagerReads`, `ManagerAppends`, `ManagerReadEnds`, `ManagerTellsError` |
| its goroutine `wait` | `ManagerWaits`, `ManagerForgets`, `ManagerTellsExit` |
| `remote.go`, `appservice/terminal.go` | `BindTerminal`, `UnbindTerminal`, `CloserCloses`, `RemoteCall`, `RemoteSnapshot`, `RemoteOpens`, `RemoteStarted`, `RemoteConsumes`, `RemoteStop`, `RemoteShutdown` |
| `TerminalPane.vue` | `ThePane`, `LoadReturns`, `LoadFails`, `Deliver` |
| shells | `PtyPrints`, `PtyExits`, `RemotePrints`, `RemoteEnds` |

`read` takes a chunk from the pty, numbers it under the lock of the session and
emits it, and `wait` closes the pty, forgets the session and numbers the exit;
these steps come in any order, so output and errors may be numbered after the
exit, and while the next terminal runs.  A snapshot looks the session up in one
step and reads it in another.  An event that is numbered is on the wire and is
delivered at any time, which is what emitting it later would do.

### PromptQueue (`frontend/src/stores/app.ts`)

One local task.  State: the `summary` of the task, its `draft` and `queue`, each
`delivery`, the `dispatch`, the `reloads`, `piStart`, `history` and `stopping`,
and on the other side the `host` and the events `arriving`.  `trail` records
what became of each prompt, for the properties.  The actions are what the store
does between two awaits, grouped in `Composing` (the user and the queue),
`Continuing` (what goes on by itself), `Disturbing` (stops, exits, operations on
the history) and `Failing`.  A pending prompt is found by its id, so of two with
the same text one is sent, moved, changed or dropped (`Dequeued`).  Left out are
the shell commands, which clear the draft when they start (`sendActiveBash`,
`app.ts:2003-2025`), and a steer typed into the composer (`app.ts:1867-1880`):
what they send is no prompt of the queue.

## 4. What the runs check

A passing run takes little more than three minutes on two workers; the largest are
`services` (3.0 million states), `task_services` (4.0) and `remote_target` (6.7).

| Run | Bounds | Shows |
|---|---|---|
| `pi_client` | 2 callers, each `Call` or `Send`; 1 tombstone; 1 record in the pipe; 1 unsolicited record | no goroutine of the client blocks another, no entry is left behind, an answer goes to its own call and an exit error to unanswered ones (`CallsAreAccountedFor`); a late answer to an abandoned call is silent while its tombstone lives (`LateAnswersAreSilent`); a closing client releases its callers, and `Close` returns (`ClosingReleasesEverybody`) |
| `pi_supervisor` | 2 `Start`s on 1 thread | a thread is in one table; one launch at a time; generations identify sessions and grow; the exit event is the last and precedes a restart; `Shutdown` kills everything; dead sessions leave |
| `runtime_lease_live` | 1 connect, 2 acquisitions, 1 teardown | waiters are released, a dead helper is dropped, `stopping` ends |
| `helper_client` | pairs of a call, a Bash, a terminal and the shutdown (not both streams), or two calls and the shutdown; 1 frame of credit, 2 frames of data, 2 entries | every request is ended once, giving up is harmless to the helper, nothing runs unwatched (`RequestsEndOnce`); the death of the helper and `Shutdown` end, but for a stuck sweep (`DeathReleasesRequests`, `ShutdownReturns`) |
| `services`: the connection | 2 connects, 2 operations, 2 revokes, 1 wait; at most 4 attempts (`MaxAttempts`) | a revoked generation has cancelled what was bound to it and is never live again (`RevokesReachEverything`, `NeverRevived`); the barrier opens (`BarrierOpens`) |
| `services`: the catalog | 1 directory, 1 target, 1 root, 2 identities, 1 thread, 1 session file | references resolve and what is served is what is saved, whatever fails or races (`CatalogIsSound`) |
| `services`: the tree | 5 entries of Pi | a mutation leaves a tree that Pi and the desktop read alike, and keeps the branches it should (`TranscriptIsSound`, `MutationsKeepBranches`) |
| `services`: documents, files | 2 of each kind of key, 1 foreign write; 2 names, 2 texts, 1 bundled extension | an edit keeps what it does not name (`EditsKeepTheRest`); a request that fails or is cut off half way loses nothing (`NothingIsLostHalfway`) |
| `services`: the installation | 3 installs in 1 or 2 processes | installs of a process exclude each other, success means the exact helper (`InstallIsSafe`), which nothing replaces (`HelperOnlyImproves`) |
| `task_services`: the runtime | 2 connects, 2 acquisitions, 1 teardown, 2 owners, 2 leases, idle expiry; `Barrier` | at most one helper, and somebody owns it; leases are accounted for and end with their helper; no late teardown undoes a newer state (`OneHelperIsOwned`, `LeasesAreAccountedFor`, `ExitEndsLeases`, `TeardownIsFinal`) |
| `task_services`: the session | 2 launches, 1 stop, maintenance or shutdown | task, session, broker and Pi belong together once all calls have returned (`TaskIsWhole`) |
| `task_services`: the broker | 2 connections, 1 handler | only the launched Pi is served, a closed broker is quiet (`BrokerServesItsPi`) |
| `task_services`: the terminals | 2 terminals, 3 chunks, 3 loads, 1 binding, replay of 2 chunks, channel of 1 event | the pane shows a run of the output; no remote terminal is left running (`TerminalsAreTrue`) |
| `task_services`: the prompts | 2 prompts, 2 deliveries, 2 generations of Pi, 1 settled turn, 1 event on the wire, 2 disturbances (`MaxTroubles`) | a prompt is neither lost nor sent twice (`PromptsAreSafe`) |
| `remote_target`: the service | 2 goroutines, 3 operations (`MaxOperations`), 1 session, 2 generations, 2 runtimes, 2 leases, 1 disconnect | what was denied, removed, disconnected or closed serves no more (`RevocationIsFinal`); a disconnect wins over what ran (`DisconnectWins`) |
| `remote_target`: the helper | 2 requests at a time and a third one that meets the limit, 1 process, 1 tombstone, 1 chunk, 1 cancel, 1 typed input | a request is answered once, last, after its leading process, and a cancelled Bash after its group; a limit reached is answered and a place given back; a lawful client is not cut off (`RequestsAreServed`) |
| `remote_target`: the agent | 2 goroutines, 2 session files, 1 old backup, 2 backups kept (the code keeps 3), 1 entry of Pi, 2 history operations | no call finds a Pi during maintenance (`NoPiServesMaintenance`); what Pi wrote is in a file or was backed up, and Pi knows the history it appends to, where somebody waits for it (`HistoryIsSafe`) |
| `pi_supervisor_idle` | 2 `Start`s | finding 1 |
| `runtime_lease_overlap` | 2 teardowns, `Barrier = FALSE` | finding 2 |
| `helper_client_dead` | 1 Bash, 1 frame of data | finding 3 |
| `catalog_reload` | 1 of everything, 2 bindings | finding 4 |
| `remote_lock_cycle` | 2 goroutines, 4 operations | finding 5 |

Why these bounds are enough for the cases of interest: nearly every hazard the
properties are about needs two invocations (an old and a new `Start`, probe,
launch, teardown or request) and an environment that acts between their critical
sections; the limits (two requests, one tombstone, one handler, one pipe slot, two leases,
two backups, a replay of two chunks) are set so that they are reached.  The lock registry of
the installer needs three installs: one that leaves, one that waits, one that
comes.  A further invocation repeats the role of one of these, and the theorems
of section 6 hold for any number.  `pi_supervisor` has one thread because
threads share only the counter and `StopAll`.

In `remote_target` the third request is sent when two are active, and its client
then stays and sends nothing but the credit it owes (`BeyondTheLimit`).  The
agent starts with one backup of its file, so two operations make the code remove
one; one entry is enough, since each property is about an entry by itself.

Symmetry is used in `task_services` (connects, acquisitions, teardowns, owners)
and `remote_target` (goroutines), which check no liveness; launches, connections
to the broker, requests of the helper and installs are numbers, and begin in
their order.  The first two installs are in one process.  The other runs use none.
Deadlock is not checked: all these systems may stop for good (everything closed,
every invocation used).

## 5. Fairness

Liveness is checked under weak fairness of each goroutine: what the Go scheduler
owes to one that can run.  Beyond that:

- `PiClient`: strong fairness of `WriteLock`, as a `sync.Mutex` starves nobody.
  Nothing of Pi;
- `PiSupervisor`: a killed process exits, and the stream of an exited process
  ends (strong, since events may go on arriving until then).  `Shutdown`, once
  begun, continues;
- `SshConnection`: an operation whose context is cancelled releases it; that is
  what its callers do, each with a deferred release;
- `RuntimeLease`: `factory.Start` returns; a helper that was killed, or whose
  lifetime context was cancelled, exits (`exec.CommandContext`).  Nobody has to
  give up a wait;
- `HelperClient`: a process whose context was cancelled exits; the context of
  `Shutdown` has a deadline, as its callers give it.  The helper may hang.

The other modules state no fairness and have safety properties only.

## 6. What is proved

The proofs hold for any values of the constants under the assumptions named
here, and so for any number of invocations; TLC checked each inductive invariant
on small instances before it was proved.  Each proof module has lemmas on what
the actions do to the variables, lemmas that a step keeps one part of the
invariant, and one that every step keeps the whole; a theorem on `[]P` follows
from the invariant by `PTL`.

### PiClientProofs

Assumptions `NoOneIsNobody`, `RecordsAreNoCallers` (the "nobody" value is no
caller and no goroutine, and the records that answer no call are no callers) and
`BoundsAreNat`.  `CallsAreAccounted` (`CallsAreAccountedFor`, types included) and
`LateAnswersAreDropped` (`LateAnswersAreSilent`), from `Inv`:

- `Matched`: the right to send on a result channel is with the table, with the
  reader or with `finish`, never with two of them, and the channel is empty
  until one used it.  This is why the sends outside `pendingMu` do not block;
- `Ended`: `done` is closed before the table is taken, and `wait` takes it only
  with Pi gone and, if nobody else ended the client, with stdout drained;
- `Carried`: a request is in one place on its way to Pi and back, and in the
  table as long as it is there, unless the client ends or the call was
  cancelled; a request in the table is on its way or being written.  At an exit
  this leaves only unanswered calls to notify, from then on nothing moves;
- `Tombs`, `Outnumbered`: the tombstones are cancelled calls, counted by their
  order (with the cardinality theorems); a request on its way gave up its
  tombstone only to `MaxAbandoned` calls that were cancelled as well.

### PiSupervisorProofs

Assumptions `NoneIsNoStart` (the "no session" value is no session) and
`StartsFinite`.  `TypeCorrect`, `ThreadIsInOnePlace`, `LaunchesAreExclusive`,
`GenerationIsIdentity`, `ExitIsTheLastEvent`, `ExitPrecedesRestart` and
`GenerationsGrow` state the safety properties of `pi_supervisor`.
`TypeOK` is inductive by itself.  The others follow from `IInv`, whose conjuncts
beyond `TypeOK` and `ThreadInOnePlace` are needed for these reasons:

- `Reservations`: a `Start` between `Reserve` and the end of its registration
  owns the entry of its thread in `starting`, alone.  Without it two `Start`s
  could register one thread, or one could remove the other's reservation; the
  delicate case is a `Start` refused at registration, whose late `Unreserve` is
  harmless only because the supervisor is closed and nobody reserves any more;
- `Generations`: numbers are drawn once and never exceed the counter, so that
  equal numbers mean equal sessions;
- `Registered`, `Watched`, `Numbered`: which of the phases of a session can be
  seen in which table; `Exits`: an exit on its way owns the entry in `exiting`,
  so `WatchEnds` frees the thread of its own exit and no other;
- `DoneClients`: a client that is done although nobody closed it has no reader
  left; with it, a session that leaves the table by its own exit
  cannot deliver an event after its `runtime_exit` (`ExitIsLast`);
- `Ordered`: a session about to be registered has a larger number than all
  sessions its thread had; it makes `GenerationsGrow` a consequence.

PromptQueue, for any number of texts, deliveries, generations, turns and
disturbances (`PromptAssumption`: the dispatch has a delivery of its own, the
bounds are numbers).  `PromptsStaySafe` follows from `PromptInv`, which says
where each prompt is.  `PromptsAreSafe` itself is not inductive: it does not see
the draft a delivery would restore, nor the row that is about to be sent.

- `Known`: what is anywhere was typed, so a text typed next is nowhere yet;
- `Remains`: what was typed is in the composer, in the queue, sent by a delivery,
  accepted, or gone in a way `trail.gone` names;
- `Alone`: a prompt is in one of these places and in one delivery, where a
  delivery of the composer also has the draft it would put back (`Has`); while a
  delivery only waits for the transcript the composer still shows its text.  Pi
  took it once if it is accepted or a delivery is being answered, else not at all.
  `Alone` is not asked of the prompts in `trail.kept`, which the composer goes on
  showing after they were sent, as the code does for a replay and for a text
  that is sent, or swapped with a pending one, while a delivery that waits for
  the transcript has it too;
- `DispatchOK`: the delivery of the queue is free unless a dispatch is under way,
  and `HistoryOK`: a replay that reads the transcript again has put its text into
  the composer.

What is appended, put back, removed or replaced in the queue is stated once, for
sequences (`Appended`, `Prepended`, `Removed`, `Replaced`).

### SshConnectionProofs

`EveryRevokeReaches` and `GenerationsAreNotRevived`, from `IInv`: generations
and attempts are drawn in order, so a probe of an older attempt cannot count;
`generationCancels` holds the contexts of the live generation and no others, so
a revoke that empties it takes all of them; a Connect tells nobody of a
generation before it is ready (`Told`); and the channel a teardown waits on is
that of its own generation, so it opens when nothing is bound to it.

### RuntimeLeaseProofs

- The refinement `ConnectionIsUsedAsSpecified`: `Spec => Connection!Spec`.  The
  acquisitions are its operations, the teardowns and the ends of helpers its
  revokes, the teardowns its waits.  With it the theorems of
  `SshConnectionProofs` are instantiated (`Proved`), and
  `TeardownRevokesReach` states one of them for the runtime;
- `HelpersAreOwned`, `LeasesAreKept`, `ExitReachesLeases` and
  `TeardownsAreFinal`, with the hypothesis `Barrier`: nobody connects while a
  teardown runs, which `internal/remotessh/supervisor.go:204-206` asks of its
  callers and nothing in the code ensures.  So they are theorems about the code as
  long as teardowns and connects wait for each other; without it `ExitEndsLeases`
  is false, which `runtime_lease_overlap` shows.  `LeasesAreKept` says that a
  live lease is in the table when no teardown is under way, not that the table
  holds live leases only; `TeardownsAreFinal`, that no late start makes the
  supervisor ready during a teardown and nothing reopens a closed one.  The invariant
  `LInv` adds to `CInv` (the connection's) who holds the helper, its lifetime
  and each lease at every stage of a start, a teardown and an exit, and that a
  teardown under way leaves nothing for another one to take.

### AppServiceProofs

Of `AgentHistory`, for any goroutines, files, backups kept and entries:
`MaintenanceServesNoPi` (`NoPiServesMaintenance`), `HistoryStaysSafe`
(`HistoryIsSafe`) and `NothingPiWroteIsLost` (`NothingIsLost`), from `FInv`.  They
do not say that no process runs during maintenance, or that nothing is ever
overwritten: a stopped Pi, a bash whose call gave up and a goal pursued by itself
may write at any time, and the code waits for none of them.  What they write while
a history operation is under way is set apart (`astray`, `unwatched`), and the
theorems are about everything else.  `FInv` says of each stage of an operation
what it may rely on: it is alone (`Alone`), nothing that a call asked for goes on
once Pi was told to abort (`Between`), the file has what Pi knows (`PiHasFile`)
or what was computed from it, and the backup that was made last has what the file
then lacks (`BackedUp`, `Stage`), since no other operation makes or removes one
meanwhile.  `Maintained` says what the locks of maintenance keep out.

Of `WorkspaceCatalog`, under `NothingIsNothing` (an absent value is told from
the others): `CatalogStaysSound` (`CatalogIsSound`).  Each change of the catalog
keeps a content `Good`, whose references resolve and whose threads own their
sessions; one lemma for each says so.  `CatInv` is about what survives between
two steps.  What a request has checked before it takes the mutex stays true of
the session files (`Checked`), but for a workspace removed since, whose identity
`SaveDesktop` refuses; it stays true because an identity that anything refers to
is never given out again, and because a restore (`Restorable`) moves an orphan's
session, which no thread has.  An anchor that has its marker keeps it (`Bound`),
and the file on disk is good whenever the catalog can be loaded again
(`Stored`), after a torn write too.

Of `ConfigDocuments`, under `KeysAndValues` (the settings of a provider are no
model, an absent value is none): `EditsKeepEverythingElse` (`EditsKeepTheRest`).
An edit reads in one step and writes in another, so `DocumentInv` says of an edit
under way that what it read and does not name is in what it will write, moved
when its provider is renamed.  That also needs `HaveProviders`: no document has
models of a provider it does not have, so a rename cannot land on any.  A
write of Pi or an editor between the two steps is overwritten in the code and in
the model, and is the one case the property leaves out.

Of `AgentFiles`, under `NoFileIsNone`: `HalfwayLosesNothing`
(`NothingIsLostHalfway`).  `HalfwayInv` says that between its two calls an
installation that found a todo extension has set the older one aside, and so can
put it back, or one is still loaded; for the prompts, `TextsAreFound`
follows the text of a template through each action.

Of `Terminals`, under `TerminalBuffers` (the channel and the replay hold something):
`TerminalsAreClosed` (`NoStrayTerminal`, the part of `TerminalsAreTrue` about the
hosts) and `ReplaysAreRuns`, which is about the output kept of a terminal and not
about whether a snapshot says that it runs.  `TerminalInv` says who holds each remote terminal: the
`Start` that opened it, with the lease it opened it with; the session, whose
lease is the bound one; or an `Unbind` or `Shutdown` under way.  The `exit` of a
terminal is in its channel only when the terminal has ended, and each replay is
`Kept(Chunks(i, n))`, what is kept of the first `n` chunks: by `KeptAppend`
the next chunk takes the place of the oldest.

### RemoteHelperProofs

Of `HelperInstall`, under `NoLockIsNoInstall`: `InstallTypes`, `InstallSafety`
(`InstallIsSafe`) and `InstallImproves` (`HelperOnlyImproves`).  That the lock of
a process excludes at all is not local: a lock is made anew when the registry
has forgotten it.  `LockInv` says that whoever refers to a lock refers to the
registered one of its process (`Registered`), whose name is an install of that
process (`Owned`), that `refs` counts exactly those who refer to it (`Counted`,
with the cardinality theorems), so that it is forgotten when nobody does, and
that its token is in one place (`Exclusive`).  `Verified` says what the upload
and the final file hold at each step of a publication, with other processes
around it, `Concluded` what a result means, `Removed` when an upload is left.

Of `HelperServer`, under `ServerBounds` (room for one tombstone and one chunk of
credit at least): `ServerTypeCorrect`, `RequestsServed` (`RequestsAreServed`).
The hard half is that no late frame is taken for a broken protocol.  `InputOrder`
says that in the frames under way one asks for a request before any other is
about it, and only one does; so whatever is read is about a request that was
registered, and `Table` says that one is in the table, among the tombstones or
among those forgotten.  `CreditIsOne` keeps the one credit of a request in one
place, so a lawful client cannot exceed `MaxCredit`.  The other half is `Stages`
(what each stage of a request leaves of its processes, its blob and its answer),
`Limits` (requests and processes are counted when one enters the table, with the
cardinality theorems) and `QuietAfter` (nothing runs once the shutdown was
answered or the loop has returned).

### HelperClientProofs

Under `KindsAreDisjoint` (the names of requests and goroutines differ) and
`ClientBounds`: `RequestsEnd` (`RequestsEndOnce`), `ClientTypeCorrect`,
`EntriesAndCredit`.  The property is not inductive, since where a request is says
nothing of what is still on its way to it.  `Once` puts the right to end a
request in one place: its entry, the sweep of `stopTransport`, the frame the
reader holds, or its channel.  `Watched` says that until the transport stops
whatever the helper works on and has sent has an entry, so that giving up, which
leaves the entry, stops no reader; `Carried` that a frame or a result is one the
helper has sent, so that an untouched request has none; `Placed` and `Stopped`
what a place and the state of the pipe say; `Answers` that a plain call that
failed gets no answer later.  `Credited` counts the data frames on the wire, in
the reader, in the channel and with the consumer (with the cardinality
theorems and lemmas on appending, taking and cutting a sequence): together with
the credit they never exceed the window.

### RemoteTaskProofs

Of `RemoteTask`, under `CallsAreDistinct` (launches and stops are different calls, and the
"no broker" value is none): `TaskTypes`, `TaskSafety` (`TaskIsWhole`).  Nothing
in the code keeps a launch from closing the session or stopping the Pi of
another one, so the invariant `TInv` is about who is left to close what: an open
broker is registered or about to be (`OpenInv`), a taken one has somebody who
waits for it (`WaitInv`), a live lease is the task of the thread or in the hands
of one who ends it (`LeaseInv`), a task of the thread has a broker, will have
one, or will be stopped (`TaskInv`), the launch of a running Pi succeeds or
will stop it (`PiInv`).  `HelloInv` and `OtherInv` relate a Pi that has greeted
its broker to the registered session: a second one cannot launch its own Pi
while the first runs.

Of `RemoteBroker`: `BrokerTypes`, `BrokerSafety` (`BrokerServesItsPi`).  `Counted`: the wait group
counts the busy handlers and the goroutine of `serve`, which starts them, so
when it is zero nothing runs and nothing will start.  `Held`: `serve` holds one
connection at most.  `Ended`: what the stage of `Close` says of the listener.
`Launched`: an accepted handshake was made by a peer that matches the launched
process.  `Answered`: an answer is given once, and a mutation in doubt has ended
the lease.

Model-checked only:

- liveness (`ClosingReleasesEverybody`, `ShutdownKillsEverything`,
  `ThreadsAreReleased`, `BarrierOpens`, `StartersAreReleased`,
  `ExitedHelperIsDropped`, `StoppingEnds`, `DeathReleasesRequests`,
  `ShutdownReturns`): fairness and `ENABLED` are out of the prover's reach;
- `TranscriptIsSound` and `MutationsKeepBranches`: paths in the tree of a session
  are recursive, and what a recursive definition computes needs induction over
  data, which the provers do not do here;
- of `TerminalsAreTrue` the part `DisplayIsFaithful`: what the pane shows is a fold
  over a sequence of events, induction over data again;
- `RevocationIsFinal` and `DisconnectWins`: not proved.

`IdleMeansNoProcess`, `DeadHelperEndsRequests`, `SavedStateLoads`,
`ValidatedMutationsPass` and, without `Barrier`, `ExitEndsLeases` are false and
have no theorem.

## 7. Findings

1. `pi_supervisor_idle`: `ActiveCount` is zero while a process still runs,
   though `piruntime/supervisor.go:209-211` relies on it to mean that "exit
   cleanup" has completed.
2. `runtime_lease_overlap`: of two overlapping teardowns the later one writes
   `stopped` over a runtime that became ready in between; when that helper exits
   its leases are not cancelled (`runtime_supervisor.go:136-138` says they are).
3. `helper_client_dead`: after the helper dies `RunBash` may never return.
   `stopTransport` sends an error to every pending request before it cancels the
   process.  The channel of a Bash or terminal may be full and its consumer gone,
   or itself waiting for the same `sync.Once`; one acceptance and one data frame
   are enough.  `Shutdown` can be caught in the same sweep.
4. `catalog_reload`: a target that is registered again under a new binding, which
   `workspace/remote.go:55-57` says is adopted, leaves a saved file that the next
   start refuses to load (`catalog.go:568-571`), local workspaces included.
5. `remote_lock_cycle`: binding a workspace holds the coordinator's lock and
   waits for the catalog's; a removal or denial holds the catalog's and waits for
   the coordinator's.  The validated mutation (`remotetrust.go:56-58`) is never
   recorded.

Observed while modelling, without a property of its own:

- an event that passed `isCurrent` may reach the sink after `Stop` returned
  (`piruntime/supervisor.go:114`), and an answer that Pi wrote before it exited
  may lose the `select` of `Call` to the closed `done` channel;
- a launch that fails closes the session of whichever launch the thread has
  (`agent.go:220`), and one that finds another session after its handshake
  reports success although its own broker is closed (`agent.go:239-247`);
- a `runtime_exit` closes a newer session as long as its generation is not known
  (`agent.go:899`);
- a cache directory that was made and not protected, because the connection was
  lost in between, is waited for by every later install, in vain
  (`installer.go:277-283`);
- an open that loses the race with a disconnect leaves a runtime registered that
  refuses the next one (`runtime_registry.go:28`); a disconnect takes the runtime
  out of the registry before it revokes it (`remoteworkspace.go:669`);
- a removal takes whatever session is in the table out of it, and closes the one
  it had found there before (`remoteworkspace.go:626`, `:641`): a session made in
  between stays connected, even after `Close`.  `RevocationIsFinal` does not
  follow it (`stray`);
- a Pi that was stopped may still append to its session file: during a
  maintenance, which then replaces its installation under it, or beside the next
  Pi (`piruntime/supervisor.go:174-189`, `:221-238`);
- a bash command that outlives the deadline of its call (`agent.go:397`), a turn
  the goal extension begins by itself and a stopped Pi may append while a history
  operation replaces the file: what they write between its read and its write, or
  to the history the file no longer has, is overwritten or left on the old branch;
- `backupSession` leaves a torn backup where its write fails, and that counts among
  the three that are kept (`mutations.go:844-858`);
- a snapshot that looked a terminal up before `wait` forgot it, and reads it after
  the exit was numbered, says that it runs and includes the number of the exit
  (`manager.go:194-202`, `:283-299`); the pane then drops the exit as old
  (`TerminalPane.vue:84`) and shows the terminal as running until it is reloaded;
- a process that a remote Bash put into the background, with its output elsewhere,
  outlives the answer, also where that is `REMOTE_OUTCOME_UNKNOWN`
  (`remotehelper/bash.go:127-137`);
- typed input that arrives faster than the pty takes it ends the helper
  (`remotehelper/terminal.go:45-53`);
- dropped terminal output stays invisible until more is printed
  (`runtime_terminal.go:312`), and a second gap while the pane recovers leaves it
  behind (`TerminalPane.vue:85`);
- a dispatch that is skipped during a history operation is not repeated
  (`app.ts:1975`): the queue waits for the next event of Pi.

## 8. Not modelled

Pure I/O and formats (process starter, codec, discovery and host keys,
repository views, model probe, browser, views) stay out: their correctness is in
data and system calls and not in orders of events.  What the modelled components
leave out is listed with them in `PROJECT.json`; the larger parts are the root
bindings of `OpenRoot`, an interruption of the application while it rewrites a
session file, targets, workspaces, threads and tasks beyond the first
where one stands for all, and, in the store, attachments, the reconnection of a
remote task and the schedule of tasks.

## 9. Plan

Proofs left: `RevocationIsFinal` of `TargetLifecycle`, split by the field that a
revocation clears, as `RemoteTaskProofs` is by who closes what, and
`DisconnectWins` from the same invariant.
