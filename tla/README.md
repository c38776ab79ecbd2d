# Nexus Terminal: TLA+ models, checks and proofs

Nexus Terminal is a VS Code extension for terminals, tunnels, files, inventories
and small network servers. It is single-threaded TypeScript, but almost every
operation awaits something (an SSH handshake, a socket, a disk write, a timer,
a dialog, another process), so its hard behaviour is in the interleavings of
continuations, timers, events and messages. That is what is modelled here. Paths
below are relative to the repository's `src/` directory unless they start with
`docs/` or `README`.

## 1. Inventory

| Component | State it keeps | Operations | Hard behaviour | What makes it correct |
|---|---|---|---|---|
| Semaphore (`services/scripts/readSlotScheduler.ts`, `createSemaphore`) | free permits, waiter array with shells of cancelled waiters | acquire, cancel, release | cancellation while permits are handed over | permits conserved, none idle while somebody waits, FIFO, amortized cancellation |
| Read-slot scheduler (same file) | slot of every call, detached and held operations | runGated, deadline, settle, promote | deadline and grant in one tick, providers that never answer, full budget | bounded live work, every call ends, nothing starts after its rejection |
| SSH pool (`services/ssh/sshConnectionPool.ts`) | entry, pending connect, reference counts, idle timer, leases | connect, join, dispose, fallback, invalidate, evict | eviction between a promise and its continuation, late close events, edits during a connect | exact counts, no leak, no connection closed under a lease |
| Tunnels (`services/tunnel/tunnelManager.ts`, `socks5.ts`) | two maps, a runtime per tunnel, sockets, SSH connections | start (three types), client handlers, stop | start and stop racing handlers that wait | one tunnel per profile, no ghost in the views, nothing left after a stop |
| Tunnel registry (`services/tunnel/tunnelRegistrySync.ts`) | a list in globalState, shared by all windows | register, unregister, heartbeat, probe | read-modify-write across awaits by several processes | a live tunnel is (again) listed, a dead one goes |
| Daemon host (`services/networkServers/daemonHost.ts`) | child generation, pending calls, write budget | start, request, terminate, dispose | late output of a replaced child, undrained pipes, fallback of the engine | no orphan, no call that waits for a retired child |
| Network-server manager, daemon, workflow queue (`services/networkServers/`) | status in the sidebar; tails, configuration and service state in the daemon | start, stop, restart, configure, refresh | the daemon dies; a call times out and is carried out nevertheless | the sidebar ends up with the truth |
| TFTP engine (`services/networkServers/tftp/engine/TftpEngine.ts`) | sessions, admissions, packet queues, write handles, generations of start and stop | RRQ, WRQ, packets, GC, cancel, start, stop | reservations across the awaits of the file system | the transfer limit, nothing left after a stop, the last request wins |
| TFTP session (`.../TransferSession.ts`) | phase, block numbers, window, retransmission queue, timers | ACK, DATA, GC tick | loss, duplication, reordering, wrap-around, silent peers | complete means delivered, in order, no false abort, every transfer ends |
| DHCP engine and leases (`services/networkServers/dhcp/`) | lease table, reservations, persisted file | bind, renew, persist, restore | crash between writes, stale file after an edit | no address given twice, across crashes |
| Configuration core (`core/nexusCore.ts`) | servers, folders, sources, sessions, activity, focus | mutators, `applyInventorySyncPlan()` | a rejected save after others changed the maps | a rollback undoes the batch and nothing else; gateways resolve |
| Inventory commands (`commands/inventoryCommands.ts`) | claim, revisions, status generations, secrets | sync, edit, remove, refresh, control | a preview that is stale when confirmed, a late refresh, a save between two others | what was confirmed is applied; the vault matches the source |
| Inventory planning (`services/inventory/syncEngine.ts`, `templateApply.ts`) | stamps of what a sync wrote | `computeSyncPlan()` | edits by hand, removal and re-adding, adoption | hand edits survive; a sync settles |
| Script runtime (`services/scripts/`) | one run per session, input lock, macro filters, watchdog | run, stop, connection lost, worker exit | stop against exit, starts that overtake each other | no lock, filter or blocked keyboard left behind; every run ends |
| Transcripts (`logging/`) | pending, owed and in-flight bytes, generations of the file | write, drain, rotate, close | partial writes around a rotation | text in order, nothing lost unless announced |
| SSH terminal (`services/ssh/sshPty.ts`) | connection, shell, generations, registration in the core | open, reconnect, close | dispose during a connect, late callbacks | no connection survives its terminal; the list is honest |
| SFTP, watcher, directory synchronisation (`services/sftp/`) | session, lease, cache; stream and probe; pending reports | connect, read, write, watch, follow | results of superseded requests | leases released once, listings not outdated, one stream, never backward |
| Macros (`storage/vscodeMacroStore.ts`, `commands/macroCommands.ts`) | list in globalState, secrets in the vault | save, delete, migrate, edit | a refused call between two media, a locked keyring | no secret lost or given to another macro |
| Records (`commands/serverCommands.ts`, `authProfileCommands.ts`, `deviceTemplateCommands.ts`) | servers, profiles, templates, sources, their secrets | add, edit, duplicate, delete, apply | the record changes while the dialog is open; a save is rejected | links resolve; secrets stay with their record |
| Import, export, reset (`commands/configCommands.ts`) | phases of an import | merge, replace, share, reset | a call rejected in the middle | a backup is restored, what is not in it stays |
| Serial ports (`services/serial/`) | sessions, ports of the sidecar, timers, `ctx.serialTerminals` | open, write, reconnect, disconnect, remove | timeout against a late answer, sidecar crash | a port is held by one session that knows it |
| Local shells and servers (`services/local/`) | process, sessions, backoff | start, stop, restart, remove | exit during a stop, restart during a removal | one process of a server; what works is shown |
| SSH authentication, telnet, triggers, settings guard, forms, views, activation | mostly none of their own | - | mostly sequential | - |

`PROJECT.json` lists every component with its status, and under `hazards` what
is hard to test in this code, at its line, with the properties that watch it.

The components interact by calls (a tunnel's shared factory is the pool, whose
leases it disposes), by events (pool and tunnel listeners feed the views), by
messages (the daemon, UDP peers, sidecars) and through shared media (globalState,
the vault, the lease file). Where two components run in one turn of the event
loop they are composed in one module: `ReadSlotScheduler` EXTENDS `Semaphore`,
and `ConfigTransfer` EXTENDS `RecordCommands` EXTENDS `Records`. Where they meet
at an await, each sees the other as an environment that answers, fails or stays
silent.

## 2. Modules

| Module | Models |
|---|---|
| `Semaphore`, `FifoSemaphore` | `createSemaphore`, and what it promises: permits and a FIFO of waiters without shells |
| `ReadSlotScheduler` | class `ReadSlotScheduler` on top of `Semaphore` |
| `SshConnectionPool` | classes `SshConnectionPool` and `PooledSshConnection` |
| `TunnelManager` | class `TunnelManager` |
| `TunnelRegistry` | `TunnelRegistrySync` in several windows, and the commands that drive it |
| `DaemonHost` | class `NetworkServerDaemonHost` |
| `ServiceLifecycle` | `NetworkServerManager`, the pipes, the daemon's workflow queue, its `ServerManager` and the TFTP adapter |
| `TftpEngine`, `TftpTransfer` | class `TftpEngine` around its sessions; class `TransferSession` with an RFC client and the UDP path |
| `DhcpLeases` | `DhcpEngine`, `DhcpLeasePersistence` and the patched allocator |
| `NexusCore` | the maps of the core and `applyInventorySyncPlan()` |
| `InventorySync`, `SyncPlan` | the commands that race for one source; `computeSyncPlan()` for one device |
| `ScriptRuntime` | `ScriptRuntimeManager` for one session, with its watchdog |
| `SessionTranscript` | `FileSessionTranscript` |
| `SshTerminal` | class `SshPty` |
| `SftpService`, `RemoteWatch`, `CwdSync` | `SftpService` for one server, `RemoteDirectoryWatcher`, `CwdSyncCoordinator` with its tracker |
| `MacroStore` | `VscodeMacroStore`, the macro commands and editor |
| `Records`, `RecordCommands`, `ConfigTransfer` | records and secrets; the commands with their dialogs; imports, exports and the reset |
| `SerialPorts` | `SerialPty`, `SmartSerialPty`, `SerialSidecarManager` and the sidecar |
| `LocalProcesses` | `LocalShellPty`, `LocalServerManager` and the core's list |
| `MC...` | instances for TLC; a suite chooses in `Init` which of its parts a behaviour is about (`part`) |
| `...Proofs` | the theorems of section 4 |

The header of each module says what its state stands for; `map` in
`PROJECT.json` names for every definition the lines it translates. The points a
reader should know:

**Semaphore and scheduler.** `outcome[r]` is the promise of request `r`, `queue`
the waiter array with its shells, `dead` the shell counter. `Acquire`, `Cancel`
(with the compaction when shells outnumber live waiters) and `Release` (which
skips shells and hands the permit over) are the operations; the history variable
`cancelWork` counts the array cells that compactions touched. In
`ReadSlotScheduler`, `slot[c]` is the state machine `transition()` guards and
`work[c]` the caller's operation. The event loop is explicit: settlements of
promises are microtasks, and a timer or an I/O event runs only when no
continuation is left (`Drained`), except that timers due in the same tick fire
one after the other (`batch`). That is what lets a grant and a deadline meet.

**SSH pool.** No operation but `dispose()` touches two keys of the pool's maps,
so the module is about one server. `entry` and `pending` are the values at its
key; a `PoolEntry` is named by its connection. The promise of a pending connect
is shared; `SettlePending` resolves it, and each waiter counts its reference in a
later step (`Join`), so that closing, invalidating and evicting fall between.
`hasty` records whether some caller disposed a lease while a channel was being
opened on it; exact counting, and what follows from it, is claimed for the
behaviours in which no caller did, because the release callback of a lease runs
twice otherwise (section 5).

**Tunnels.** `rt[t]` is the `ActiveTunnelRuntime` of tunnel `t` with the progress
of its `start()` and `stop()`; `client[x]` a socket and the handler that serves
it. `StartListening` is the part of `start()` before its await on the listener,
`ListenSucceeds` and `SharedConnected` the parts after it. Handlers that wait for
a connection or a channel are not interrupted by a stop, as in the code. In
`TunnelRegistry` the list is read, computed and written back by each window;
`syncWithProbe()` awaits probes in between, so an update made meanwhile is lost.

**Network servers.** In `DaemonHost` calls are admitted against a write budget,
startup attempts fall back from the native to the bundled daemon, and every
callback is tied to the generation of its child. `ServiceLifecycle` has the two
ordered pipes between the extension and the daemon: a workflow of the daemon is
one step because the queue serialises it, and what it reports travels. In
`TftpEngine` an admission reserves before it awaits the file system; `TftpTransfer`
keeps times in real seconds with the code's defaults. `DhcpLeases` has the table,
the debounced and serialised writer, the crash of the daemon at any step, and the
reconciliation of the file with the configuration of the next start.

**Configuration.** `NexusCore` is the map level: `serialized` says whether the
callers hold `configMutationLock`, as the commands do, or not, as the class allows.
`InventorySync` numbers what a provider answers by a clock; a locked section that
nothing outside the lock can look into is one step. `SyncPlan` keeps for each
field the value and the stamp of the last sync, and compares records before and
after a sync. In `Records`, whoever changes records makes one awaited call after
another (`task`), any of which can be rejected; a dialog in `RecordCommands` keeps
what it was opened with.

**Sessions and files.** `ScriptRuntime`, `SshTerminal`, `SftpService`,
`RemoteWatch` and `CwdSync` name every asynchronous operation by its generation;
the guards of their late continuations are the code's generation checks.
`SessionTranscript` numbers each unit of text with the write it came with, so
that order and loss can be stated about the files.

**The window.** `MacroStore` calls its two media one by one, and each may refuse
or, for the keyring, not answer; the window can die between two calls.
`SerialPorts` and `LocalProcesses` each have a child process whose end, answers
and timeouts come in any order.

## 3. Runs

| Run | Bounds | What it checks |
|---|---|---|
| `read_slots` | 5 calls, 2 permits, 1 detached operation | `PermitConservation`; `SchedulerInvariants` (the invariants numbered in the code's comments, and the bound on the waiter array); `ImplementsFifo`, the refinement of `FifoSemaphore`; `QueueDiscipline`; `EveryCallEnds`, though operations may never settle |
| `pool` | 2 leases, 4 connections, 1 edit | `PoolInvariants`, `CarefulLastLease`, `PoolProgress` |
| `tunnel` | 2 starts, 2 clients, 3 connections, all kinds of profile | `OneTunnelPerProfile`, `NothingEscapesStop`, `StopCompletes` |
| `tftp` | 9 blocks, or downloads of 2; numbers wrap after 7, windows 1 and 2, 2 faults | `FileIntact`, `HonestOutcome`, `TransferEnds` |
| `processes` | 2 windows, 2 profiles (one reverse), 2 starts, 1 missed probe; 2 calls, 2 attempts, 3 children, budget 2 | `RegistryConverges`; `NoOrphanDaemon`, `AdmissionsReturn` |
| `network_servers` | 2 devices, 1 address, lease time 2, 3 instants, 2 boots; 2 peers, 1 transfer at a time, 2 sessions, 3 starts and stops; 2 commands, 2 settings, 2 failures | `LeaseTableSound`, `SavedNeverShared`; `EngineSound`; `ServiceHonest` |
| `configuration` | 2 servers, 1 session, 5 folder paths, 1 batch, 1 other operation; 2 devices, 2 refreshers, 2 observations, 1 edit; 2 hosts, 2 gateways | `GatewayResolves`, `RollbackSafe`; `VaultMatchesSource`, `SyncHonest`; `SettledAndUsable`, `HandEditsSurvive` |
| `sessions` | 3 script calls; 5 chunks of 1 or 2 units, files of 3, 2 faults, 1 retry of the close; 3 generations of a terminal | `NothingLeftBehind`, `EveryRunEnds`; `TranscriptIntact`, `CloseReleases`; `TerminalHonest` |
| `remote_files` | 2 connects, 2 operations, 3 versions; 3 watches, 4 streams; 2 sessions with 2 reports each, 2 lookups | `SftpSound`; `WatchSound`; `NeverBackward` |
| `window` | 4 macros, 5 ids, 2 edits, 2 outages; 4 servers, 2 profiles, 1 template, 2 sources, 2 commands, 1 rejection; 2 ports, 3 opens; 3 sessions of a server or 2 shells, 1 automatic restart | `MacrosSound`; `RecordsSound`, `TransferSound`; `SerialSound`; `LocalSound` |
| `sync_plan_address` | 2 hosts, 1 gateway | violation of `AddressOfTransport` (section 5) |
| `script_stop` | 2 script calls | violation of `StopTagged` (section 5) |

Several components share a run. They have no state in common, and a behaviour of
such a suite is about one of them, so the state space is the sum of the parts.

Each part has one type invariant, which is a conjunct of a checked property
(`LeaseTableSound` includes `DhcpTypeOK`, `EngineSound` `EngTypeOK`,
`GatewayResolves` `CoreTypeOK`, `VaultMatchesSource` `InvTypeOK`,
`SettledAndUsable` `PlanTypeOK`, `NoOrphanDaemon` `HostTypeOK`,
`RegistryConverges` `RegTypeOK`, `FileIntact` `TypeOK`, `NothingLeftBehind`
`ScriptTypeOK`, and so on). Properties with a plural claim are conjunctions of
named parts: `SettledAndUsable` is validity of the record, no unusable link and
the settling of the sync; `SyncHonest` is `PreviewHonoured` and `StatusFresh`;
`RollbackSafe` is `RollbackUndoesBatch` and `ClosedForGood`; `MacrosSound` is
`SecretsKept` and `RightMacro`; `RecordsSound` is `FreshLinksResolve` and
`VaultSound`; `TransferSound` is `Restored`, `Untouched` and `TakenBack`;
`LocalSound` is `OneProcess`, `WorkIsShown`, `RestartsBounded` and `ListsAgree`.

Why the bounds are enough:

- five calls on two permits and one detached operation reach every slot state,
  with shells before, between and behind live waiters, and compaction with and
  without live waiters;
- two leases and four connections allow a shared entry, two standalone fallbacks
  and a replacement entry;
- two starts race for the port; two clients and the eager connect race for the
  shared connection;
- a block space of 8 makes nine blocks wrap in the middle of a transfer while it
  stays larger than twice the window, as 65536 is. The queue of 2 is the largest
  window: the code clamps the window to the 256 packets its queue keeps
  (`protocol.ts:445`), and the queue is then exactly full. A download
  of two blocks has its last one out while the first ACK can still be repeated;
- two windows suffice to lose an update, and three generations of a daemon to
  have one retired, one dying and one current;
- two devices and one address are contention at once; two boots put a crash
  between a write and the restart that reads it;
- two packets of a peer overlap one admission; the second session is admitted
  while the first is finalized; three starts and stops put a stop between two
  starts;
- one batch and one other operation in every order are what a rollback has to
  tell apart; two refreshers and two observations are what a late answer needs;
- the third script call is the one that starts while a first is being stopped
  and a second is queued; three generations of a terminal have a late callback
  two reconnects old;
- two dialogs, one rejection and the import in between are every pairwise
  interference of two commands; the share file has a server that names a gateway
  after it. `RecordInv` of section 4 was checked with six servers and two
  rejections as well;
- two edits of the macros overlap one dialog, and one outage leaves a secret in
  the vault only; one of the stored lists has two secrets of one id. The inductive
  invariant of section 4 was checked with 3 edits and 1 outage as well.

Where deadlock checking is off, the system may really stop: all calls ended, all
leases disposed, the transfer over, the window closed.

### Fairness

- Scheduler: the event loop drains continuations and fires due timers (weak
  fairness per call). Nothing makes the caller's operation settle.
- Pool: continuations run, timers fire, and a handshake ends because ssh2 bounds
  it with `readyTimeout`.
- Tunnels: a cancelled forward settles because a dead connection fails its
  requests, the listener's close callback runs, and a peer whose stream was ended
  closes its half. Nothing makes a handshake or a channel complete.
- TFTP: datagrams that are not lost are handled; the GC interval fires whatever
  arrives in between, which is strong fairness of `Gc`, because the arrival of a
  datagram can disable the step in the model (time does not pass while undelayed
  datagrams travel) and not the timer in the code. Clients may stop for ever.
- Registry: each window's poll and the answers of its probes, and the ageing of
  the entries. Daemon host: continuations run, its timers fire, a killed process
  exits and an exited one closes its streams. Nothing makes the child answer.
- Scripts: the continuation of a stop runs once the worker is terminated or the
  dialog answered, and the watchdog fires. A script may run for ever by itself.
- Transcript: a call of the file system returns or fails, the flush and retry
  timers. The other parts of the suites have no fairness: only safety is claimed
  of them.

## 4. Proofs

TLC checks small instances; the theorems hold for every value of the constants
that satisfies the named assumptions. Each proof module EXTENDS the modules it is
about. In every case the property is not inductive as it stands; what has to be
added is the interesting part.

| Theorem | Property | Inductive invariant, and why it is needed |
|---|---|---|
| `RemoteFilesProofs!PermitsConserved`, `ArrayAccounted` | `PermitConservation`, no idle permit, amortized cost | `SemInv` adds `WaitersQueued`: every waiting request has a place in the array, which compaction must preserve; without it a release that finds no live cell could leave somebody waiting. `AccountInv` counts shells and entries and charges each compaction to the cancellations before it |
| `RemoteFilesProofs!SchedulerIsSound`, `QueuesAreFair`, `SchedulerUsesSemaphore` | `SchedulerInvariants`, `QueueDiscipline`, the step-by-step refinement of `SemSpec` | `SchedInv`: the two invariants of the semaphore, `CallsInv` (what slot, outcome, timer and work of a call say of each other), `CountersInv` (the counters are cardinalities), `OrderInv` (deadlines fire in queue order, so that shells lie before the live waiters). The documented bound of the array holds only because of the last |
| `PoolProofs!PoolIsSound`, `LastLeaseIsCareful` | `PoolInvariants`, `CarefulLastLease` | `PoolInv` in three layers: `Refs` (what leases, the map and the pending connect refer to), `Counted` with `TimerOnlyWhenIdle`, and `NoConnectionLeak` with `IdleIsTimed`. The count of the mapped entry is exact even after a hasty disposal, because such an entry is counted twice only once it is out of the map |
| `TunnelManagerProofs!OneTunnel`, `StopIsComplete` | `OneTunnelPerProfile`, `NothingEscapesStop` | `Lifecycle`: how far a start has come decides whether its tunnel is mapped, announced and listening, which is why two racing starts cannot both succeed; `Made`: every connection referred to exists; `Closing`: what a stopping tunnel still waits for |
| `TunnelManagerProofs!SerialIsSound` | `SerialSound` | `SerialInv`: `AnswersSound` (what an answer says is so, or was so and nothing came of it: an opened session is on the port that was asked for, an unknown one is gone for good), `AttemptsSound` (one attempt per terminal waits for one answer, and the terminal's state says for which), `TtysSound` (what a terminal's state says of its session), and four facts about the order of writes and attempts (`WritesFit`, `WritesGot`, `WritesOut`, `WritesIn`): a write is answered before the attempt that follows can succeed, so that the late answer to a write of the last session never ends the new one. `TtysSound` says that a listed terminal shows the path of its session and an unlisted one none. A step of a terminal is one lemma (`MovesKeep`), which each action instantiates with what it becomes and sends |
| `NetworkServersProofs!LeaseTableIsSound`, `SavedLeaseNeverShared` | `LeaseTableSound`, `SavedNeverShared` | `TableInv` (entries, snapshots and the engine's own picture agree, a stopped engine has none), `CoverInv` (a granted lease is in the file, in a write under way, or a write is due), `SavedInv` (what was written stays until it expires) |
| `NetworkServersProofs!EngineIsSound` | `EngineSound` | `EngInv` adds `SocketFollows` and `QueueFollows` (the drained chain has the state last asked for), `HoldsNothing` (a session that ended has no handle), `FinalizingIsCleanup`, `Reserves` (an admission holds its place across its awaits) |
| `NetworkServersProofs!ServiceIsHonest` | `ServiceHonest` | `ServiceInv`: `DaemonSound` (an instance with an older configuration than the daemon's is marked), `AnswersTrue` (an answer on its way is true when it is read, or a status event is behind it), `Repaired` (what is wrong on the screen is going to be put right by a timer, a status event, a call or a refresh on its way). The steps of the daemon rest on lemmas about its operations: each adds only status events to the pipe, and adds one if the service begins or ceases to run (`Goes`) |
| `NetworkServersProofs!NoDaemonIsOrphaned` | `NoOrphanDaemon` | `HostInv`: what children, the current child, startup attempts and calls say of each other; a call belongs to the child it was written to, and a retired child has rejected its calls |
| `ConfigurationProofs!VaultFollowsSource`, `SyncIsHonest` | `VaultMatchesSource`, `SyncHonest` | `CommandsInv`: `ClaimsSound` (one claim per source), `SecretsSound` (which of an editor's two saves are done), `PlanSound` (a confirmed plan was previewed at its revision and epoch), `RefreshersSound`, `TimesSound`, `StatusOfThisConfig` |
| `ConfigurationProofs!LinksAreKept`, `RollbackIsSafe` | `GatewayResolves`, `RollbackSafe` | `CoreInv`: `MapsOK`, `SessionsOK` (what a batch dropped is restored or closed, and marks and focus are of tracked sessions), `BatchOK`, and two facts about a save not settled yet: `RollbackLinks`, that a rejection now would break no link, and `RollbackAll`, that while nothing was altered it would restore everything. The steps rest on lemmas about the folder paths: a dissolved folder, the deepest surviving folder of a chain, and that a regrown tree is the one that was pruned |
| `ConfigurationProofs!PlanSettles`, `HandEditsAreKept` | `SettledAndUsable`, `HandEditsSurvive` | `PlanInv`: `PlanTypeOK` and what the record, its remembered values and the fields the user has a hand in say of each other. A plan is split field by field (address, transport, alternate address, gateway, template, profile), and each field is shown to be left as it is by a second plan |
| `MacroProofs!MacrosAreSound` | `MacrosSound` | `Basics` (types, phases, and that ids and souls come from counters); `JobInv`: what the call being executed is about to store, commit and delete; `SoleInv`: an id that one macro had for itself when a dialog opened is that macro's in every list since; `SoulsInv`: for each macro neither dropped nor excused, what the disk (`OnDisk`), the list shown (`Shown`), the waiting lists (`WaitSelf`, `WaitPairs`) and the list being written (`JobSelf`, `JobPairs`) have of it. The heart is a macro whose text is only in the vault: every later list keeps it under the same id, and no list gives that id to another secret |
| `RecordProofs!RecordsAreSound` | `RecordsSound` | `RecordInv` is about the calls still to be made, since in the middle of a command all three claims are false: `VaultOK` and `BoundOK` (a secret whose record is gone, a password of another proxy, has its deletion ahead), `PutsOK`, `DelsOK`, `StoresOK`, `RestoresOK` (each call finds what it relies on, by a call before it if not yet), `UndoOK` (what a failure would call instead restores the same), `LinksOK` (a link leads to a record or, in an import for sharing, to one whose save is ahead). An import has besides the order of its phases (`PhasesOK`), what it has brought so far (`Brought`), whose credentials are not there yet (`SourcesOK`) and what each sweep still has to write (`SweepOK`). The five kinds of call are one lemma each about any list of calls; of a command there remains that the list it starts is a good one |
| `SessionProofs!TerminalIsHonest` | `TerminalHonest` | `TermInv` adds `StartIsCurrent` and `ConnIsCurrent`: whatever a start still holds belongs to the generation that may use it |
| `SessionProofs!NothingIsLeftBehind` | `NothingLeftBehind` | `ScriptInv`: `ManagerSound` (each live run has pushed its filter once, who blocks the keyboard lives, one run is registered), `Watched`, `CallsFresh` (a call has its run only from its own registration) |
| `SessionProofs!TranscriptIsIntact` | `TranscriptIntact` | `TrInv`: `TrControl` (a batch is in flight only under the asynchronous drain, which neither the synchronous drain nor a retry of `close()` ever meets) and `TrText` (`TextSound` of the generations, of the text destined for the live file and of the writes without a place). The steps follow from lemmas about the text alone: where a write may be parted (`WholeWritesApart`, `MoveOn`), a rotation (`RotationSound`), the cap (`CapText`), a new write (`Bring`), a partial append (`Appended`) |
| `SessionProofs!LocalProcessesAreSound` | `LocalSound` | `LocalInv`: `SessionsSound` (a young session of a server is active; a record the user did not end is active; who is being stopped was told to by the user and works no more) and `DeskSound` (one active session at most; a restart is pending only while there is none) |
| `RemoteFilesProofs!WatchIsSound` | `WatchSound` | `WatchInv` adds `ProbeOnce`, `AskedOnce` and `StreamLives`: one probe, one question and one live stream at a time, each of the latest generation |
| `RemoteFilesProofs!SftpIsSound` | `SftpSound` | `SftpInv` adds `LeaseFresh` and `KnownVersions`: a lease is named by the connect that took it, and no listing is newer than its directory |
| `RemoteFilesProofs!ExplorerNeverGoesBackward` | `NeverBackward` | `CwdInv`: `ReportsSound` (tracked records are the latest reported) and `PendingSound` (what waits, is debounced or looked up is no newer than what is tracked) |

The assumptions are the named `ASSUME`s of the model modules: bounds are natural
numbers, sets of names are finite where they are counted, null values are not
names, a limit of the semaphore is positive. Seven say more: `StaticAssumption`,
that two devices have no static reservation of one address, is what
`parseStaticReservations()` enforces (`networkServerConfigValidation.ts:223-256`);
`TunnelAssumption`, that a reverse tunnel is shared, is how the profile is read;
`HostAssumption`, that there is at least one attempt, is the fallback to the
bundled daemon; `PopulationAssumption`, that no gateway link is broken when the
window starts: `initialize()` takes the stored maps as they are, so the code keeps
this and does not establish it; `PathAssumption`, that the set of folder paths in
play is closed under dissolving a folder; `DiskAssumption`, that the macros an
earlier release left have ids, some of them perhaps the same (souls are history,
so that they differ is how they are named); `RecPopulationAssumption`, that the
records a window starts with have their links and no secrets of others, and that
the passwords in a file are of the proxies in it: again the code keeps the first
and does not establish it, and the second is what its own export writes. TLC evaluates all of them in the runs.

The proofs share a layout. The type of a record is a named set; lemmas about the
operators that change one record (a promise settled, a session ended, a caller
granted) say in isolation what they preserve, and each action cites them. One
lemma per action, under it one step per conjunct the action can disturb, and a
theorem whose last step combines them by temporal logic.

What stays with TLC:

- every liveness property (`EveryCallEnds`, `PoolProgress`, `StopCompletes`,
  `TransferEnds`, `RegistryConverges`, `AdmissionsReturn`, `EveryRunEnds`,
  `CloseReleases`), which rests on fairness and ENABLED;
- `ImplementsFifo`: its refinement mapping is `SelectSeq` over the array, a
  recursive definition, and facts about it need induction over sequences;
- `FileIntact` and `HonestOutcome`: sequence numbers modulo the block space and
  sums over windows, which need induction over a transfer's data;
- `TransferSound`: it compares the records at the end of an import with those
  before and with the file, which takes an account of every phase by every record;
  `RecordInv` has only what the links and secrets need of it.

## 5. Disagreements between the code and its documentation

Two are runs that expect a violation, with an entry of `findings` in
`PROJECT.json`:

1. `services/inventory/syncEngine.ts:2131` - the host is chosen for the device's
   protocol, the protocol is written only if the port is the sync's too: a server
   with a port set by hand gets the ssh host and stays a telnet server
   (`sync_plan_address`).
2. `services/scripts/scriptRuntimeManager.ts:309` - `stopScript()` terminates the
   worker, whose exit event comes first and ends the run as failed, without the
   reason of the stop (`script_stop`).

Further sentences of the code or the documentation that the models contradict.
Each is a definition next to the properties, with the sentence it states; no run
lists it, and TLC finds its counterexample when a cfg does:

| Definition | Says | What happens |
|---|---|---|
| `Semaphore!RetentionBound` | `readSlotScheduler.ts:86, 162`: the array never exceeds 2 * live + 1 | true in the scheduler (checked and proved there); of the semaphore alone false: one holder, four waiters, cancel the last two, release twice |
| `SshConnectionPool!FreshParameters` | `pooledConnectionParams.ts:5-8` | `invalidate()` does not see a pending connect, which is pooled with the old parameters |
| `SshConnectionPool!LastLeaseDisposes` | `sshConnectionPool.ts:307-309` | a lease disposed during its fallback releases twice; the connection closes under another lease |
| `TunnelManager!SingleSharedConnection` | `docs/functional-documentation.md:27, 174` | no pending promise guards the shared connection; two clients make two |
| `TunnelManager!ReleasedWithTunnel` | `README.md:57` | a shared connection that comes up after the stop stays open (`tunnelManager.ts:545-547`), as does that of a refused remote forward |
| `TftpTransfer!CompleteMeansDelivered` | `TransferSession.ts:16`, `TftpEngine.ts:1025` | a repeated ACK(0) counts as the final ACK (`TransferSession.ts:532`), which ends a download whose last block is out before it has arrived. `HonestOutcome` leaves out exactly that, and uploads whose recovery the code does not support |
| `TftpTransfer!AllRetriesUsed` | `TransferSession.ts:274-280` | the inactivity limit overtakes the backoff |
| `TftpEngine!AnnouncedOnce` | `TftpEngine.ts:193-194` | a failed last write announces an upload a second time, after its end was announced (`TftpEngine.ts:957`) |
| `DhcpLeases!StopKeepsLeases` | `DhcpEngine.ts:551` | `stop()` writes the table and then closes the socket; what is granted while that write is under way is not in the file (a lease granted in between is lost to the next start) |
| `NexusCore!RollbackComplete` | the rollback's comment: "this batch is supposed to have had NO effect" | without `configMutationLock`: a server whose folder existed only through it comes back without its folder, and a pruned folder stays away when its parent went with an earlier rollback. `RollbackExact` therefore asks that the parents are there |
| `InventorySync!StatusNeverRegresses` | `syncNow()`'s comment: "no other sync/edit/remove races it and refreshStatus skips it" | the status a sync fetched before it waited for the lock replaces what a refresh has shown since |
| `ScriptRuntime!OneScriptPerSession` | `docs/scripting.md:896` | a run that replaces another waits for its end; a start in that time runs too, and both are alive |
| `SftpService!RenameForgets` | the invalidation around `rename()` (642-655) | the listing of a renamed directory stays cached under the old name |
| `SftpService!InvalidationLasts` | `sftpService.ts:907`: "the listing cache is stale either way" | a listing that was being read when it was invalidated is cached all the same (line 288). `ListingCurrent` leaves out exactly these (`raced`) |
| `RemoteWatch!EveryWatchCounts` | `fileExplorerTreeProvider.ts:1025-1028` | a `watch()` that comes while the first one probes is lost, and nothing is watched |
| `CwdSync!BufferLatestWins` | `cwdSyncCoordinator.ts:187-192, 577-581` | a report withheld while the view was hidden replaces a newer one withheld while the explorer was busy (line 592) |
| `MacroStore!EmptyNeverStored` | `vscodeMacroStore.ts:45-46` | a save that stores the secret and is then refused leaves the list with the empty text and no longer marked unresolved; the next save writes the empty text |
| `MacroStore!WrongIndexNeverActedOn` | `macroMutation.ts:85` | with two macros of one id, a reorder during the prompt makes the reference name the other one; so does, also with an id that was unique in the list shown, a save of an older list that was still waiting (`mutateMacro()` reads `getMacros()`, not what is queued). `RightMacro` therefore asks that the macro had its id for itself in the waiting lists too |
| `Records!LinksResolve` | `nexusCore.ts:348-349` | an import rejected in the middle leaves records whose gateway or profile it did not come to: the import of a share file, too, saves a server before the gateway it names (`configCommands.ts:2221-2244`); so do dialogs that were open during a deletion. `FreshLinksResolve` leaves these records out (`stale`) |
| `ConfigTransfer!PasswordsDeleted` | `configCommands.ts:3214` | the reset deletes the passwords of the records there are; those of records that an import removed stay |
| `SerialPorts!EveryPortKnown` | `serialSidecarManager.ts:154-161` | a port whose open request timed out before the answer stays open and belongs to nobody |
| `SerialPorts!HeldIsShown` | `serialCommands.ts:302-306`: finds the terminal that holds a path | a removal or a disconnect deletes the entry at once (749-754, 852-867), VS Code closes the terminal later: until then no entry shows its port, and a reconnect in that time (521-526) sets none. `ShowsItsPort` is therefore about the entries |
| `SerialPorts!StatusHonest` | `smartSerialPty.ts:566-571` | a session that is stopped while its port is saved to the profile is shown as connected |
| `SerialPorts!RemovedStays` | `serialCommands.ts:496-504` | a terminal that was open saves its removed profile again |
| `LocalProcesses!RecordsEnd` | `localServerManager.ts:653-668` | a terminal closed before its process was spawned leaves its record |
| `LocalProcesses!RowBounded` | `README.md:545` | the late end of an earlier stop clears the counter of the new run's restarts (with more sessions than the run has: 5) |
| `LocalProcesses!EveryShellShown` | the list of shells | a shell that is removed from the list before it spawns runs unlisted |

## 6. Plan

Theorems: `TransferSound`, from `RecordInv` and, for each phase of an import, the
records it has written, has still to write and leaves alone.

Models: the inventory's provider clients and fast path, the connect commands,
macro triggers, the settings guard, the password caches of elevated writes, and
the workers' requests to the script runtime.

## 7. Left out

Byte formats (TFTP and SOCKS5 packets, JSON lines, escape sequences), path and
text processing, HTML and tree views, forms, and the provider clients of the
inventory are not modelled: they are pure functions over strings or I/O, and
their state is trivial. The Rust daemon is another implementation; the TypeScript
one is the reference here. Telnet is option negotiation with a single peer.
Elevated writes and what a script asks for while it runs (the requests that send,
wait and prompt) are candidates for later. In the modelled components, counters,
log lines and error texts are left out, and so is `stopAll()` of the tunnels,
which runs at deactivation. The notes of `components` say the rest.
