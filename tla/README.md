# A verification of codex-mcp-bridge in TLA+

codex-mcp-bridge lets coding agents (Codex, Claude, Antigravity) send work and
messages to each other on one machine. Its own logic is small processes, files
shared between them, and receipts that tell a sender what became of a message. The
hard promise throughout is the same: **at most once, and a receipt that does not
lie**, whatever crashes, times out or is asked for twice. This directory models that
logic, checks it with TLC and proves the core of it, in eight of the modules, with TLAPS.

Paths below are relative to the repository root.

## 1. Inventory of the system

| Component (source) | State it keeps | Operations | Hard behaviour | What makes it correct |
|---|---|---|---|---|
| Background relay daemon (`src/background-relay.mjs`, `-daemon`, `-config`, `-storage`) | receipt files, receipts in memory, slots, capabilities, `accepting`, exit request | enqueue, schedule, execute, drain, poll, stop, initialize | crash between any two writes, a write that fails after its rename, repeated request IDs, a pump callback pending while a timer fires | a request is started at most once; receipts on disk and in memory are right; nothing accepted is forgotten; slots and limits; drains end |
| CLI worker adapters (`src/background-*-worker.mjs`) | phase of one worker process | run, accept, settle, time out | the prompt may or may not have been taken when the process dies | the delivery state on every error path |
| Relay service (`src/background-relay-service.mjs`, `-registration`) | lock file, child, back-off | start, restart, drain poll | two services after one stale lock; a late drain | one daemon; it comes back |
| Relay client and protocol (`src/background-relay-client.mjs`, `-protocol`, `-mcp`) | one connection | handshake, call | answer lost after the effect | a timeout never says "not sent" |
| Queued Claude delivery (`src/queued-claude-delivery.mjs`) | a directory of entries and claim files shared by all bridge processes | enqueue, sweep, claim, dispatch, settle | read-then-write by several processes, stale claims, crash after the socket write | at most one write to a socket; truthful receipts; one at a time |
| MCP supervisor (`src/mcp-supervisor.mjs`, `reload-control`, `current-install`) | active and candidate worker, request queue, pending requests | request, reload, recover, flush | requests during a reload; a worker that dies with requests pending | each request answered exactly once, none replayed |
| Release snapshots (`src/release-snapshot.mjs`, `file-identity`, `install-paths`) | snapshot directories, leases, prune lock | lease, prune, take over the lock | lease between check and rename; two takers of a stale lock | a leased snapshot is never deleted |
| Reply forwarder (`src/reply-forwarder.mjs`) | queue, counters | enqueue, forward, close, hand over on reload | closing while an await is pending | every reply ends in one status |
| Desktop-task, native-creation and reply receipts | receipt files and locks | reserve, confirm, release | a lock whose owner died, a truncated file | at most one creation |
| Codex app-server client (`src/app-server-client.mjs`, `turn.mjs`) | socket epoch, active turns | connect, start, observe, reconcile | late answers, early completions, lost sockets | one unresolved turn per thread |
| Codex thread delivery (`src/thread-delivery.mjs`) | backend choice, thread lock | send, create | a deadline passes while the work goes on | no fallback after an uncertain send |
| Peer protocol and Claude bridge (`src/peer-protocol.mjs`, `claude-bridge.mjs`, router) | per-socket queues, pending replies | send, wait, match a reply | uncertain writes, replies that arrive late | a retry only before the first byte |
| Native relay and companion (`src/native-relay.mjs`, `native-relay-companion`, `native-relay-files`) | one connection per request, the companion's mode, a shared socket path | connect, check, write, answer; reload, shut down; bind, link, probe, remove | either side may go at any await of the other | one execution per request, one owner of the path |
| Antigravity bridges (`src/antigravity-*.mjs`) | receipts of a sidecar, sessions of the command line, outbound deliveries | deliver, observe, start, send, close, hand on | a sidecar that leaves work behind, a child that will not die, checks that are stale when used | handed over once; capacity holds; accepted only as checked |
| Remote access and site connector (`src/remote-codex*.mjs`, `sites-connector.mjs`, `sites/codex-bridge/worker`) | receipts, a journal, rows of the hosted queue | send, claim, journal, dispatch, upload | retries after timeouts, crashes, a lost upload, a disconnect | one dispatch per request ID, true answers |
| Setup and update (`scripts/update.mjs`, `scripts/install-background-relay.mjs`, `src/background-relay-registration.mjs`) | package, relay, task and configuration of the machine | stage, migrate, install, register, roll back | a crash at any step, another writer of the same file | an update is repeatable and never undone; nobody's edit is lost |
| Project policy, sender contexts | a policy file, identity lookups | capture, recheck | a grant that is revoked while work waits | checked again at the last moment |
| Transcript and rollout reading (`src/codex-native-response.mjs`, in `peer-protocol.mjs`) | none; the file grows | find the reply to one message | lines out of order, cut off, of other people | the message's own reply, and it is found |
| Tool server, telemetry | none of their own | dispatch, report | - | not protocol state |

How they interact. A sender's tool call arrives at the MCP tool server inside the
supervisor's worker. A message for a running Claude session goes through the peer
protocol; for one that is not running it becomes an entry of the queued-delivery
directory, which the worker inside that session drains. Work in the background goes
over a local socket to the relay daemon, which starts CLI workers; those may delegate
through the same daemon with their capability. The service keeps the daemon alive and
replaces it after an update, and all of them run from leased release snapshots. The
project policy is consulted by all of these. `PROJECT.json` lists each component with
its status and, under `hazards`, each place where this code is hard to test.

## 2. The modules

| Module | Code | State and actions |
|---|---|---|
| `WorkerLedger` | the abstract promise of the relay | one stage for each request: absent, owed, started, settled |
| `Delivery` | the abstract promise of every way of sending | how often a message was delivered, what its sender was told |
| `BackgroundRelay` | `src/background-relay*.mjs`, the adapters | receipts on disk and in memory, the phase of `execute()`, workers, capabilities; one action for each handler and each await |
| `RelayService` | `src/background-relay-service.mjs`, the daemon's start and end | lock and socket files, services, the daemons they forked; interleaved at every file operation |
| `RelayWire` | `src/background-relay-client.mjs`, `-protocol`, the connection handler of the relay | phases of a call, two one-place pipes, the server's side; an impostor when no relay listens |
| `RelayUpdate` | `scripts/update.mjs`, `scripts/install-background-relay.mjs` | package roots, relay record, task, configuration, the step of each updater; crashes, users and other updaters between any two |
| `ConfigEdits` | `configureBackgroundWorkerMcp()` of `src/background-relay-registration.mjs` | the two files with their identities, snapshots, what each setup replaced; read, check, rename, verify, and back |
| `Supervisor` | `src/mcp-supervisor.mjs`, `src/reload-control.mjs` | active and candidate worker, queue, pending requests, control commands; one step for each stretch between awaits |
| `Snapshots` | `src/release-snapshot.mjs` | snapshot directories, leases, temporaries, the prune lock; users and pruners as processes |
| `QueuedDelivery` | `src/queued-claude-delivery.mjs` | entries, claims, the place of each drain and sender; reads and writes apart |
| `PeerDelivery` | `PeerEndpoint` of `src/peer-protocol.mjs`, the send tool of `src/claude-bridge.mjs` | the endpoint's maps, calls, the session's side, frames, reloads |
| `TranscriptOutcome` | `readTranscriptOutcome()` of `src/peer-protocol.mjs` | a file that grows; the fold as recursive operators, against a reference definition on the tree |
| `ReplyForwarder` | `src/reply-forwarder.mjs` | queue, timer, status of each reply, reloads |
| `TaskCreation` | `create()` of `src/thread-delivery.mjs`, the receipt and lock files, the companion's native receipts | calls, lock, receipt, native receipt, Desktop, which acts late |
| `ThreadQueue` | `send_to_codex_thread`, `withThread()`, `request()`, `#roundTrip()`, `src/relay-wake.mjs`, `desktop-reply-receipts.mjs` | a task's operations in order, each with its deadline, attempts and receipt |
| `NativeDispatch` | `deliver()`, `src/native-relay.mjs`, `src/native-relay-companion.mjs` | a request over two connections, the companion's lifecycle |
| `RelaySocket` | `RelaySocketServer`, `src/native-relay-files.mjs` | the shared path, each companion's private socket |
| `ReplyWait` | `wait()` of `src/thread-delivery.mjs`, `src/codex-native-response.mjs` | the rollout file and its readers |
| `AppServerTurns` | `src/app-server-client.mjs`, `src/turn.mjs` | the client's entry for a thread, an ordered channel, the server's turns |
| `RemoteHandoff` | `src/remote-codex.mjs`, `remote-codex-tools.mjs` | calls with one request ID, the handler's steps, the native receipt |
| `SiteConnector` | `src/sites-connector.mjs`, `sites/codex-bridge/worker/index.mjs` | rows of the queue, the journal, connectors that die and come again |
| `AntigravityDelivery` | `src/antigravity-sidecar.mjs`, `-deliveries`, `-desktop`, the bridge's delivery tools | sidecars, receipts, a native command that outlives its sidecar |
| `AntigravityCli` | `AntigravityCliSession`, the session tools of `src/antigravity-bridge.mjs` | sessions, their child processes, the places they hold |
| `AntigravityOutbound` | `src/antigravity-outbound-bridge.mjs`, `-targets`, `src/claude-session-router.mjs` | sends between whose awaits the account, permissions and recipient change |

`Host`, `Codex`, `Claude` and `Remote` are the suites: each takes the components of one side
together, as parameters only; `MCHost`, `MCCodex`, `MCClaude` and `MCRemote` are their instances
for TLC (section 3). `BackgroundRelayProofs`, `QueuedDeliveryProofs`, `ThreadQueueProofs` and
`SupervisorProofs` hold the proofs about the module each is named after, `HostProofs`,
`CodexProofs`, `ClaudeProofs` and `RemoteProofs` those about a suite and about its other components.
The `map` of `PROJECT.json` gives for every definition the lines it stands for.

Conventions. An operator whose name ends in `Mutant` is a wrong version of the
operator after it, never used by the specification; it records a plausible bug that
the named property must catch. Variables marked *history* or *external* in a module
are not program state: they record what happened, or the world outside the process.

Grain. Each of these programs is single-threaded JavaScript: one action is the code
between two awaits. Where several processes share files (`QueuedDelivery`,
`RelayService`, `Snapshots`, `RelaySocket`, `TaskCreation`, `ConfigEdits`), one action is one
file operation, or several of which no other process can tell the order.
What happens inside Codex Desktop, Claude Desktop, Antigravity, the operating system
and npm is external: it does at any time what the code is prepared for.

### One promise, four ways of sending

`Delivery` says in two variables what a sender may rely on: a message is delivered at
most once; its sender gets one answer; "delivered" is said only of what was delivered; what is
said not to be sent never will be. While the answer is "unknown" the message may still arrive, for as
long as it takes. `ThreadQueue` (a prompt that waits its turn in the bridge), `NativeDispatch` (a
request on its way to Desktop), `RelayWire` (a job on its way to the relay) and `PeerDelivery` (a
message for a Claude session) each have a `Promise == INSTANCE Delivery WITH ...` that reads the two
variables off their own, and `KeepsPromise == Promise!Spec`, which TLC checks and TLAPS proves.
Deadlines, lost connections, repetitions, reloads and crashes are steps that change neither
variable. The mappings leave out what the answer does not promise: a receipt from the wire may be
that of another call for the same job, a "not sent" from the wire may be about a receipt whose write
threw after its rename (`late`, refuted in section 3), and a reply to a message is the subject of
`OwnReply`, so all three count as "unknown" here.

### Notes on single modules

* **BackgroundRelay.** `writeRelayJson` succeeds, throws before its rename (the old
  file stays) or throws in the verification after it (the new file is there). Each
  write has these outcomes, with what its handler's catch does; an enqueue whose
  file was not written has no effect at all and is not a step. The poll timer can
  fire before a pump that was requested from a timer, a close callback or the pump
  itself, and not before one requested from an I/O callback: `loop` distinguishes
  `"later"` from `"soon"` for this reason.
* **QueuedDelivery.** `transition()` is two steps, the read with its comparison and
  the write; so is `enqueue()`. A sweep's look at the age of a claim and its removal by
  name are two steps (`Sweep`, `Unclaim`), and `robbed` names the entries whose claim was
  taken by another drain in between. Expiry may come between any two steps. The other
  limits are five minutes and more, longer than any synchronous block, so they pass
  only while every process is at an await; a process suspended in the middle of
  a block for five minutes is not covered.
* **Supervisor.** A control command stays in the worker's chain when the supervisor
  gives up waiting for it, and nothing orders it with requests on stdin.
* **PeerDelivery.** One recipient. The three turns of `drainPendingAccepts()` are
  taken to be enough for the connections that have been made.
* **TranscriptOutcome.** The only module with RECURSIVE operators; the reference
  definition speaks of the tree of entries and knows nothing of their order.
* **RelayWire.** `enqueue()` writes the receipt and then knows of the job. A write that throws
  before its rename has no effect; one that throws after it leaves a file that the relay
  finds when it is started again, whatever it told the caller (`Enqueue`, `Start`).
* **RelayService.** `robbed` names the services whose lock, `cut` the daemons whose socket was
  removed by name by another; a daemon whose exit was requested reads no configuration any more.
* **ReplyWait.** A caller repeats a prompt only after its reply; a steering message
  into a turn that is not in the file yet is answered "unavailable".
* **AppServerTurns.** That the server refuses a second turn is an assumption on it. With
  `Crowded = FALSE` other clients begin turns only while this one does not hold the thread,
  which is what `OneTurn` needs (section 3); `OwnAnswer` does not need it.
  The mark `needsReconcile` that a disconnect sets is redundant (the epoch says the
  same), and a refusal of `turn/start` that comes after its timeout leaves the thread
  busy until the connection ends: the model keeps both.
* **SiteConnector.** A change of account shows as a failure of the dispatch; a torn
  journal entry fails closed.
* **AntigravityDelivery.** A pending receipt of a dead or other sidecar is given a new
  report ID by each `read()`, so `refresh()` never reports it; the second observation
  of the bridge does.
* **RelayUpdate.** Windows, where the running relay holds the package open.
* **ConfigEdits.** No file system replaces a file only if it is unchanged, so the
  window between a check and the rename it is for is in the model, and
  `EditsAreKept` excepts by name (`missed`) the edits made in it. Two setups at once may leave
  one of them "configured" whose entry the other rolls back; nothing is claimed there
  beyond the two properties.

## 3. What is checked

### How a run is built

The relay has its own MC module. The other components are checked in four suites.
A suite is a module that EXTENDS one component, instantiates the others over renamed
variables and has all their constants as its own; its MC module gives them values:

| Suite | Components (the extended one first) |
|---|---|
| `Host`, `MCHost` | `ConfigEdits`, `Supervisor`, `RelayService`, `RelayWire`, `RelayUpdate`, `Snapshots` |
| `Codex`, `MCCodex` | `TaskCreation`, `ThreadQueue`, `NativeDispatch`, `ReplyWait`, `AppServerTurns`, `RelaySocket` |
| `Claude`, `MCClaude` | `QueuedDelivery` with several drains, `QueuedDelivery` with one ("solo"), `PeerDelivery`, `ReplyForwarder`; only in `MCClaude` also `TranscriptOutcome` |
| `Remote`, `MCRemote` | `RemoteHandoff`, `AntigravityDelivery`, `AntigravityCli`, `AntigravityOutbound`, `SiteConnector` |

The variable `part` is chosen initially from `Parts` and names the component that takes
steps; the others stay in one initial state. The reachable states are therefore the
disjoint union of the components' own state spaces, not their product, and an
invariant of one component is evaluated on all of them. This loses no behaviour of a
component. It also composes nothing: the components of a suite meet through
interfaces that each module states for itself (what `ThreadQueue` says of a written request is
what `NativeDispatch` shows, and so on), and a behaviour in which, say, a
reload of the worker and a take-over of the relay's lock happen together is not explored.
Inside the modules the interacting parts are composed: `TaskCreation` has the bridge
and the companion, `RelayWire` both ends of the wire, `SiteConnector` the site and the
connector, `PeerDelivery` the endpoint, the tool and the session, `BackgroundRelay`
the daemon, its adapters and their processes.

The values of the constants are in the configurations, `_safe` for invariants and `_live` for
liveness. `SuiteSpec` has no fairness; `FairSuite` adds to it the fairness of each component's
`FairSpec`, while it is the one that runs.

### Passing runs

| Run | Distinct states | Shows |
|---|---|---|
| `relay_faults` | 1.2 million | `TypeOK`, `AtMostOnce`, `ReceiptsAreTruthful`, `AcceptedIsDurable`, `NoCircularWait` (parents, children and slots); `ImplementsLedger`: the relay refines `WorkerLedger` |
| `relay_live` | 413 thousand | `EverySettles` |
| `host_safe` | 1.7 million | `EditsAreKept`, `AllOrNothing` (configuration); `Supervised` (workers and requests of the supervisor); `KeepsPromise` (wire); `OneOfEach` (relays, lock holders, one handling of a call); `UsedIsKept` (snapshots); `HandsOver` (reloads of the supervisor, updates) |
| `host_live` | 176 thousand | `EveryAnswer` (also of what waits through a reload of the supervisor), `Recovers` |
| `codex_safe` | 1.9 million | `CreatedOnce`, `TruthIsTold` (creation); `KeepsPromise` (queue of a task, dispatch); `InspectionHolds` (queue of a task); `OwnReply` (reply wait, turns); `OneTurn` |
| `codex_live` | 254 thousand | `KeepsPromise` with other bounds, `EveryCallEnds`, `EveryReload` (creation, companion and its path) |
| `claude_safe` | 1.7 million | `AtMostOnce` with racing drains, `ReceiptsAreTrue` with one; `KeepsPromise`, `OneOutstanding` (peer); `ReplyIsRight` (transcripts); `RepliesAreKept` (peer over reloads, forwarder) |
| `claude_live` | 144 thousand | `OwnReply` with a session that also sends unasked; `EverythingSettles` (queue, notices, forwarder) |
| `remote_safe` | 1.5 million | `AtMostOnce`, `TellsTheTruth` (hand-off); `HandedOnce`, `ReceiptsAreTrue` (site, Antigravity); `PlacesHold` (command line); `AcceptedAsChecked` (outbound) |
| `remote_live` | 85 thousand | `EveryCallEnds` |

Each property is preceded in its module by what it says and about which code. A
property of a suite is a conjunction of its components' properties about one hazard.

### Disagreements between the code and what it says

Two runs are refuted by TLC and listed under `findings` with the sentence they
contradict:

* `drain` - `DrainInterruptsNothing`: the poll decides to exit because no worker is
  active while a pump is pending; the pump starts a worker, and `exit()` kills it.
* `stopped` - `StoppedIsTrue`: two connectors serve one pairing; `recover()` of the second takes
  the started entry of the first, which still runs the job, for that of a dead one and uploads
  "The connector stopped after claiming this request".

The following were found in the same way. Each property is stated in its module, so
a configuration with the named bounds shows it again. Most windows lie between two file
operations. `NeverSentTwice` and `OneRelay` make something run twice: a message, a relay on one storage.

| Property (module) | Instance | What happens |
|---|---|---|
| `NotSentIsTrue` (`RelayWire`) | 1 call, 1 stop | The write of a new receipt throws in its verification after the rename; the caller is told `not_sent`, the file is queued, and the relay runs it when it is started again (`background-relay-config.mjs:54`, `background-relay-storage.mjs:182`). |
| `NoRunAfterClosed` (`BackgroundRelay`) | 2 requests, 1 failed write | The last write of a refused job's receipt fails; clients read `unknown`, the file says `queued`, and the next daemon runs it (`background-relay.mjs:268`). |
| `NeverSentTwice` (`QueuedDelivery`) | 1 entry, 2 drains of one session, 1 crash | A drain dies with its claim. Two others find the claim stale; one removes it and claims the entry, the other then removes this claim by name, claims the entry too, and both pass `transition()` (`queued-claude-delivery.mjs:202`). |
| `SettledStays` (`QueuedDelivery`) | 1 entry, drains of 2 sessions | A dispatch that fails after more than five minutes and another session's sweep both read `dispatching`; `queued` overwrites `unknown` and the message is sent later (`queued-claude-delivery.mjs:142`). |
| `ReceiptsAreTruthful` (`QueuedDelivery`) | the same, at the expiry | A receipt says expired and not delivered, for a message that is delivered (line 223). |
| `LimitsHold` (`QueuedDelivery`) | 2 senders | Both find room for one more entry (line 169). |
| `UpdateActivates` (`Supervisor`) | 1 request, cancelled | A cancelled request is never answered by the worker's SDK and never removed from `clientPending`, so no update is activated until the worker exits (`mcp-supervisor.mjs:458`). |
| `HolderNotRobbed` (`RelayService`) | 3 services, 1 crash | Two services find the lock of a killed one stale; the second removes by name the lock the first has just taken (`background-relay-service.mjs:155`). |
| `OneRelay` without its exception (`RelayService`) | 2 services, 2 kills | The same for the socket file, between a surviving daemon and a new one (`background-relay.mjs:292`). |
| `CreationNotShared` (`ReplyWait`) | 1 creation, 1 send | The reader of a created task counts creations only, so the answer of the turn that the creation began is returned although another prompt was sent into it (`codex-native-response.mjs:295`, `:421`). |
| `UsedIsKept` (`Snapshots`) | 1 user, 1 pruner that is killed | A runtime renamed away is swept by the next pass although it was leased in between (`release-snapshot.mjs:459`). |
| `OneTurn` (`AppServerTurns`) | 2 calls, 2 turns, `Crowded = TRUE` | Another client's turn is on its way when ours is asked for: the entry takes its ID and goes with its end; when the answer to `turn/start` then comes late, the next send asks for a turn while the timed-out one runs, although "timed-out or disconnected turns require state reconciliation before another turn starts" (`CHANGELOG.md:1352`, `app-server-client.mjs:388`). |
| `OneOutstanding` (`PeerDelivery`) | no transcript, 2 messages, 1 unasked | An unasked message releases the pending one, and the next send is written before its answer (`peer-protocol.mjs:914`). |
| `NotStolen` (`RelaySocket`) | 2 companions, 2 kills, 1 stop | A companion removes by name the socket that another has just linked (`native-relay-files.mjs:76`). |
| `GivesBack` (`AntigravityCli`) | 1 session, 1 prompt | `close()` keeps its first promise; when the child outlives both waits the session stays "closing" and keeps its place (`antigravity-cli.mjs:235`). |
| `ChoiceIsTheUsers` (`RelayUpdate`) | 2 updaters, 2 toggles, 1 repetition | A task that setup registered as disabled is later read as the user's choice (`install-background-relay.mjs:416`), and a switch made between the installer's query and its registration is overwritten (`:251`). |
| `Recovers` (`RelayUpdate`) | 2 updaters, 2 faults, 1 prune | When the task was registered for another root and the installer then stopped, every repetition ends in `UPDATE_SERVICE_UNVERIFIED` (`update.mjs:233`). |
| `NoDowngrade` (`RelayUpdate`) | `Together = TRUE`, 2 updaters | Versions are compared only at the preflight; an older package replaces a newer one (`update.mjs:174`). |
| `ChangesPreserved` (`ConfigEdits`) | 1 setup, 2 edits, 1 failure | An edit in the window is lost while the message says it was preserved (`background-relay-registration.mjs:81`). |

The passing runs exclude exactly these, by name or by the constants of the suites. `AtMostOnce` of
the queue excepts entries whose claim was removed under its owner (`robbed`), `HolderHasLock` and
`OneRelay` of `OneOfEach` the owners whose lock or socket was (`robbed`, `cut`), the wire's promise
a write that threw after its rename (`late`), and `NotShared` the reply to a creation; `host_safe`
and `claude_safe` have the services, drains and crashes in which the excepted cases happen, so that
everything else is checked after them. `ReceiptsAreTrue` is stated for one draining process,
`HandsOver` with updaters one after another.

### Bounds, and why they are enough

Every bound is a constant or a parameter of an INSTANCE named `Max...`, `Attempts`,
`Faults`, `Toggles`, `Prunes`, `Repeats` or `Limit`. They bound faults of the whole
behaviour (failed writes, crashes, lost answers, account changes, reloads) and never
what the code itself does. A fault matters in combination with at most one other (a
failed write and the crash that makes its file count; two failed writes of one
`execute()`; a kill and the take-over it provokes), so one or two of each kind reach
every pair.

* *Relay.* Three requests are a parent with two children, or a parent, its child and a request that
  competes with it for the two slots, of which each agent has one: a parent that delegates to its
  own agent would wait for itself, two parents for each other. While all three are stored there is
  at most one failed write, crash or stop (the state constraint `Within`); with two stored two failed
  writes, a crash and a stop come in every combination. The limits are as small as lets each be reached, since all
  comparisons are with a count.
* *Queue.* One entry and three drains, of which one belongs to another session, give every race of
  two drains and a sweep, also the one for a stale claim; two entries with one drain and one sender
  give order, limits and duplicates. `MaxAttempts = 2` has one retry and one last attempt.
* *Supervisor.* Two calls (`host_safe`) or one (`host_live`) with one update, one fault and one or
  two recoveries: a call can arrive before, during and after a reload that fails at any step.
* *Processes.* Two pruners, companions, connectors or setups: each take-over has
  one that goes and one that comes. Three services with two kills: two that take over the lock
  of a third.
* *Peer.* Two messages with one reload (`claude_safe`); one message with two reloads and
  an unasked message of the session (`claude_live`).
* *Transcripts.* Three fixed lines, the message with the task that was started for it, and every
  order of up to two more, at any place of the tree, over the kinds the code tells apart.
* *Turns.* Two calls and three turns: with two, the case in which another client's turn precedes
  both of ours does not occur.
* *Site.* Two jobs of one request ID with one fault of the network (`remote_safe`) at a claim,
  a heartbeat or an upload; one job with two (`remote_live`); two connectors of one pairing without any
  (`stopped`).
* *Updates.* Three versions, two updaters, one failed step, two toggles by the user.

Symmetry is used in the runs of invariants only, for identifiers the specifications
compare for equality, and in `claude_safe` among the drains of one session. Deadlock
is not an error in these components: they stop when there is nothing left to do. The
runs of the relay check for deadlock.

### Fairness

Each `FairSpec` assumes only what the runtime gives: a callback or timer that is due
fires, an await that has a timeout ends, a process that was told to end ends. All is weak
fairness unless it is said. Nothing is assumed of clients, users, workers' answers or disks.

| Module | Weakly fair |
|---|---|
| `BackgroundRelay` | the pump, the awaits of `execute()`, adapters (their timers reject), poll, stop, exit, the restart by the service |
| `RelayService` | steps of a service and of a daemon, the watch, a drain that arrives or times out |
| `RelayWire` | timeouts and the drop of a dead connection |
| `RelayUpdate` | the followed child, stop and launch of the relay, the updater's steps; the user repeats an update that failed |
| `Supervisor` | check, boot, control and its timeout, a retiring worker dies, a dead one is noticed, requests and messages of a live one |
| `QueuedDelivery` | a drain's tick, a sender's write, expiry; *strong*: five minutes pass at some moment at which every process is at an await (drains sleep fifteen seconds between ticks) |
| `PeerDelivery` | a send and its checks, the observation, the reload, accepted connections and their data |
| `ReplyForwarder` | timer, forward, rest |
| `TaskCreation` | the calls' work, the observer, the companion's start, repair |
| `ThreadQueue` | ticks, deadlines |
| `NativeDispatch` | timeouts and expiry of both waits, fall-back, activation, quiescing, exit |
| `RelaySocket` | the start of a companion |
| `AppServerTurns` | the client's steps, its timeouts, the server's answers |
| `RemoteHandoff` | timeouts, the handler's awaits |
| `SiteConnector` | the connector's steps |
| `AntigravityDelivery` | start, delivery, rest, both observations |
| `AntigravityCli` | verification, send, start, clean-up, turn timeout, closing; a child dies once told twice |
| `AntigravityOutbound` | the steps of a send |

The liveness of `ReplyWait` (`Answered`) and `Snapshots` (`Reclaimed`) needs
strong fairness of several steps for each process, for the same reason as the
queue's five minutes: a poll must at some time fall between two writes. It holds in small
instances of each (one delivery; one user and one pruner) and is not part of a listed run.
Neither are these properties of the relay, which hold in instances of their own:
`NoStrandedWork`, `LimitsHold`, and `NoRunAfterClosed` without
faults (four requests, three slots, one per agent, delegation depth 2, no faults), and
`CapabilitiesExpire` and `DrainEnds` (the instances of `relay_faults` and `relay_live`).
With a failed write `LimitsHold` does not hold: a receipt that failed late is a
file the relay does not count until it restarts.

## 4. What is proved

For every value of the constants: any sets of requests, entries, drains, calls, setups,
accounts, files, and any number of faults.

| Module | Theorems |
|---|---|
| `BackgroundRelayProofs` | `TypeCorrect`, `StartedAtMostOnce`, `Truthfulness`, `Durability`, `Refinement` (the relay implements `WorkerLedger`) |
| `HostProofs` | configuration: `EditsSurvive` (`EditsAreKept`), `NothingLeftBehind` (`AllOrNothing`); supervisor: `WorkersAreSupervised` (`Supervised`); supervisor and update: `HandsOverForward` (the action property `HandsOver`); snapshots: `RuntimeIsKept` (`UsedIsKept`); wire: `SuiteKeepsPromise` (`KeepsPromise`: `RelayWire` implements `Delivery`), `JobOnce`, `JobNotSent` (`NotSentUnlessLate`), `JobToRelay` |
| `SupervisorProofs` | `Supervision` and its parts `OneAnswer`, `NotSentForGood`, `NothingReplayed`, `OneAtWork`, `NothingLeftRunning`; `HandsOver` (`HandsOverIdle`) |
| `CodexProofs` | creation: `OneCreation` (`CreatedOnce`), `Truthfulness` (`TruthIsTold`), `ReceiptGuards`; queue of a task: `SuiteInspection` (`InspectionHolds`); queue and dispatch: `SuiteKeepsPromise` (`KeepsPromise`: both implement `Delivery`); dispatch: `RequestsOnce` (`DeliveredOnce`), `RequestsNotSent` (`NotSentIsTrue`), `ReloadCuts` (`ReloadCutsNothing`); reply wait and turns: `SuiteReplies` (`OwnReply`), `RepliesAreOwn` (`OwnReply`, `NotShared` of `ReplyWait`), `AnswersAreOwn` (`OwnAnswer`); turns while other clients keep off the thread (`~Crowded`): `SuiteTakesTurns` and `OneAtATime` (`OneTurn`) |
| `ThreadQueueProofs` | `PromptsKeepPromise` (`ThreadQueue` implements `Delivery`), `ReachesOnce` (`SentOnce`), `NotSentForGood` (`NotSentIsTrue`), `InspectionKept`, `ReceiptsHold` |
| `ClaudeProofs` | queue: `SuiteSentOnce` (`AtMostOnce`), `SuiteReceipts` (`ReceiptsAreTrue`); peer: `SuiteKeepsPromise` (`KeepsPromise`: `PeerDelivery` implements `Delivery`), `NothingIsLost`, for a Desktop session `SuiteOwnReply` (`OwnReply`) and, with the forwarder, `SuiteKeepsReplies` (`RepliesAreKept`); forwarder: `RepliesOnceInOrder`, `SuiteForwards` (`OnceInOrder`) |
| `QueuedDeliveryProofs` | `TypeCorrect`, `SentAtMostOnce` (`AtMostOnce`); with one process that drains and one that enqueues: `ReceiptsTellTheTruth` (`ReceiptsAreTruthful`), `QueuedOnce` (`NoDuplicates`, `LimitsHold`) |
| `RemoteProofs` | hand-off: `TypeCorrect`, `SentAtMostOnce` (`AtMostOnce`), `Truthfulness` (`TellsTheTruth`); Antigravity and sites: `NothingTwice` (`HandedOnce`), `ReceiptsTellTheTruth` (`ReceiptsAreTrue`), `AForwardOnly` (`Forward`); command line: `PlacesAreKept` (`PlacesHold`); outbound: `AcceptedAsItWas` (`AcceptedAsChecked`) |

The assumptions are those stated beside the constants (`RelayAssumption`, and in a suite
`HostAssumption`, `CodexAssumption`, `ClaudeAssumption`, `RemoteAssumption`, which are those of
its components): sentinels that are not what they stand in for, bounds that are naturals, files
that have names, entries of setups that are not edits of others. `SuiteTakesTurns` also assumes
`~Crowded`, as its run does. What a suite fixes is fixed in its theorems too, and is what the
refuted instances of section 3 need: updaters follow each other, no pruner is killed, and the
receipts of the queue are those of one process (`Alone`).

A suite's theorem says of the property that its run checks that it holds in every behaviour
of the suite. Where a component is the subject of a proof module of its own, that module is
instantiated under the suite's substitution, and the instance of the component is shown to be the
same formula on both sides, definition by definition (`SameQueue`, `SameSupervised`).

*The arguments.* None of the properties is inductive as it stands.

* **Relay.** `AtMostOnce` does not say that a request that was started cannot be
  found queued by the pump or by `initialize()`. `IInv` adds what the code relies
  on without saying so: a started request is queued neither in memory nor in its file
  (`StartedIsNotQueued`); what memory knows has a file, and while the daemon lives a
  file it does not know of is one of a request never started (`MemoryKnows`); in
  each phase of `execute()` what memory, file and `runs` say (`PhaseAgrees`), above all
  that no receipt says `not_sent` once the worker may be given the prompt. One
  lemma per action; `Refinement` reads the stage of a request off its file and `runs`
  and uses `IInv` on both sides of the step.
* **Queue.** `SentOnce` says that an entry that was sent is not queued, and that no drain at work on
  it will send it or write it back as waiting. For that, no two drains may be at work on one entry
  (`OneEach`), and this holds because while an entry being dispatched is still queued in its file
  its claim stands (`ClaimHolds`): a claim is stale only after a duration that no synchronous block
  lasts, which is what `Awaiting` assumes of time. Once the file says otherwise the second read
  under the claim stops every other drain. All three except `robbed` entries, as the property does;
  with one process there are none (`Unrobbed`), since its sweep and its claim follow each other.
  `Fresh`: an identity not yet given is at nobody's hand.
* **Queue of one process.** Its receipts are true because what a drain writes over is what it has
  read, and it knows whether it has sent it (`Sure`); no text is queued twice or beyond the limits
  because what a sender read of the directory still holds when it writes (`Drafted`): between the
  two, entries only settle (`Settling`), so what counts becomes less, for each recipient too
  (`FewerCount`).
* **Task creation.** `Guarded` is the heart: whatever may still reach Desktop, now or
  after everybody stopped waiting, is named by the task receipt that stops every other
  call. It needs `Exclusive` and `UnderLock` (between the second look at the receipt
  and the end of the critical section nobody else writes it) and `NotYet` (a call that
  has not come to sending has nothing on its way); `TruthIsKept` adds that what the
  receipts and answers say of a task survives the steps of everybody else.
* **Remote hand-off.** `OneWorks`: at most one handler holds the reservation, under the
  account of the pending receipt; `SentAgrees`: its step says whether the prompt was sent,
  and without a reservation it never was; `CompletedIsSent`: a receipt is completed
  only after that, for good.
* **Antigravity and sites.** Each argument follows what was handed over through all hands. To
  Antigravity (`AInv`): a receipt is the sidecar's that works on it (`AOwned`), a native command that
  outlives its sidecar belongs to a receipt that will say so (`AHanded`), and a receipt moves
  forward only. Command line (`CInv`): a place is taken exactly while its session has a child
  or is about to have one (`CPlaces`), a session has one turn (`CTurn`), and what was not sent
  has reached no child (`CSent`). Outbound (`OInv`): what was checked is kept in the request's
  context, and each write compares it once more (`OCircumstances`). Sites (`SInv`): an entry of the
  journal says what the connector that died had done (`SBegun`, `SRight`), a job that nobody has
  claimed was handed to nobody (`SUntouched`), and what was uploaded is what was saved (`SStored`).
* **Configuration.** `SafeToWrite`: a setup that is about to rename, forwards or
  back, works from a snapshot that has every edit of the file except the missed ones.
  Forwards this is the check just before; backwards it follows from `OwnText`: a file
  that still has the identity of the setup's write has its text, so nobody's edit is
  in it that was not in the snapshot. `IdsAreFresh` keeps identities from
  being given twice. That a failed setup leaves nothing (`AllOrNothing`) needs another
  invariant, `AInv`: an entry of a setup is only where it has replaced the text (`Signed`),
  it replaces only texts without its entry (`Clean`), nothing before it has planned
  (`WritesLate`), and on its way back every file it has passed is rid of the entry
  unless the result says `incomplete` (`PutBack`). `Places` says where in the order of files
  a step may be. Its lemmas find the first and last of a set of positions by the
  well-foundedness of inclusion.
* **Update.** Neither the record nor what runs is newer than what the record leads to (`URecord`);
  an updater that goes on has found nothing newer than itself, and as updaters follow each other
  nobody else makes it (`UNewer`); its installer writes that version (`UTarget`).
* **Snapshots.** Who holds a lease has written it before it looked (`NHeld`); a snapshot that is
  in use is in place or with a pruner that looks at the leases again before it deletes (`NPlaced`,
  `NAgain`). A worker whose process was killed is covered by the lease that process left, until the
  pass that might take the snapshot is over (`NGuarded`): leases are stale only after an hour.
* **Thread queue.** Operations of one task follow each other (`Alone`: what has left the queue or
  not reached its head does nothing), so nobody but the running operation has written since it
  inspected the task (`OnlyMine`). An operation that may still write has nothing under way
  (`NothingOut`); it marks itself as dispatched before it writes (`MarkedFirst`); one that was told
  "not sent" at its deadline while it was still in the queue finds that out before it comes to
  sending (`ToldEarly`); and the receipt is there first (`ReceiptFirst`).
* **Delivery.** A refinement needs the inductive invariant on both sides of a step: one step
  either delivers one message, for which "not sent" was not said, or gives one caller its first
  answer, and what that says is read off the invariant after the step.
  For `ThreadQueue` one more conjunct is needed: what is under way was marked as dispatched.
* **Native dispatch.** A request is followed through the bridge, the connection, the companion's
  handler and Desktop. Until its line is written the companion has never had it (`NotYet`), so
  falling back is safe; a line that is still unread, and a handler that has not written, have sent
  nothing (`LastStep`); a refused connection has no handler (`OnlyAccepted`). The heart is
  `SaidOnce`: an answer "not sent", on its way or reported, is about a request that no handler has
  and none will read. It is not enough that none has read it, since a request may be written into a
  connection that was refused meanwhile: its line stays unread (`Refused`). `SaidRight`: an "acked"
  is about a request that was sent. `NothingBegun` is the window between the look and the stop of a
  reload.
* **Reply wait.** A prompt is recorded where it arrived and nowhere else (`WBooks`), and a turn has
  one end, its last record (`WTurns`): what was read of a turn that has ended is therefore read of
  all of it. `WReplies` says of each answer, remembered by the poll or told to the caller, what
  makes it the right one, and that this stays true however the log grows and whoever reads it. The
  reader of a creation does not look for later turns, and `WReading` says why it need not: the turn
  it reads is the one the task was in when it began, compared once more at the end. Of two
  deliveries that look the same `WTwins` says that the earlier one had its reply before the
  watermark of the later, which is why the search behind the watermark cannot take the one prompt
  for the other.
* **Turns.** The answer to `turn/start` names a turn that belongs to the call it answers, and the
  notice of an end is true (`Says`); both stay so because turns are only added and an end is final
  (`Older`), in whichever order the channel gives them. So what a call has collected is its own
  turn's (`TurnClient`). `OneTurn` needs more (`OneInv`): of an attached thread the client has an
  entry whenever a turn runs, or its start is asked for or answered (`Entries`, `Requests`). What
  could take that entry away too early is a message on its way, so the invariant says of each
  message what the client's books and the server's are when it comes (`One`), and of each two
  which cannot come one before the other (`Two`): no end before its own start, no start behind a
  snapshot that shows no turn. `Overtake` keeps this because only an answer that names a turn is
  overtaken. Both need `~Crowded`, the assumption on other clients; `OwnAnswer` does not.
* **Wire.** The operation of a call is nowhere until it is written (`WireNotYet`), which only the
  challenge allows, and a challenge is the relay's (`ToRelay`); it is read once (`OneReading`). A
  "not sent" for a job, in the pipe or told, is about an operation that was refused, never
  written, or late (`WireNotSent`); the job's receipt stops every other call, and a file that a late
  write left belongs to one call at most (`OneJob`).
* **Peer messages.** A message that is not written, or was reported as not sent, is neither with
  the session nor in a pipe to it (`PeerInv`); the steps of a call change nothing else that
  matters for that (`CallIs`). What is kept is another matter: each method of the endpoint is shown
  to go on from what it finds (`Goes`: no record is taken out, the numbers go on, and records, waits
  and replies belong to the messages they are kept for, `Sound`), and an action is a composition
  of methods. That a reload cuts nothing off (`HandoverInv`) rests on the order of its steps: a
  worker is paused only when no connection is open or waits, and from then on nothing listens.
  Only `OwnReply` asks for a transcript: without one an unasked message counts as the reply
  (section 3).
* **Forwarder.** What was attempted, what is being attempted and what waits are in this order
  the order in which they were queued (`InLine`), each once (`CameOnce`).
* **Supervisor.** The proof has two halves that need each other only in one step. Of the *requests*:
  one that was not sent or is queued is with nobody (`Fresh`, `Held`); an answer is owed only by a
  worker that has the request, for one that has none (`Owed`); a request is with one worker
  (`OneWorker`); only a reload holds requests back (`Stages`); and the answer to `initialize` is out
  before any second worker is asked anything (`Greeted`). Of the *workers*: those that run are the
  active one, the candidate and the one that retires (`Known`, `Roles`, `Unborn`). `OneActive` then
  needs that a command that waits in the chain of a worker, after the supervisor gave up waiting for
  it, cannot wake that worker later (`Asleep`); this rests on whose answer the supervisor waits for
  (`Heard`) and that a worker which answered has nothing else to do (`Obeyed`). `HandsOverIdle`
  needs `Drained` besides: from its check on a reload owes nothing of the active worker, and once
  that has quiesced it does nothing and gets nothing until the switch.

TLC has checked each inductive invariant on an instance before it was proved.

Only model-checked: all liveness (fairness and ENABLED are beyond the installed provers); of
`OneOfEach` the part about the relay's service; `NoCircularWait`; `OneOutstanding`; and
`ReplyIsRight`: `TranscriptOutcome` uses RECURSIVE operators, and what these compute for every input
needs induction over data, which is out of reach.

## 5. What is not modelled

* *Relay.* Authentication as such, health reports, the file-safety checks of
  `background-relay-storage.mjs` (abstracted to a write's outcomes), the per-provider
  frame protocols, the set of enabled providers as something that changes, an
  unreadable configuration.
* *Queue.* The back-off of a drain that cannot verify itself, the peer endpoint that
  lingers between sends, the removal of temporary files, `peek` (it reads only).
* *Peer.* Several recipients at once, a client that closes its connection, `stop()`, a
  transcript that fails to be read after its stamp was taken (`peer-protocol.mjs:969`), the
  provisional pipes of Windows. Monitors and image companions in transcripts.
* *Codex.* Reading and listing tasks, `set_thread_title`, the withheld result of a
  desktop call, several segments of a rollout, the checks that only withhold.
* *Site and remote.* `last_seen` and the refusal of an offline computer, the limit of
  ten jobs, the pages of the site.
* *Antigravity.* Decoding of its transcripts and of the sender's identity, list
  and read tools; one Claude session is the recipient of outbound work, and what is refused is
  nondeterministic.
* *Installation.* macOS and Linux, the hand-over of an updater to a newer one, other
  installations, the packaging scripts, the other registrations (one-shot edits).
* *Sender and account contexts* look up identities and keep nothing: they
  appear as guards that may change their answer. *Telemetry* reports only.

## 6. Plan

1. A shared suite in which a reload of the supervisor meets `PeerDelivery` and
   `NativeDispatch`, as far as the product of their states allows.
2. Refinement: `QueuedDelivery`, `RemoteHandoff`, `SiteConnector` and `AntigravityDelivery` as
   further implementations of `Delivery`, of which they are repetitions with a receipt.
3. The per-provider frame protocols of the relay's workers; the listing and reading tools.
4. As theorems: the relay's `CapabilitiesExpire`, and its `LimitsHold` without failed writes;
   `HolderHasLock` and `OneRelay` of `RelayService`, with their exceptions.
