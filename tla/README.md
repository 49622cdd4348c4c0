# Suma: TLA+ models of its sync plane, relay, terminals and cloud files

Suma is a browser that keeps a user's sessions on several Macs in step and gives
the user a computer, in the cloud or at home. This directory models the parts
where a mistake is hardest to see in a test: how a login or a logout made on one
device reaches the others, how the tabs follow, how a device is cut off, how a
terminal's output arrives through links that drop, and how files are stored,
shared between paths and fetched.

## The system

| Part | State | Operations | Speaks to |
|---|---|---|---|
| Hybrid logical clock (`packages/protocol/src/hlc.ts`) | last physical and logical time | `send`, `receive`, `restore`, `compareHlc` | every record carries one of its timestamps |
| Sync engine (`packages/sync-engine`) | per cookie: record, fence, newest tombstone, ancestry edges, parked write; offline queue, cached leases, expected echoes | `localChange`, `applyRemote`, `setOnline`, `snapshotOrigin`, `rollbackOrigin`, `gcTombstones`, `publishRejected` | cookie store (applier), transport |
| Desktop sync service and transport (`apps/desktop/src/main/sync`) | capture queue, record queue, staged records, navigation gate, pending publishes, socket state | hydration, Pull / Push, reconnect, flush before a workspace publish | engine, hub |
| Workspace sync (`workspace-sync.ts`, `workspace-store.ts`) | registers of tabs and metadata, restore points, dirty keys | publish timer, remote documents, first hydration, Pull / Push / Merge | hub |
| Session hub (`services/sessionhub`) | sockets, connection bindings, presence, revoked devices, leases, records with history and watermark, rate windows | `hello`, `publish`, `hydrate`, `lease.*`, `rollback`, `workspace.*`, close, admin revoke | devices, control plane |
| Control plane (`services/control`) | SQL tables: devices, `revocation_outbox`, files, chunks, transfers, machines, invites | HTTP handlers, the outbox drain, the relay | hub, object store, Fly |
| Home relay (`services/control/src/relay.ts`, `compute/relay-client.ts`, `compute/home-bridge.ts`) | home socket and its clients; per connection state at both ends | attach, detach, pipe, reconnect, ctl requests | Mac at home and devices away |
| Agent (`agent/`, Rust) | terminals with scrollback and pumps, downloads, VFS leases, ports, jobs | mux frames | desktop |
| Files on the desktop (`files/files-service.ts`) | transfers shown, tasks per transfer, cancellations to carry | start, fold events, store, cancel, poll | control plane, agent |
| Sidecar, egress gateway (`sidecar/`, `services/egressgw`) | response cache, policy | proxying | agent |
| Desktop features, renderer, web sites | user-interface state | | |

What makes each of them correct, and what is hard about it:

* **Clock**: timestamps of one process ascend, a merge orders what follows it, a
  broken remote clock cannot drag the fleet ahead. Hard: wall clocks that step
  back, merges in any order, restarts.
* **Engine**: a logout is never undone by a device that had not heard of it;
  replicas that saw the same records agree; what the engine recorded is what the
  browser shows. Hard: delivery order, the two promise queues of a device that
  await in the middle of an operation, a cookie store that refuses, maps that
  are full, tombstones that are collected.
* **The way up** (capture, engine, transport, hub): a login is stored, or still
  in hand; a lease a device trusts is one the hub gave it; nothing waits for an
  acknowledgement that cannot come. Hard: sockets that drop between the steps.
* **The way down** (hub, transport, service): nobody misses a version between
  hydration and fan-out; what was received is kept; pages load once the hydrated
  cookies are there, and they do load. Hard: several promise queues, refusals.
* **Workspace**: metadata converges, tabs stay where the user put them, a restore
  point shows the device's tabs. Hard: edits during awaits, restarts, lost sockets.
* **Hub sessions and revocation**: presence is true, a revoked device is out and
  stays out, and every queued revocation gets there. Hard: the old socket of a
  device closes after the new one said hello; failing calls, lost answers.
* **Terminals**: output in order, none twice, none skipped that was retained; an
  exit is told once. Hard: lag, relaunch, three parties that may see an exit.
* **Relay**: a reply answers its request; the newest home serves; both ends come
  back. Hard: close events of replaced sockets, dials that overlap.
* **Cloud files**: a chunk lives while a file names it; a file called complete can
  be read. Hard: the object store has no transactions.
* **Cloud fetch**: a cancelled fetch stays out of Files and its row comes to rest.
  Hard: the row has no id at first; every step is an await.

## Modules

| Module | Models | Uses |
|---|---|---|
| `Hlc`, `HlcClocks` | `hlc.ts` as pure operators; a fleet of clocks, wall clocks, restarts | |
| `SyncEngine`, `EngineReplicas` | conflict resolution of one cookie; replicas that exchange its records | `Hlc` |
| `HubCore`, `SessionHub` | the hub's decisions about one cookie and origin; sockets, durable state and frame handlers | `Hlc` |
| `PublishLane` | a change from the browser to the hub: capture, offline queue, leases, transport, session fence | `HubCore` |
| `SessionGate` | the records of a space from the hub to the browser: gate, staging, Pull, Push | |
| `WorkspaceSync` | tabs and metadata on devices and hub | |
| `RevocationOutbox`, `RevocationPath` | revoke handler, outbox, drain; composed with the hub | `SessionHub` |
| `PtyStream`, `PtyDelivery` | one terminal of the machine agent; the abstract channel it implements | |
| `HomeTerminal`, `RelayLinks` | a relayed terminal; the relay's sockets and registry | |
| `FileStore` | files, chunks, the object store and the requests that work on them | |
| `FileTransfer` | one cloud fetch: the control plane's row, the computer's download, the desktop | |
| `ClockedLane_proofs` (`HlcClocks` and `PublishLane`), `EngineReplicas_proofs`, `SessionHub_proofs`, `SessionGate_proofs`, `WorkspaceSync_proofs`, `MachineAgent_proofs`, `HomeRelay_proofs` (`RelayLinks` and `HomeTerminal`), `FileStore_proofs` | theorems | what they are about |
| `MCEngineReplicas`, `MCEngineFiles`, `MCClockedLane`, `MCRecordsGate`, `MCMachineAgent`, `MCDeviceLinks` | instances for TLC | |

Five of the MC modules put two or three components that share no state into one run:
the initial state picks the one that moves, the others stay where they are. Such a run
has the states of all, added and not multiplied, and checks the properties of all;
it claims nothing about their interaction. `RevocationPath` is a real
composition: a step of the control plane that reaches the hub is a step of both.

**`Hlc`, `HlcClocks`.** A timestamp is `[phys, logi, dev]`; device ids are
naturals, as only their order matters. `Send`, `Receive` and `Restore` are the
methods; `SetWall` moves `Date.now()` either way; `Restart` gives a device a new
`HlcClock`. `heard`, `issued` and `peak` are history variables: what a process
merged (and whether the drift bound cut it), everything issued, the highest wall
clock shown.

**`SyncEngine`.** The engine's maps, sliced at one record id, form a cell: `rec`
(`records`), `fence`, `tomb` (`latestTombstones`), `edges` (`ancestry`), `parked`
and `at` (`tombstonedAtMs`). `Resolve` is `resolve()`, `Descends` the ancestry
walk with its bound, `Learn` what every record teaches, `Winner` tombstone
normalisation, `Collectable` the test in `gcTombstones`. A version token within one
cookie is its timestamp. Sealing, signing and cookie values are left out. `past`
is the one field of a record that is not on the wire: the explicit deletions its
writer knew of.

**`EngineReplicas`.** Each device has a wall clock, an `HlcClock`, a cell, the
browser's cookie store (`jar`: does it hold the cookie?), an offline queue and two
promise queues, `capture` and `records`. `localChange` is split at the await in
`buildCookieRecordWire` (`LocalStamp`, `LocalStore`), `ingest` at the await of the
cookie store (`Deliver`, then `ApplyDone` or `ApplyFails`). `retryParked` runs at the
end of both, as in the code. `Overlap = FALSE` lets a device run one task at a
time; with `TRUE` the two queues interleave as they do in the desktop app, where
nothing serialises `capture.ts` against `recordQueue`. `log` stands for the hub:
every device is handed the records of the others once, in order or (`InOrder =
FALSE`) in any order. `known` and `unapplied` are history variables: the explicit
deletions a replica has learned of, the records its cookie store refused.
A browser event and the timestamp taken for it are one step, as is a rollback
(snapshot to publish).

**`HubCore`, `SessionHub`.** A stored version is a timestamp: the hub opens no
record. `store` is `rec:`, `hist:` and `wm:`; `conn` the per-connection bindings;
`sock` the state of each physical socket, `closing` between `close()` and the close
event; `announced` the last presence broadcast about a device; `sent` and `synced`
record what a socket was sent. Handlers await only durable-object storage, whose
input gate keeps other events out until they are done, so each is one step.
`EdgeAuth` chooses between signed device tokens (bound when accepted) and the stub
mode (bound by `hello`). A rate-limited publish reports `stale`; the model keeps it
apart. Timestamps of published records are independent of the hub's clock.

**`RevocationOutbox`, `RevocationPath`.** Requests and drains are tasks of one
process; every database statement and every hub call is a step. A call may be
acknowledged, be skipped because no hub is configured, or throw, with or without
having reached the hub. A restart loses all tasks and may bring the configuration.
In `RevocationPath` a call that reaches the hub is `SessionHub`'s `Revoke`. A
failing database statement is not modelled.

**`PublishLane`.** One device in full and one cookie of a rotating origin; another
device is a rival for the lease. A turn of the event loop is one step; sockets,
timers and WebCrypto end a turn. `dev` holds the capture queue, the offline queue,
leases, pending publishes and the socket, `hub` the store and lease, `fence` the
steps of `establishSessionFence`. Time is in halves of the lease's lifetime; a
grant on its way arrives, or is lost, within one. The hub's rate window may be full
at any time. `gaps` names the three places where the code lets a version go:
`publish()` on a closed transport, one acknowledgement for two versions of one
id, and a rate-limited publish that is reported `stale`.

**`SessionGate`.** One space: `space` is the service's state with the engine's
records, `gate` whether tabs may load, `link` the connection and its frames,
`peers` what the hub holds. The record queue, `finishHydration`, Pull and Push are
separate strands that meet between awaits.

**`WorkspaceSync`.** Registers with timestamps per device, one per tab and one per
piece of metadata; `hubws` the hub's documents and restore points; `wire` each
socket. Publishing, sealing (which may fail), remote documents, hydration and the
fence of Push are steps.

**`PtyStream`.** `agent` is the shell and the session table, `lane` per launch the
ring, the reader thread and its broadcast, `conn` per desktop the ctl link and the
pump. Bytes are stream offsets; `Breaks` says which end a line. The scrollback
file, appended in the same step as a chunk is sent, is left out. The refinement
maps each launch's ring to a window and each pump to a client's feed.

**`HomeTerminal`.** The shell of the home Mac's `SimAgent`, the bridge's
per-connection queues, the relay as two FIFO pipes per connection, and the away
device's client: byte count, subscription, pending requests. **`RelayLinks`** has
every socket of home and away with the state at both ends, the registry, timers,
tokens awaited and the bridge's per-connection state.

**`FileStore`.** `file` and `chunk` are the tables of one account, `bucket` the
objects, `granted` the presigned PUTs that are out. A manifest and a deletion are
one transaction each under the account's lock; the deletion of objects follows it
(`Recheck`, then `Sweep` one object at a time). A completion is `PostComplete` (the
file), `CompleteRows` (its chunks), one `HeadObject` per chunk, and a transaction
without the lock: `CompleteCheck`, `CompleteCommit`; a transaction that wants a row
the open one has written waits. A file is known by the request that made it
(`born`), as its id changes when it is deleted and made again. Chunk sizes are all
one; a body that was cut short is `"short"`. `raced` is a history variable.

**`FileTransfer`.** `transfer` is the durable row, `stored` the destination in
Files (declared, uploaded, complete), `fetch` the download, `events` those under
way, `desk` the row the desktop shows (`shown`), a row without an id (`pending`),
`pendingCancels` (`cancel`), `durableCancels` (`intent`), the point
`startCloudFetch` has reached (`start`) and the queue of tasks for the transfer
(`tail`); `call` is the call each of the desktop's strands has out. A call may be
refused, not reach the control plane, or be carried out and not answered.
`wanted` and `astray` are history variables: the user cancelled, and the desktop
lost the thread in one of the ways named below.

## Runs

| Run | Checks | Shows |
|---|---|---|
| `engine_files` | `NoResurrection`, `JarMatchesRecord`; `RefsMatchFiles`, `CompleteIsReadable` | the resurrection guard under any order, expiry, refusals and a full ancestry map; chunk references and receipts under overlapping requests, short uploads and restarts |
| `engine_maintenance` | `NoResurrection` | the guard through offline periods, rollback, refused rollback and tombstone collection |
| `clocked_lane` | `SendsAscend`, `MergedPrecedesIssued`; `WriteStaysInHand`, `GrantBacked`, `WaiterHasPending` | the clock under skew and restarts; a change on its way to the hub through drops, lease contests and the fence |
| `records_gate` | `RecordIsNewestVersion`, `HydratedSeesRecord`, `RevokedIsCutOff`; `ReceivedIsKept`, `GateMeansApplied`, `OnceMeansComplete`, `GateReopens` | the hub's records and fan-out; the desktop's staging and gate |
| `revocation_path` | `PresenceTruthful`, `NoOrphanLease`, `RevokedStaysOut`, `DeliveredIsOut`, `RevocationTakesHold` | control plane and hub together |
| `workspace_sync` | `GlobalsAgree`, `RestorePointCurrent`, `LocalTabsAreOurs`, `WsSettles` | two devices through edits, Pull, Push, Merge, drops, restarts and failed seals |
| `machine_agent` | `ServedInOrder`, `ExitToldOnce`, `ExitToldInTheEnd`, `PumpCatchesUp`; `CancelKeepsOut`, `CancelLands` | a terminal implements `PtyDelivery` (`ServedInOrder` is that refinement) and tells an exit once; a cancelled fetch stays out and comes to rest |
| `device_links` | `Convergence`, `PostLogoutChainConverges`; `RepliesInStep`, `GapReplayedIfCountTrue`, `AskIsAnswered`; `HomeIsNewest`, `ConnsAgree`, `AwayGetsThrough` | in-order delivery of logins and logouts ends in agreement, with nothing legitimate held back; the relayed terminal; the relay's sockets |
| `engine_expiry` | `Convergence` fails | a login after a logout and an expiry made side by side reaches nobody |
| `engine_overlap` | `NoResurrection` fails | a logout during an apply is overwritten |
| `outbox_lost` | `NothingStranded` fails | a restart between two statements loses a revocation |
| `publish_fence` | `FenceMeansStored` fails | a login dropped with its socket, and the fence opens without it |

The four failing runs are disagreements between the code and a line of its own
comments or documents; `PROJECT.json` quotes them. In short:

* `engine_expiry`: an expiry with a later timestamp than a concurrent logout becomes
  the current record, and the logout stays the fence. The next login names the expiry
  as its parent, so that no walk from it reaches the fence: its own device stores it,
  every other one parks it, though its writer knew of the logout.
* `engine_overlap`: `ingest` decides, awaits the cookie store, then stores without
  deciding again. A logout stored meanwhile is replaced by the older write.
* `outbox_lost`: the device is marked, the hub is called, then the row is inserted.
  After a restart in between there is no row, and asking again finds the mark.
* `publish_fence`: a change waits for its lease; the socket closes, the request is
  answered "no", and the record is handed to the closed transport, which drops it.

Every module also states a type invariant (`TypeOK`, `LaneTypeOK`, ...). They were
used while the models were written, and the runs spend their time on the rest; each
inductive invariant under "Proofs" begins with the shape of its component's state.

### Met while modelling

Disagreements and gaps that a property excludes by name, or that no run keeps:

* Engine: the outcome of concurrent writes and a logout depends on delivery order
  when it is not the log's; after 64 writes (2 in `engine_files`) the edge to a
  logout is evicted and peers park every further write; compaction of the offline
  queue can hide a logout likewise; a merge cut by the
  drift bound lets descent go against timestamp order; `restore()` has no caller;
  a parked write is forgotten before its retry (`engine.ts:754`); the offline queue
  is in memory unless a storage is injected; interrupted deletions are not queued
  again (`engine.ts:457`).
* Hub: the close of a revoked device returns before its lease is released
  (`hub-core.ts:203`), which then lives until its time is up.
* Outbox: a row is given up after 20 failures; overlapping drains lose each
  other's count.
* Way up: the three gaps of `PublishLane`; going offline releases leases by a frame
  that cannot be sent.
* Way down: the gate opens at the end of seeding while a frame that came meanwhile
  still waits (`service.ts:792`); a Pull clears records staged while it ran
  (`service.ts:810`).
* Workspace: a tab opened while the fence of a Push waits is wiped; a Push lost
  after its fence is never published again; a seal that failed is retried later
  and takes edits along that nobody pushed.
* Terminals: a tmux client that dies ends the output without `pty.exited`
  (`main.rs:367`); listing reaps such a client, and the later exit is not told.
* Relay: `relay-client.ts:88` and `relay-bridge.test.ts:218` promise an exact replay,
  but an attach replays to all listeners and inflates their count, and output
  between announcement and attach is counted twice (`GapReplayedIfCountTrue` speaks
  of a true count); a fire-and-forget request answered with an error shifts all
  replies (`home-bridge.ts:282`), so that a later attach may count as served when its
  replay was refused, which `RepliesInStep` and `GapReplayedIfCountTrue` both exclude
  (`stray`); a nudge during the token await dials twice and leaves a ghost connection
  until the next change.
* Cloud files (`raced`): an orphan's bytes are deleted after a recheck that a
  manifest and an upload may follow (`app.ts:2383`, against the comment at 2370); a
  stale HEAD marks a chunk row that was made again meanwhile; a replace may commit
  between the re-read and the update of a completion, which takes no lock (against
  "the chunks it names RIGHT NOW are all stored", `app.ts:2680`); an object found
  short may be whole by the time it is deleted. Each of the four was confirmed with
  TLC by dropping its disjunct from `raced`. Also: a manifest that fills the quota
  exactly is admitted and then refused its upload URLs; a restart between commit
  and deletion leaves objects that no row names.
* Cloud fetch (`astray`): a row dismissed while its creation is under way takes the
  cancellation with it (`files-service.ts:529` says it is carried over); dismissed
  while the start is under way, the fetch may still be stored; the lost answer of a
  creation leaves a queued row. Also: a failure report is not retried and the row
  stays active; cancellations to be retried live in memory, so a restart strands
  them (against `files-service.ts:501`).

### Bounds

Two devices suffice for every pairwise race; the engine and the hub relate a
device to the others one at a time. Four records give a login, a logout and two
writes on either side of it; three with rollback and collection on top. A wall
clock of one or two values is enough, as the logical counter orders events within
a millisecond. `MaxAncestryEdges = 8` stands for "large", 2 makes eviction happen.
Two changes and two connections let a write overtake another across a reconnect;
one frame in flight per direction is enough to lose one. In `records_gate` two
cookies, one rotating, make live and staged records meet; two upsets allow a drop
and a refusal in one behaviour. `workspace_sync` has one tab, one piece of metadata
and three events in all, of which two may be edits. A terminal with two bytes of
output, one retained line and a broadcast of one chunk makes eviction and lag happen
at once; two launches make a relaunch. The relay has one device away, two connections, three
home sockets and two mishaps (the invariants were also checked with three). Files:
two paths, two chunks, two requests at a time and four in all are a manifest, its
completion, a replace and a deletion (the invariants were also checked with five);
the quota of three is not reached. Names of paths, chunks and requests are
symmetric, and the run uses that, as it has no temporal property. Transfers: one
fault and one progress event.

Deadlock is not checked where the bounds, or a user who stops acting, end a
behaviour.

### Fairness

Always weak, and only of steps the runtime takes by itself:

* `RevocationPath`: each task's next step (an awaited promise settles), the drain
  timer, the close event of a socket told to close. Failures are bounded.
* `SessionGate`: connecting, the hub's answer, delivery, the record queue,
  `finishHydration` and its retry timer, the end of a Pull.
* `WorkspaceSync`: the publish timer, queued tasks, the hub, reconnecting.
* `PtyStream`: the reader thread, pumps, reconnecting, the exit poller, and the end
  of a tmux client whose shell is gone.
* `HomeTerminal`: frames are carried and served. `RelayLinks`: dialling and every
  socket's progress.
* `FileTransfer`: calls are served or fail, continuations run, the computer takes
  up a request, the poll timer ticks. A download may take for ever.

No user action, restart, loss or failure is fair.

## Proofs

Checked by TLAPS for every value of the constants. Each theorem but four
(`ClockTypes`, `BoundedPullAlways`, `WsTypeOKAlways`, `TypeOKAlways`) states a property
of a run. The properties are seldom inductive by themselves; the invariant that carries them is named with each
module. Fairness is never used.

* `ClockedLane_proofs`, clocks: `ClockTypes`, `SendsAscendAlways`,
  `MergedPrecedesIssuedAlways`, `BoundedPullAlways`. The invariant adds that the
  clock of a device is not behind what its process issued or merged uncut, and that
  its physical part is within the drift bound of the highest wall clock. Lemmas:
  `send` and `receive` move the clock strictly forward, `receive` past the merged
  timestamp unless it was cut. Assumptions: device ids and the bound are naturals.
* `EngineReplicas_proofs`: `NoResurrectionAlways`, `NoResurrectionWithinADay`,
  `JarMatchesRecordAlways`, `ConvergenceAlways`, `PostLogoutChainConvergesAlways`,
  `ConvergenceWithinADay`, `TypeOKAlways`. What a deletion hides is decided by a walk
  from a write's causal parent towards the fence, so the heart is `DescentIsHeard`:
  where the walk reaches the fence, the write's writer had heard of that deletion.
  It holds because the records ever made form a `History`, in which a writer knew
  what the writer of its parent knew. The invariant `Kept` adds that the edges of a
  cell are edges of records of that history, that no clock is behind what its device
  issued or learned (`ClockKept`), and that the fence of a cell is the newest explicit
  deletion the device knows while its record is `SoundFor` that fence, unless the
  cookie store refused the deletion (`CellFenced`). Hypotheses of the theorems: one
  task at a time (`~Overlap`: the run `engine_overlap` shows that overlapping tasks do
  bring a deleted cookie back); for `NoResurrectionAlways` wall clocks within the drift
  bound of one another (`ClocksClose`: a merge cut by the bound forgets what it has
  merged), which `NoResurrectionWithinADay` derives from a bounded behaviour; and for
  `JarMatchesRecordAlways` not both rollbacks and refusals, as `reissue` stores before
  the cookie store is asked.
  Convergence needs another argument: what a replica shows is a function of the set of
  records it has seen, so that replicas which have seen the same set agree. The
  invariant `InLine` says so of every replica at every moment: its ancestry map is the
  edges of the records seen and its fence their newest deletion (`Taught`), its record
  is the newest of them that this fence does not block (`Best`), or that one is being
  applied (`Holds`). The step that could break it is a deletion that arrives late and
  blocks the record in place: `ResolvesBest` shows that `resolve` lets it win exactly
  then, and `RetryRests` that the retry of a parked write finds nothing to apply. The
  record a rollback reissues is made from the current one, like any write, and becomes
  the newest (`HoldsReissue`). That nothing legitimate stays parked is in the log: each
  record in it descends from the newest deletion its writer knew (`Follows`). `Orderly`
  collects the hypotheses: one task at a time, delivery in log order, no refusals, no
  offline periods, no more records than edges, no tombstone old enough to be collected,
  and no deletions but the user's. TLC refutes `Convergence` within four records when order, refusals,
  offline periods or expiry (`engine_expiry`) are let in.
* `SessionHub_proofs`, sockets (`IInv`): `PresenceTruthfulAlways`,
  `RevokedStaysOutAlways`, `NoOrphanLeaseAlways`, and the action property
  `RevokedIsCutOffAlways`. That the last close of a device finds no other binding
  needs `BindingsAttached` (a durable binding is about an attached socket of its
  device), and the two silent branches of `handleClose` need each other's property.
  Assumptions: device ids are positive naturals, lease lengths naturals.
* `SessionHub_proofs`, records (`RInv`): `RecordIsNewestAlways`,
  `HydratedSeesRecordAlways`. A rollback brings back an old version, so that it is
  not enough that the record was sent: all of the retained history was
  (`HistorySent`), to every hydrated socket that keeps its binding
  (`SyncedStands`). The newest version exists because the history is finite.
  Assumption: a history cap above zero.
* `ClockedLane_proofs`, lane (`PInv`): `WriteStaysInHandAlways`, `GrantBackedAlways`,
  `WaiterHasPendingAlways`. The first needs where a version in flight is: sent and
  not handled, answered and not read, or lost with a socket whose close is still to
  be noticed (`LoginSomewhere`, `FlightPending`, `AcksTrue`). The second needs what
  a grant under way is worth: it is at most a tick old, and the hub's lease stands
  behind it or its revocation follows it on the same socket (`GrantsUnderWay`,
  `GrantOutlived`). Assumption: the bounds are naturals.
* `SessionGate_proofs` (`GInv`): `GateMeansAppliedAlways`, `ReceivedIsKeptAlways`,
  and the action property `OnceMeansCompleteAlways`. Its heart is `FinishCovered`:
  the last item a `finishHydration` waits for carries all that the hub had sent
  before `hydrate.done`, and when that item has run, this is written or the error is
  noted. `PulledIsKnown` and `KeptSomewhere` say where a delivered record is
  meanwhile. Assumption: rotating cookies are cookies.
* `SessionHub_proofs`, revocation path (`PInv`): `DeliveredIsOutAlways`. The hub has revoked
  exactly the devices the calls reached (`SidesAgree`), a row in a drain's hand, or
  marked delivered, belongs to one of them (`LandedIsAtHub`), and a socket of a
  revoked device is closing; with the hub's `IInv`. Assumption: enrolled devices are
  devices.
* `WorkspaceSync_proofs` (`WsInv`): `GlobalsAgreeAlways`, `RestorePointCurrentAlways`,
  the action property `LocalTabsAreOursAlways`, and `WsTypeOKAlways`. Agreement at
  rest is not inductive: what has to be followed is where a newer register is
  meanwhile. What a hydrated device holds has reached the hub, is on its socket, or
  is still marked to be published; what the hub holds has reached a connected device
  or waits in its queue (`MetaAt`, and `PointsSent`, `PointsSeen`, `PointShown` for
  restore points). A hub that keeps what is strictly later loses nothing because a
  stamp names one register (`StampsUnique`), and stamps stay unique because a device
  holds whatever it stamped last, through restarts too (`OwnIsOlder`). Assumptions:
  finitely many devices and keys, as the clock moves past the newest of a bundle;
  device ids are positive naturals; tabs and metadata have different keys; a live
  value is neither absence nor a tombstone.
* `MachineAgent_proofs` (`TInv`): `ExitToldOnceAlways`, and `ServedInOrderAlways`,
  the refinement: a channel's pump implements `PtyDelivery`, each step of `PtyStream`
  being a step of the abstract channel or a stutter. Chunks of the broadcast and the
  one in the reader's hand follow each other in the stream (`LanesFollow`); what a
  pump has still to deliver is in a chunk it has not taken, or was a capture of the
  screen (`PumpsStand`); a shell still in the table has not been told gone
  (`ToldWhenReaped`). Assumption: naturals, above zero for the sizes and the number
  of launches.
* `HomeRelay_proofs`, the sockets (`LInv`): `HomeIsNewestAlways`, `ConnsAgreeAlways`. The second
  rests on names: a connection that the bridge, or a message on its way, still names
  is not dialled anew (`NewIsNew`), one that belongs to a replaced home is no client
  of its successor (`OldAreOut`), and each is opened once. Assumption: the home
  machine is none of the devices away.
* `HomeRelay_proofs`, the terminal (`HomeInv`): `RepliesInStepAlways`,
  `GapReplayedAlways`. The first, stated frame by frame (`RepliesFit`), is kept because
  every step takes a frame from one end of the line of downward frames, queue and
  upward frames, adds one at the other, or puts the answer in the place of its
  request; what filtering a queue leaves is a recursive function, about which the few
  facts needed (at either end, and of the elements) are shown from the least number
  that would break them. For the second every owed byte is shown or is brought by a
  frame on its way, or a request that asks for it is on its way or queued, or was
  turned down (`OwedIsComing`); a greeting's gap request is behind its announcement,
  so the subscription is there when the replay goes out (`GreetsFirst`), and a
  connection serves one device, blank when it is made (`CallsInOrder`, `CallStands`).
  Assumption: naturals, the scrollback above zero.
* `FileStore_proofs`, files (`FInv`): `RefsMatchFilesAlways`,
  `CompleteIsReadableAlways`. The second needs what every request under way has
  looked at (`Looks`): what it found in the object store is still there while the
  chunk has a row, what it is about to delete has none, what it rejects is not whole,
  and what it is about to complete is covered; all outside the races that a history
  flag names. Assumption: finitely many paths, as references are counted.
* `FileStore_proofs`, fetches (`CInv`): `CancelKeepsOutAlways`. A download ends once,
  and only its end makes the one task that stores (`Ends`); the queue's call belongs
  to the task at its head (`Uses`); and while a cancellation in time stands, the
  desktop still carries it, or nothing is left that could store the file, or the row
  was dismissed and nothing brings it back (`Held`).

Only model-checked:

* Liveness (`RevocationTakesHold`, `GateReopens`, `WsSettles`, `ExitToldInTheEnd`,
  `PumpCatchesUp`, `CancelLands`, `AskIsAnswered`, `AwayGetsThrough`), and
  everything about ENABLED: out of the prover's reach.
* The four failing runs.

## Not modelled

`PROJECT.json` lists every part with its reason. The larger share of the
repository's lines is user interface, generated shapes of messages, request
handlers whose state change is one SQL statement, file-system and process I/O in
Rust, tests and web sites: there is little control to check in them. Within the
modelled parts: echo suppression and policy gating of the engine (`engine.ts:847`),
several cookies sharing an engine, signatures and keys, the gateway's frames of the
hub, changing the hub or the set of spaces while running, re-keying a workspace,
the per-field registers of a tab, the vfs and fwd channels of the bridge, resizing
and input of terminals, a restart of the desktop during a fetch, listing and
downloading files.

## Plan

1. `CookieEcho`: expected echoes, their time to live, genuine changes among them.
2. VFS leases of the agent, the machine's lifecycle, the sidecar's cache.
3. A restart of the desktop in `FileTransfer` and `PublishLane`.
