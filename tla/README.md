# A TLA+ model of the nerdit daemon

nerdit is a self-hosted platform daemon: it builds applications, runs them as containers, keeps a
reverse proxy (Caddy) dialling them, and replaces a running version by a new one without downtime.
All of it is one Python process with one asyncio event loop, one SQLite connection, a container
runtime and a Caddy admin API. There is no parallelism inside the process, but every `await` is a
place where another coroutine may run, and the daemon may die at any of them. This directory models
the parts of the daemon where that matters most: the gate in front of a swap and the swap itself,
retried writes, the tunnel to the cloud and the identity behind it, deletes, who owns the secrets of
a name, unattended redeploys, and the event feed with those who read it. All are model-checked with
TLC. Proved with TLAPS, for every value of the constants, is the safety of all of them:
who owns what during a swap, on which side of its commit point it is and what the pointer names; how
often a release runs and what it holds back; that the idempotency middleware implements its abstract
specification; the stream table; the custody of the node's key; deletes; the secret scope; the git
watch; the feed.

Paths below are relative to `src/src/nerdit/`.

## Inventory

| component | state | operations | interacts through |
|---|---|---|---|
| reconcile tick (`core/services.py`, `core/launch.py`, `core/workload.py`) | the tick's snapshot of a row; registries of tasks and runs | fetch, stop, swap, launch, adopt, crash policy, live probe | rows, endpoints, runtime, proxy; calls the cutover and the builder |
| cutover (`core/cutover.py`) | `cutover_pending` in the row; `_cutover_tasks`, `_cutover_containers` | arm, verify, commit, unwind, settle a crash, cancel | same, spawned by the tick, cancelled by the stop branch and the drain |
| build and release (`core/app_build.py`) | build tasks, a semaphore, `release_pending` | build, release, settle a failed generation | row, runtime |
| service row (`db/queries/*`, `core/deploy_state.py`) | one row per service with a config blob | guarded updates (compare-and-swap) | everything |
| endpoint (`db/queries/endpoints.py`) | stable port, `active_host_port` | acquire, release, point | launch, cutover, proxy |
| proxy (`core/proxy/`) | Caddy's routes, the Caddy process | register, deregister, reconcile, TLS and domains | endpoints; tick; cutover |
| zombie sweep (`core/sweeper.py`) | none (ids it collected) | collect protected ids, kill the rest | rows, registries, runtime |
| deploys (`daemon/deploy_pipeline.py`, `daemon/routes/deploy.py`) | a request's reading of the row | deploy, redeploy, rollback | row, cutover registry |
| routes (`daemon/routes/services.py`, `system.py`) | drain gate | stop, restart, delete; restart of the daemon | row, controller |
| purge (`daemon/service_purge.py`) | tombstones on disk | delete a row with its containers, data, secrets | rows, runs and releases, other deletes, the next row of the name |
| secret scope (`daemon/secret_scope.py`, `db/queries/secret_claims.py`) | a file per name, a claim per name without a row, one lock | write, delete, claim, inherit | deploys, projects, purge |
| idempotency (`daemon/idempotency.py`) | one record per principal and key | claim, replay, complete, interrupt, sweep | every mutating route |
| link tunnel (`core/link/`) | socket, stream table | open, body, close, pump, reconnect | relay, the daemon's own routes, apps |
| link identity (`daemon/routes/link.py`) | config, key files, stored addresses, a device flow in memory | claim, device flow, refresh, push, unlink | the cloud, the config routes, restarts |
| git watch (`core/gitwatch.py`) | per-service schedule, nudges | poll, two gates, redeploy | rows, deploys |
| events and notifications (`core/eventlog.py`, `core/events.py`, `core/notify.py`, `daemon/routes/events.py`) | feed, flap windows, a queue per stream, a cursor per target | record, publish, sweep, drain, replay and tail | everything, webhooks, clients |
| GPUs (`db/queries/gpus.py`) | allocations, derived status | allocate, release | launch |
| one-off runs (`daemon/routes/service_run.py`) | run slots, quota claims | run, kill, reap at boot | controller, sweep |
| the rest | | AI gateway, models, backups, volumes, workspaces, auth, audit, CLI, MCP, dashboard | mostly pass-through I/O |

What is hard, and what must hold:

* **Cutover.** The commit is four writes to three stores (row, endpoint, Caddy) and two containers.
  Whatever interrupts it, the pointer must end at a live container, a promoted generation must stay,
  blue must not go while traffic still goes to it, and nobody but a stop or a restart may take down
  the container that serves.
* **Tick.** It acts on a snapshot and re-reads it only in some places; a verify task, a cancel, an
  operator and a sweep run between any two of its awaits.
* **Build and release.** A migration must not run twice, nor be forgotten, nor be skipped, whatever
  dies between the build, the release, its settle and the clean-up. The gate reads a snapshot of the
  row and the present task registry.
* **Sweep.** It kills containers by exclusion; the two sets that protect a container are read at
  different times.
* **Crash recovery.** Only the row, the endpoint, the containers and Caddy's configuration survive.
* **Liveness.** A marker must be settled, a stop carried out, an orphan collected, a route repaired.

* **Retried writes.** A request may be cancelled while its write is in flight, die with the daemon, or
  be repeated while the first is still running; its key must neither be burnt nor given back too early.
* **Stream table.** The relay reuses ids at once, tasks unwind later; a response cut short must not look
  whole, and nobody may wait for ever.
* **Identity.** It lives in four places that no transaction joins, and two of its operations wait for
  the cloud outside the lock.
* **Deletes.** The row, its containers, its bytes and its credential go one after the other, most of
  them by name, while runs start and the name may be taken again.
* **Secrets of a name.** Three kinds of owner (row, claim, project) are judged in separate statements.
* **Unattended redeploys.** The branch, the row and the pushes move during a poll of several awaits.
* **Event feed.** The feed is written, published, swept and read in separate statements, the bus drops
  what does not fit, and a cursor is moved after the delivery it stands for.

`PROJECT.json` lists the hazards at their lines, with the property that covers each, or why none
does.

## Modules

* **`Generations`**: the statements on the service row that both components below share: what is
  fetched, the terminal settle and the revert of a failed generation. Each SQL
  statement that rewrites the row is an operator from the row *at update time* to the new row; a
  compare-and-swap leaves the row alone on a miss.
* **`ServiceRow`** extends it with what the cutover knows of the row: the marker and the redeploy. The
  config blob is reduced to the keys that steer the controller: `build_version`, `previous_image`,
  `max_version`, `cutover_pending`. `last_deploy` steers nothing there and is in `ReleaseGate`.
* **`ReleaseGate`**: one service in front of its swap. Survives a crash: `row` (with the keys
  `build_context_dir`, `release_pending` and `last_deploy`), `images`, `contexts`, `serving` (the row's container by
  its generation), `migrating` (release containers). The tick (`tpc`, `tk`), the build task (`bpc`,
  `bt`) and a deploy or rollback between read and write (`dpc`, `dq`) are the actors; `tst` and `bst`
  are a stamp of `last_deploy` that the tick or the task has read and not yet written. `runs`,
  `released`, `rolled`, `lost`, `row.own` and `tk.aged` are history.
  `TickProbes` is layers 2 and 3 of `ensure_built`, `TickYields` layer 1.
* **`Cutover`**: one service with everything that runs beside it. The variables `row`, `ep`, `ctr`,
  `dial` are what survives a crash. Each actor has a program counter and a record of what it
  remembers: the tick (`tpc`, `tk`), the verify task (`vpc`, `vt`, and `greenReg`, its entry in
  `_cutover_containers`), the cancel (`cpc`, `cx`), the sweep (`spc`, `prot`, `aged`), the request
  being served (`dpc`, `dq`). An action is the code between two awaits that touch shared state. Its
  name carries the actor and the step; the steps f1 to f7 and g of the module docstring of
  `core/cutover.py` are named in the comments.
* **`Idempotency`**: the requests of one principal and key. `record` is the row, `pc`, `claimed` and
  `marker` are the request's (`RequestWriteMarker`), `flight` is the effect a thread has under way.
  `landed`, `fate` and `told` are history. A handler is known only by its effects.
* **`OncePerKey`**: what the key promises its caller, in six actions and without a daemon.
  `Idempotency` implements it; the refinement mapping is at the end of that module.
* **`LinkMux`**: the stream table of one accepted connection. A stream is the n-th that was opened,
  `sid` is its id, `table` is `_streams`, `pc` where its task is. `relay` is what the relay thinks open.
* **`LinkCustody`**: the routes of the node identity. `config` is the TOML file, `keyAt` the key files,
  `enrolled` the cloud's nodes, `boot`, `stamp`, `wipes` and `slot` the process's memory, `lock` the
  `_LINK_MUTATION_LOCK`. `home`, `asked` and `unlinks` are history.
* **`ServicePurge`**: everything that holds the data tree of one name. Rows are numbered, trees,
  tombstones and the credential are keyed by the name and remember which row made them.
* **`SecretScope`**: one name's secrets. `row`, `claim`, `project` and `file` with their owners, `wlock`
  is `variable_write_lock`, `req` the writes, deletes and purges under way.
* **`GitWatch`**: one watched service. `poll` is its task of `_inflight`, `failed`, `pending`, `nudged`
  and `renudge` the dictionaries' entries for it, `due` the two deadlines; `head` is the remote.
* **`EventFeed`**: the feed and one of its readers. `kind` and `kept` are the table, `recent` is
  `_recent`, `passed` the calls of `record` that found their type open, `writing` and `open` the holder
  of the write lock and its transaction, `sweep` the watermark of `_sweep_event_feed`. A target has
  `cursor` (its row of `notification_cursors`) and `drain` (its loop in `WebhookDispatcher`); a client
  has `conn` (the generator of `_event_frames`, with its bus queue) and `view` (what the client knows:
  its `Last-Event-ID` and whether a `feed.gap` came since). `settled` and `shown` are history.
* **`MCCutover`**, **`MCServicePurge`**: symmetry for TLC. The other modules have only numbers, strings
  and model values for constants and are checked as they are.
* **`Cutover_proofs`**, **`ReleaseGate_proofs`**, **`Idempotency_proofs`**, **`ServicePurge_proofs`**,
  **`SecretScope_proofs`**, **`EventFeed_proofs`**, **`GitWatch_proofs`**: the theorems about the module
  of that name and their proofs. **`Link_proofs`** has those about both halves of the node link: it
  extends `LinkMux` and `LinkCustody`, which share no variable, hence the names `MuxInit`, `MuxSpec`.

`Cutover` and `ReleaseGate` compose `ServiceRow` and `Generations` (by `EXTENDS`), `Idempotency`
instantiates `OncePerKey`. `ServicePurge` and `SecretScope` share the delete: the first has its
containers and bytes, the second its secrets; each stands in for the other by the outcome it needs.

How the code appears in the model:

* `status`, `desired_state`, `container_id` are fields of `row`; `service_endpoints.host_port` and
  `active_host_port` are `ep.host` and `ep.active`; `COALESCE(active_host_port, host_port)` is
  `LivePort`.
* A container has a state, the generation it runs, its host port and whether it carries the
  cutover label. An id is handed out once.
* `has_active` is `vpc # "none"`. `cancel` pops the task and only then works, so `CancelTask` ends
  the task and starts `cpc`.
* Outcomes that depend on the world are free: a probe passes only if the green lives and may always
  fail, a launch may fail, the admin API may refuse a write, a reap may skip a container.
* A crash (`DaemonCrashes`) resets every volatile variable and keeps the rest.
  `DaemonReexecs` is the end of a drain, with the same effect.

### Abstractions

* One row. Contention between services (ports, drains that cancel several tasks) appears as what it
  does to this row: a cancel may be followed by a long wait before the drain's kills, and a stable
  port may be refused.
* In `Cutover` a generation's image is built: `ensure_built` lets the tick through. In `ReleaseGate`
  the swap is one destroy-first launch.
* In `Cutover` a deploy, a rollback and a restart are served one at a time; a stop lands anywhere. Row deletion is
  left out. A second cancel of the row does not begin while one is in progress.
* A statement that a cancelled task had queued counts as executed before the cancel's own read, which
  the connection serialises after it. A `docker run` abandoned by the cancel is the same state as a
  cancel after the run and before the id is registered: a labelled container that nobody holds.
* `_pop_marker` and the settles re-read and then compare-and-swap; they are one step, since a write
  between the two makes the swap miss. `TaskUndo` reads the marker's port and writes the pointer in
  one step. In `Cutover` a stamp of `last_deploy` is an `await` and nothing else: no step there reads
  that key. In `ReleaseGate`, where steps do, it is a read and a write with anything in between. The
  read is one step with the statement before it: what lands between those two either changes neither,
  or leaves no phase to stamp. `Settled` of that module merges the probe of the container, the re-read
  of the row and the guarded write; a write between them makes the guard miss, unless a deploy and a
  rollback bring the same `build_version` back.
* The sweep spares containers younger than 30 s. The model assumes that a pass and the steps from
  `runtime.run` to the registration of the id take less: what it may kill lived and was registered
  or recorded when the pass began (`aged`).
* `ReleaseGate`: every generation declares a release, the launch environment resolves, and the
  semaphore admits a build at any time. The writes of a restart are one step, and so are a deploy's
  write and its removal of the old context, and a rollback's `has_active_run` and its write. A
  generation that failed may become healthy again when its own image is relaunched; the times and the
  reason compared there are left out. A prune reads the tags and removes what it may, each best effort,
  in one step; `KeepTags` is the code's 3. `Losable` are the versions whose image the runtime may lose,
  and get back. `SurvivingTags` is what a deleted service of the same name left behind.
* Restart counters and windows are a free choice between backing off and giving up. GPUs, sandbox,
  volumes, logs, audit, events, domains and TLS do not appear.
* `Idempotency`: one principal and key. A request for another operation, or with another body, is a
  refusal that may always happen. An execution does not outlive the 24 hours of its key, and the
  histories begin anew when it expires. A claim whose insert was cancelled may be written all the same
  and then strands an `in_progress` record until it expires, as in the code.
* `LinkMux`: a chunk within the limits changes nothing, a refusal's three frames are a head and an end.
  `Wrapped` names the streams whose request runs in an inner task: those of apps, and all of them where
  `asyncio.wait_for` makes a task (before Python 3.12). What servers, apps and the relay do is free.
  `FailLate` and `Overrun` send their error frame and end the stream in one step.
* `LinkCustody`: a missing relay URL, a failed exchange and a key that cannot be loaded are one refusal.
  A key file is swapped only while no route holds the lock. A caller's requests follow each other.
  Of what the config routes may write, only the key path moves (`PutKeyPath`): a `node_id` written null
  (`daemon/routes/link.py:926`) or the base domain (`:1142`) by hand does not appear.
* `ServicePurge`: one name, always with `?purge=data`; one-off runs exist for services only, as in the
  code. The last probe of the name and the `rmtree` are one step (the code's own comment names that
  window), and so are the checks before the rename and the rename (`Tombstone`). A rename that fails
  with an `OSError`, dumps, shares, domains, images and workspaces do not
  appear; an armed cutover is left to `Cutover`, the claims to `SecretScope`.
* `SecretScope`: shared and project files, variable flags, key rotation, backups, revoked tokens and
  files older than the claims are left out. A project's delete is one step, as its transaction is.
* `GitWatch`: one service and one watcher, sources that use the installation token. `running` and
  `degraded` are one status. Skip events, failure counts and the lengths of back-off, the semaphore's
  queue, the bound on remembered nudges and the row's deletion are left out.
* `EventFeed`: readers only read the feed, so one of them, a target or a client, stands for any number.
  Two types stand for all: one that the flap guard coalesces and one that it never does. A window ends
  at any time (by its length, or evicted by newer types). The writer holds the lock from its `INSERT`
  to its publish, so publishes do not cross. What is delivered, signed, paged or filtered by resource
  does not appear, nor do frames that have no row. A database restored from a backup is a client that
  comes with a number the feed has not reached; that the restored feed is empty, which the code takes
  for a new one, is left out. A read shares the connection of the writer and takes no lock
  (`db/database.py:385`), so every reader of the model sees the row of an open transaction; `peeked`
  says that one may have, `dirty` collects the numbers of rows that were undone after that.

## Properties

`TypeOK` is stated in every module. It is proved in every module with proofs, there mostly as a part of
the inductive invariant, and has no run of its own: it documents the variables.

Safety of the running service:

* `KeepsServing`: no settle, unwind, reap, cancel, retirement or sweep takes down the live container
  the row names. Only the destroy-first swap and a stop's teardown do (and the last kill of a drain,
  see the known divergences).
* `NoDialToRetired`: when blue is destroyed after a commit, the proxy no longer dials it.
* `PointerNamesServing`: whenever no actor has work in progress, the pointer names the port of the
  row's live container.
* `StoppedIsDown`: a stopped row leaves no live container of its own.

Safety of recovery:

* `MarkerTellsTheSide`: while a marker of the row's generation is armed, the row names blue, or a
  green of that generation. This is the discriminator by which recovery tells before the commit from
  after it.
* `CommitIsFinal`: a promoted generation is never failed or reverted by a settle.

The gate (`ReleaseGate`):

* `ReleaseOnce`: the release command of a generation is started at most once, across crashes, restarts,
  failing settles and prunes. Not claimed of a generation that a rollback put back or whose image the
  runtime lost: the code runs those twice (see the known divergences).
* `ReleaseOnRecord`: while the row is on a generation whose release was started and not seen to
  succeed, the row carries its marker.
* `UnfinishedReleaseHoldsLaunch`: a generation whose release was started is launched only after that
  release exited 0. It says nothing of a tick between whose fetch and gate a task ended (`aged`), of a
  generation whose release never started, and of a rollback or revert (which run no release).
* `SupersededIsHandsOff`: the task of a superseded generation changes nothing of the row but
  `last_deploy`, by a stamp that it had read before.
* `DeploySettles` (liveness): a row that waits at the gate does not wait for ever, unless it waits for
  an image that the runtime lost.

Liveness of the cutover, under `FairSpec`: `CutoverSettles`, `StopHonoured`, `OrphansCollected`, `RouteConverges`.

`Ownership` is the inductive invariant of the proofs.

Retried writes (`Idempotency`):

* `ImplementsOncePerKey`: every behaviour is one of `OncePerKey`. Among the executions that hold a claim
  at most one takes effect without reporting failure until the key is forgotten, nothing lands for a
  request that gave its key back without saying so, and a replay tells what the kept execution answered.
* `KeyComesFree` (liveness): no record lasts for ever.

The tunnel (`LinkMux`):

* `LiveIsTracked`: a task nobody cancelled is the one registered under its id.
* `ResponseIsWhole`: a requester sees a head, chunks and one end, or an error; never an end after an
  overrun, or a head after either.
* `ClosedDirectIsSilent`: an abandoned stream without an inner task sends nothing more.
* `EveryStreamEnds` (liveness): every served stream ends, and its requester is told.

The identity (`LinkCustody`):

* `LinksTheKeyItProved`: the link commits only while the configured path holds the enrolled key.
* `KeyOutlivesTheLink`: as long as the node is linked, no crash, failed or late wipe takes its key.
* `LinksOnlyOnAsking`: a node replaces no other, and no request from before an unlink links one.
* `ShowsItsOwnLink`: hosted domain and stored addresses are the linked node's.

Deletes (`ServicePurge`, `SecretScope`):

* `BytesKept`: while a database has its row, its bytes are at the path or in a tombstone.
* `KnownRunsAreDown`: a removed tree has no writer that the delete saw.
* `LiveRowKeepsItsOwn`: a delete takes neither credential nor tree of the row that has the name now.
* `ValuesAreTheOwners`: a row is launched with values of its own owner or the admin.
* `FileIsReserved`: a file's name has a row or a claim.
* `PurgeTakesItsOwn`: a purge takes nothing that was written for another owner since.

Unattended redeploys (`GitWatch`):

* `NudgeIsAnswered`: a push answered "matched" is followed by a poll that begins after it.
* `ShipsACommitOnce`: no commit is redeployed twice while nobody moves the source or the row.
* `ShipsTheNewest` (liveness): a service that stays eligible ends at the head, or at a head that failed.

The feed (`EventFeed`):

* `SuppressedIsOnRecord`: the flap guard holds a type back only if a row of it was written since its
  window began; a write that failed, was undone or never began silences nothing.
* `NewestAreKept`: a sweep leaves the newest committed rows, whatever is inserted or rolled back while it
  deletes: where cursors are seeded and streams resumed there is always a row. Once a row that somebody
  may have read was undone, one row fewer is claimed: the watermark may have counted that one.
* `CursorSkipsNothing`: a cursor passes a wanted row only if the receiver answered for it, its retries
  were exhausted, or it was there before the target. (What retention takes is not owed, and neither is
  a row whose number was read before on a row that was undone.)
* `CursorComesPast` (liveness): and it passes every row, however dead its receiver is.
* `StreamIsExact`: a client gets the row after its own, never that row again, or a `feed.gap` before one
  that is not the next: whatever the queue dropped, the sweep took between two reads, or a cancelled
  writer never published. It is stated of the frame to be sent next, and exempts a client whose own row
  was undone.

## Runs

The runs of the cutover use `MCCutover` with three containers (blue, green and one successor), one
stable port and two transient ports, so that a cutover over an already promoted blue occurs, unless
said otherwise. `MaxVersion = 3` lets one or two redeploys follow the initial generation 1 or 2. A
bound on requests and faults cuts the behaviours, never a step of the daemon: ticks, sweeps, polls and
proxy reconciles go on without limit. Deadlock is not checked: a system with nothing left to do is a
legitimate end in every module, since what its environment does is bounded.

| run | bounds | shows |
|---|---|---|
| `CutoverFaults` | 1 request of stop, restart, deploy, rollback; 2 faults | every crash point, container exit and raising task of a cutover, and a second one during the recovery from the first, ends in a state that serves |
| `CutoverRaces` | 2 requests of stop, restart, deploy, drain; no fault | requests landing on each other's cutover and its swap, drains included; the inductive invariant of the proofs |
| `CutoverLive` | 2 containers, 1 transient port, 1 request of stop or deploy, 1 fault; fairness | the four liveness properties |
| `ReleaseGate` | 2 requests of deploy, rollback, restart, stop, drain; 1 fault; 3 versions, of which a prune keeps 1 and the image of the 2nd may be lost; fairness | the properties of the gate, from a first deploy and from a serving generation |
| `Idempotency` | 3 requests of one effect each, 1 crash, 1 failing clean-up statement; fairness | the refinement of `OncePerKey` and that keys come free |
| `LinkMux` | 2 streams over 2 ids, a cap of 1; fairness | the stream table under reuse, refusal, abandonment and a dying tunnel |
| `LinkCustody` | 2 callers, 4 calls, 2 data directories and a custom path, 1 config write, 1 key swap, 1 restart, 3 keys, 2 nodes | every overlap of a claim or a device flow with an unlink, and a second link after it |
| `ServicePurge` | 2 deletes, 1 run, 1 release, 2 rows, 2 launches, 1 restart, 1 Docker fault; a service and a database | two deletes of one name with its next row |
| `SecretScope` | 2 submitters and the admin, 2 requests at a time, 8 in all | two owners of one name, a third request by either |
| `EventFeed` | 3 rows (0 or 1 at the start), 2 kept by a sweep and 1 deleted at a time, a queue of 1, a replay of 1 row and a catch-up of 2, batches of 2, 2 attempts, 1 fault; all types or one wanted; fairness | a sweep, a drop and a lost publish between any two reads of a stream or of a drain |
| `GitWatch` | 2 sources, 2 commits, 2 pushes, 2 operations, 1 nudge, 1 restart; fairness | a push or an operation between any two awaits of a poll and of its follow-up |

Two faults reach a crash during the recovery from a crash; two requests reach an operator acting
during the consequences of another's. Three requests of one key are the one that executes, a retry that
overlaps and one that comes after. Two streams are an id and its reuse, and with a cap of one the second
is refused unless the first has left the table. Four link calls are a device flow with its poll, an
unlink and a claim. In `SecretScope` eight requests and deploys let a name be written, deployed, deleted
and taken again by somebody else while the first delete's tail is still to come. In `EventFeed` three
rows overflow the queue and the replay and leave the sweep one to delete under a stream or a drain. In
`ReleaseGate` the version whose image may be lost is the one the first request deploys. The runs have
about 0.01 to 2.4 million distinct states. With larger bounds the safety properties hold too:
`ReleaseGate` with two faults, and with one where any image may be lost; `EventFeed` with four rows, of
which a sweep deletes two in two chunks (6.2 million states), and, but for `StreamIsExact`, with
`KeepLast = 1`, where a sweep of three rows has two chunks as well.

The drain is in `CutoverRaces` only, whose properties it keeps; it breaks those of `CutoverFaults` (see
below), and without it they also hold with two requests, rollbacks among them, and no fault. Liveness is not checked under a
drain, which ends the process.

One run is expected to find a violation: `RestartReverts` states what the revert of a failed generation
is for, and the code reverts the row to the previous image after a failed restart of the same generation.

`BootSettles`: with `TRUE` a request's write over a marker that it read is left out. A request can read one
in two windows: between a boot and the tick that settles what a crash left, and between a tick's marker
write and the registration of its verify task, with the event's await between them (`core/cutover.py:376`-`383`),
when the 409 of a cutover in flight does not see it yet. The passing runs of the cutover assume that no
request reads in either; the known divergences below say what TLC finds without it.

### Known divergences

What follows was met while modelling. Each is stated by a definition at the end of its module, or by a
property of a run with other constants or without an exemption named here, and TLC refutes it; no run
of `PROJECT.json` repeats it.

| definition | constants | what happens |
|---|---|---|
| `Cutover`: `PromotedSurvivesDrain` | `Requests = {"deploy", "drain"}`, 2 requests | the drain's last kills reach a green that a re-armed verify promoted (`core/services.py:1016`) |
| `Cutover`: `CancelIsNoVerdict` | same | a tick during a drain's cancel takes it for a crash and fails the generation (`core/cutover.py:992`) |
| `Cutover`: `PointerNamesServing`, `NoDialToRetired` | `Requests = {"restart", "drain"}`, 2 requests | the same cancel clears the pointer under a green that a re-armed verify is promoting, and blue is retired while the proxy dials its port |
| `Cutover`: `CommitIsFinal`; `MarkerTellsTheSide` | same; two deploys and a drain, 3 requests | a drain's cancel pops the marker of a verify that runs on; a tick that fetched before that verify promotes and ends arms again over its snapshot, with the retired container as blue |
| `Cutover`: `SupersededArmIsHandsOff` | `Requests = {"deploy"}`, 2 requests | a missed compare-and-swap in `_arm` leads to the destroy-first swap of a superseded snapshot (`core/cutover.py:379`) |
| `Cutover`: `PointerNamesServing` | `Requests = {"deploy"}`, 2 requests, 1 fault, `BootSettles = FALSE` | a deploy over a marker that it read, a crash's for one, drops the record of blue's port |
| `Cutover`: `MarkerTellsTheSide`, `CommitIsFinal` | `Requests = {"deploy", "rollback"}`, 2 requests, 2 faults, `BootSettles = FALSE` | a rollback that read the marker which a tick had just written, before its verify task was registered (`core/cutover.py:381`), writes under that verify, which promotes all the same; a tick that fetched in between arms again over its snapshot, with the retired container as blue |
| `ReleaseGate`: `LaunchedWasReleased` | as in the run, also without a fault | `core/app_build.py:249` has it that a launch is blocked "while a build/release needs to finish or settle". A tick that fetched before the marker was armed and reaches the gate after the task has failed finds neither marker nor task, and launches the image of a failed release (`core/app_build.py:315`). So does the tick after a crash between an image and its marker, and one that finds the tag of a deleted service of the same name |
| `ReleaseGate`: `ReleaseNeverTwice` | as in the run | the daemon dies during a release whose context is still on disk, and the runtime loses the tag: layer 2 of `ensure_built` (`core/app_build.py:275`) comes before the marker of layer 3, rebuilds, and the migration runs a second time. A generation that a rollback put back, with its context still there, can be released again as well |
| `ReleaseGate`: `HoldsForLostImages` | as in the run | the gate takes every missing context for an image that was built and then lost (`core/app_build.py:278`-`281`); a generation whose first build failed and that is restarted waits for an image that never was |
| `ReleaseGate`: `StampsSpareRedeploys` | as in the run | `stamp_last_deploy` compares its `expect_version` with the row it read and then writes the whole `last_deploy` it read (`core/deploy_state.py:45`-`93`); a redeploy that lands in between has its own overwritten with the older generation's, although `:40` calls the parameter "protecting newer redeploys" |
| `ReleaseGate`: `HealthyWasReleased` | as in the run | a deploy that lands while the tick launches the generation before is reported healthy and never built (`core/launch.py:398`) |
| `ReleaseGate`: `RollbackRunsNoRelease` | `Requests = {"deploy", "rollback"}`, 3 requests, no fault | the build task of a superseded generation takes its run slot only after its build (`core/app_build.py:596`); if the row is rolled back to that generation once its image is tagged, the task finds its own version on the row, arms the marker that the rollback dropped and starts the release, although `core/app_build.py:17` says that rollback "never runs a release command" |
| `Idempotency`: `RunsOnce` | as in the run | a retry whose key was swept between its refused claim and its read runs without a claim, beside the one that claims the key next, although `src/README.md:132` says that a retry never runs an action twice |
| `LinkMux`: `ClosedIsSilent` | as in the run | an app stream sends one more frame after the relay closed it (`core/link/frames.py:419` asks it to stop) |
| `LinkCustody`: `WipesOnlyEnrolled` | `MaxSwaps = 0` | an unlink deletes a key nobody enrolled: one provisioned by hand at a path configured since boot |
| `ServicePurge`: `NoRunUnderThePurge` | `MaxRestarts = 0`, `MaxFaults = 0` | a run registered between the look and the delete writes to the tree that is removed |
| `GitWatch`: `NudgedWasHandled` | as in the run | a poll's success marks a nudge for a later commit as handled (`core/gitwatch.py:314`), and its retry is ignored, although `core/gitwatch.py:170` has a nudge "never burned by a dedupe entry laid down before the sha was ever handled" |
| `EventFeed`: `NewestAreKept`, `CursorSkipsNothing`, `StreamIsExact` | as in the run, without their exemptions (`KeepLast` for `Owed`; without `\ dirty`; without `dirty`) | reads share the writer's connection and take no lock (`db/database.py:385`), so that a sweep, a drain and a stream see a row that is rolled back afterwards; its number is given out again behind a watermark, a cursor or a `Last-Event-ID` that has passed it |
| `EventFeed`: `StreamIsExact` | `KeepLast = 1` | a watermark that counted such a row empties the table under a stream, whose catch-up then finds neither the row nor a hole |
| `ServicePurge`: `OpensItsData` | same | a database is started with another credential than its data was made with, by a launch that was under way when the delete moved the tree |

`GitWatch` shows two more that no comment denies: an opt-out, a stop or a change of source that lands
during the clone is past both gates and is undone by the redeploy's write; and a clone that fails for a
passing reason pins a good commit as failed until the branch moves.

## Fairness

`WF` on the tick, the verify task, the cancel, the sweep, the proxy reconcile, the second statement of
a restart and the re-exec of a drain. Each is a coroutine of the event loop that is scheduled again
whenever it can run: the loops are periodic (`core/workload.py`, the sweeper and the proxy's
interval), every external call has a timeout, and a task ends with its last statement. Nothing is
assumed of operators, faults, or the outcome of a probe, a launch or a registration. The proxy may
fail as long as it likes in `register`, but the reconcile that is fair succeeds in the end: a Caddy
that never answers refutes `RouteConverges` and is outside its claim. `StopHonoured` allows that the
settle of a failure or another request overrides the desire to stop, as the code does.

In `ReleaseGate`, `WF` on the tick, the build task (the release has a timeout) and the re-exec of a
drain. Nothing is assumed of requests and of lost images, which may stay lost.
`DeploySettles` is about a row that says `building` or `restarting`: a
deploy that a relaunch overwrote with `running` (`HealthyWasReleased` above) leaves the gate that way.

In `Idempotency`, `WF` on each request's steps, the sweep and the passing of time; `SF` on the end of a
handler, which may start effects again and again but no handler of the code works for ever. Nothing is
assumed of cancellations and crashes. In `LinkMux`, `WF` on each task's steps, its watchdogs (timers of
`asyncio`), the delivery of a cancellation, the `finally` of `_serve` and `aclose`, which the manager
calls for every dead socket; nothing is assumed of the relay. In `GitWatch`, `WF` on the tick, time and
the poll; `SF` on the success of each of a poll's steps, as a poll is tried again and again: the remote
answers in the end and no run or cutover is in the way for ever. Without that `ShipsTheNewest` is not
to be had, and the code claims no more. Nothing is assumed of pushes, nudges and operators.

In `EventFeed`, `WF` on the loop of the target (a task of its own that sleeps and goes on after any
exception; every request it makes has a timeout) and on the writer that holds the lock, which has only
its commit and publish left. Nothing is assumed of receivers, which may refuse for ever, of clients, and
of what is recorded or swept.

## Proofs

`Cutover_proofs` is checked by TLAPS for every value of the constants that satisfies
`ValueAssumption` (ids and ports are not the null values; the stable and the transient range are
disjoint) and `BoundAssumption` (the types of the bounds). Nothing bounds the containers, requests,
faults or versions, and every request kind is included, drains too.

* `TypeCorrect`: `Spec => []TypeOK`.
* `OwnershipHolds`: `Spec => []Ownership`.
* `StoppedServicesAreDown`: `Spec => []StoppedIsDown`.
* `ServingIsKept`: `Spec => KeepsServing`.

`KeepsServing` is not inductive: that a sweep does not kill the row's container depends on what the
sweep protected two steps earlier and on which green was registered then. `Ownership` says who holds
what, in six parts: every id that anyone holds was handed out (so that a new container is nobody's);
past its gate the tick excludes the verify task and its snapshot is current where it kills; past a
stop's teardown the row has no live container; the task's green is neither the row's nor blue until
the commit and is the row's after it, and is registered exactly between `TaskBind` and its end; the
greens of a cancel cannot be adopted or promoted any more; and what a sweep may kill is neither the
row's container, nor the tick's new one, nor the task's unprotected green. The proof that a step keeps
it goes actor by actor and, within an actor, action by action (`TickKeepsOwnership`,
`TaskKeepsOwnership`, ...), with one step per part the action can disturb. `ServingIsKept` then
reduces to `OnlyKillsKill` (the steps that can end a container) and to each of those steps sparing the
row's container under `Ownership` (`KillSpares`).

The rest of `Cutover_proofs` is about the marker, the dial and the pointer, and rests on two facts about
the environment that each theorem names:

* *no drain* (`"drain" \notin Requests`). A stop's cancel holds the tick, a drain's runs beside it, and
  the tick takes it for a crash. TLC refutes each of these properties under drains.
* `BootSettles`: no request writes over a marker that it read. Without it TLC refutes all but
  `NoDialToRetired`, which is proved without it.

The known divergences above are these refutations: the assumptions leave out exactly the two situations.

From them follow, one on another:

* `RetiredIsNotDialled` (`NoDialToRetired`; no drain). `DialInv` says which port Caddy may still dial
  between the repoint and the retirement: once the task has seen the dial it is the green's port or none,
  and whatever a proxy reconcile writes is the pointer, which f1 moved before (`DialHeld`). Blue listens on
  another port than the green, since the transient one was free when it was reserved (`PortsApart`).
* `MarkerTellsTheSideHolds` and `CommitsAreFinal` (both facts). `MarkerInv` says what each actor's copy of
  the marker still means when it acts: the tick's snapshot from its gate to its mark (`TickMarks`), the
  task's generation from its start to its pop (`TaskMarks`), and that before a settle the row still names
  blue (`BeforeSettle`). `MarkerTellsTheSide` alone is not kept by a mark over a snapshot, nor by a promote.
* `PointerNamesServingHolds` (both facts). The pointer does stray, between the arm and the commit point;
  `PointerInv` says that then, and only then, blue's port is on record in the marker (`OnRecord`), and
  follows the port through every place where it is moved or put back (`TickPoints`, `TaskPoints`,
  `CancelPoints`). Its proof uses all four invariants above, and that a live container keeps its port,
  its generation and its label (`Kept`).

`ReleaseGate_proofs` proves the four safety properties of the gate (`ReleasesRunOnce`,
`ReleasesAreOnRecord`, `UnfinishedReleasesAreHeld`, `SupersededTasksKeepOff`) for any number of requests,
faults and generations, of every kind, any lost images and surviving tags and any depth of a prune; no
theorem assumes more than `BoundAssumption`. What they leave out is in the statements, and named above.
`GateInv` is about four readers of one row that do not read it at the same time. Every row, whoever
holds it, is on its own deploy or one step back; a generation beyond the allocator, queued or about to
be built is untried; an image on a row of its own deploy has its release behind it, on record, or next
in the task that made it; what a row can still be rebuilt from exists only while nothing was run, unless
the runtime lost that image or a rollback put the generation back; and a snapshot that no task's end has
aged is of the same deploy, or the row was rolled back or is on an untried one since (`TickOK`). Of a
stamp that is read and not yet written it matters only that it does not put a generation back into the
queue of builds: a task's never says `queued`, a tick's only where nothing was released (`StampOK`).

`Link_proofs` has two parts. One proves `LiveStreamsAreTracked`, `ResponsesAreWhole` and
`ClosedStreamsAreSilent` of `MuxSpec`, for any number of streams, any non-empty set of ids, any cap and any
choice of `Wrapped`. `MuxInv` adds what each place of
a task knows of the frames that went out before it (`SentAt`), so that every step of a task is a move to a
place that fits (`MoveKeeps`), and that a live task is registered until it is cancelled (`Tracked`), which
holds when an id is reused because the table is overwritten and a late `finally` removes only its own entry.

The other (under `CustodyAssumption`: the null values are not values, and there is a directory) proves the four properties of the run (`LinkedKeysAreKept`, `LinksShowTheirOwn`, `LinksProveTheirKey`,
`LinksAreAskedFor`) and `TypeCorrect` for any number of callers, paths, clouds, nodes and calls.
`CustodyInv` says that whoever is past its lock holds it and nobody else (`Turns`), so that what a claim, a
device start, an approved poll or an unlink relies on need be stated of the holder only (`HolderOK`); a
device poll is the one that carries anything across a wait without the lock, a flow whose key and path
still belong together (`PollOK`), and an unlink takes the pending flow with it (`SlotOK`). `KeyHeld` is
`KeyOutlivesTheLink` said of where the key was committed, since the configured path may have moved by the
time a wipe runs.

`ServicePurge_proofs` proves `BytesAreKept` (`BytesKept`), `RunsAreDown` (`KnownRunsAreDown`), `NextRowIsKept`
(`LiveRowKeepsItsOwn`) and `TypeCorrect` for any number of deletes, runs, releases, rows, launches and
faults. `PurgeInv` rests on the numbers of the rows: whatever lies about was made by a row up to the present
one (`Made`), so that a row that takes the name owns none of it. `AsideOK` follows a tombstone: before its
delete moves the tree there is none, and once the row is deleted what is in it is not the next row's.
`SeenOK` follows what a delete saw of the runs: unless it saw one without a container, each is bound or
over, and one that is up is still to be killed or known to have survived. A slot is used once, so that
stays true while the delete goes on. `PurgeAssumption` takes `MaxRows >= 1`, the service's first row being there from
the start.

`SecretScope_proofs` needs `ScopeAssumption` (the admin, the tokens, the requests and Nobody are apart) and
proves, for any number of submitters and requests, `TypeCorrect`, `ValuesAreKept`
(`[]ValuesAreTheOwners`), `FilesAreReserved` (`[]FileIsReserved`) and `PurgesAreRightful`
(`PurgeTakesItsOwn`). What has to be added to the two invariants is what a request knows while it is in
its section: whoever holds a claim may have what lies in the file (`ClaimCovers`), a writer past its
verdict owns the row or the claim it was judged by (`WriterIsAdmitted`), one that found no file is alone
in saying so (`NothingLies`), and a purge that was reclaimed finds only values its row could have had
(`PurgerOwns`). The lock does the rest: while one request is inside, no other is, so that a step of the
holder has only its own section to keep (lemma `Alone`); deploys take no lock, and the steps that insert
a row are the ones whose proof needs the claim.

`Idempotency_proofs` proves that the middleware implements `OncePerKey`, for any number of requests,
cancellations, crashes and effects: `TypeCorrect`, `Implemented` (`Spec => Once!Spec`) and
`ImplementedAsChecked`, the same as the run states it. The invariant says where each request may be
(`PlaceOK`), that the key is its owner's while it runs and while anything of it may still land
(`KeyIsHeld`), that what has landed is marked before a cancelled request lets go (`EffectIsMarked`), and
that an expired row is of a request that is past (`RecordIsCurrent`). Each action is then one of
`OncePerKey`'s or nothing to the caller; the lemmas are one per kind of step (`HandlerStep`, `LandStep`,
`ClaimStep`, `ReadStep`, `EndStep`, `ForgetStep`, `DieStep`).

`EventFeed_proofs` proves the four invariants of the run for any retention, chunk, batch, retry and queue
sizes, any filter and any number of rows, faults and crashes, with readers that see uncommitted rows:
`SuppressionIsOnRecord`, `NewestRowsAreKept`, `NothingIsSkipped` and, for `KeepLast > 1`,
`StreamsAreExact`. `FeedInv` has one part per piece of the code. The watermark of
a sweep is at least `KeepLast` rows behind the last one when it is read. What it counted and did not see
committed is one row at most, which can only be undone into `dirty`, so that it stays `Owed` rows behind
(`SweepOK`, lemmas `WatermarkIsBehind` and `UndoCuts`): without it `NewestAreKept` could be broken by the
second chunk of a sweep. A written row that is not published yet is on the guard's record (`WindowOK`).
And up to the drain's position every wanted row is settled, in the batch under way until the answer, or
in `dirty` (`CursorOK`), which holds when a batch is read because a batch has no holes (`FirstIsClosed`)
and afterwards because neither an insert, a sweep nor a rollback puts a new row behind it
(`TableMoves`, `KnownStays`). A number that somebody holds is `Known`: committed, that of the open transaction, or
undone and in `dirty`; this is what ties a reader to the rows it should not have seen.

For `StreamIsExact` what is sent next depends on everything between a row and its client, so the
invariant follows the row: the rows kept are an interval (`Contiguous`: rows come and are undone at its
end, a sweep takes them at its start), hence what a read returns is a run of consecutive numbers
(`AfterIsRun`); the rows about to be sent are chained to each other and to the client's number, or a gap
is announced in between (`TodoOK`); and a live stream is where its client is, unless the client was told
or its own row was undone (`Even`, `Excused`). That nothing has to be put after the rows of a catch-up
follows from `NewestAreKept`: a row that was published is among them, as long as at least one row is
`Owed`, hence `KeepLast > 1`.

`GitWatch_proofs` proves `NudgesAreAnswered` and `CommitsShipOnce` (`ShipsACommitOnce`) for any non-empty
set of sources and any number of commits, pushes, deploys, nudges and restarts. A nudge's answer needs only
the types: whatever ends a poll hands the slot to the next one when `renudge` says so (`EndIsTyped`). That
no commit ships twice needs what a poll knows at each of its places (`ShippedOK`): while the last redeploy
stands and nothing has moved since, the row is at it, what the probe returned is the head of the row's
source, and a poll that went past its comparison did so because that head is not the row's commit. A push
or a deploy by hand starts the history afresh (`shipped` is reset). The invariant says nothing of the
watch's dictionaries, which a restart empties and a prune forgets: the row alone keeps a commit from shipping
twice.

Model-checked only: all liveness properties, whose fairness is out of the prover's reach.

## Not modelled

The AI gateway and models, the CLI, the MCP server, the dashboard, the settings and the frame and form
parsing are clients or pass-through I/O with no protocol state; they are half of the lines. Auth, audit and limits
are per-request. Volumes, workspaces, the sandbox, encryption and backups transform data. Of what has
state: contention of several services for ports, GPU allocations (one transaction each), quota claims of runs, the proxy's site tables and certificates, and the link manager's back-off.

## Plan

1. `Ports`: several services over one range; no two hold a port, on the stable or the transient side.
2. A composition of `ReleaseGate` and `Cutover`, in which the launch of the one is the swap of the other,
   and of `ServicePurge` with `SecretScope`.
3. `Swap`, an abstract specification of a zero-downtime replacement that `Cutover` implements.
4. `Gpus`: a small module of its own.
