# TertiusEye: TLA+ models, checks and proofs

TertiusEye discovers what is installed and running on an endpoint and delivers
it to a multi-tenant backend. This directory holds TLA+ modules of its core,
TLC configurations that check them on small instances, and TLAPS proofs of the
safety properties for every instance. Paths below are relative to
the repository, `src/` in PROJECT.json.

## Inventory

| Component | Code | State | Operations | Talks to |
|---|---|---|---|---|
| Offline cache | `pkg/storage/sqlite.go` | table `offline_payloads`, AUTOINCREMENT counter, a mutex | Enqueue, DequeueAll, Delete, Count, Close | called by the client's `cacheOffline` and flusher |
| mTLS client | `pkg/network/mtls_client.go` | endpoint, `http.Client` with a 30 s timeout, the queue | Transmit, FlushOfflineCache, StartBackgroundFlusher | cache; backend over HTTP |
| Agent loop | `pkg/agent/agent.go` | engine, client, queue, ticker | RunOneShot, Start | engine, client |
| Agent program | `cmd/agent/main.go` | mode, signal context, UI server | daemon, one-shot, `-ui` (`/api/scan`), shutdown | agent loop |
| Discovery | `pkg/collector/*.go` | payload under construction; two channels and a pool | Engine.Collect | operating system; called by RunOneShot |
| Ingestion service | `pkg/ingestion/service.go` | buffered channel, workers, context | HandleTelemetry, startWorkerPool, processTask, Close | agents over HTTP; repository |
| Ingestion program | `cmd/ingestion/main.go` | server, repository or dry run | start, shutdown | service, repository |
| Tenant repository | `pkg/database/db.go`, `migrations/` | PostgreSQL tables under row-level security | WithTenantTx and the Save/Get operations | called by the service's workers |
| SaaS connector | `pkg/saas/graph.go` | retry count, backoff | ExecuteWithBackoff | Microsoft Graph |
| Cloud connector | `pkg/cloud/aws.go` | an inventory | AssumeRoleAndScan | AWS |
| Envelope encryption | `pkg/crypto/envelope.go` | a data key, for the time of a call | EncryptToken, DecryptToken | KMS |
| Configuration | `pkg/config/config.go` | settings | LoadConfig, ParseDurations, Validate | agent program |
| Dashboard | `web/index.html` (and the agent's copy) | the payload on display | triggerScan, toggleAutoRefresh | `/api/scan` |
| Payload model | `pkg/model/payload.go` | none | none | everybody |

What is hard, and what each part must get right:

- **Delivery** (cache, client, loop, program). Main's goroutine or several HTTP
  handlers transmit while the flusher works through a snapshot of the same
  table; any request may fail after the backend took it; the process may be
  signalled or killed anywhere and comes back to the same table. Right means: a
  payload is held, cached or accepted, or is one of a few losses one can point
  at; a row is deleted only when accepted; the backlog leaves oldest first; what
  was acknowledged is not sent again; the backlog drains; the agent can be
  stopped.
- **Ingestion**. Handlers push without blocking, workers pull, shutdown cancels
  a context and closes a channel both of them use. Right means: no send on the
  closed channel, every accepted task in exactly one place and processed at most
  once, no starvation, a shutdown that ends.
- **Discovery**. A pool over two channels, a walk, and a context that may be
  cancelled anywhere. Right means: it returns, reports nothing twice, and a
  payload returned without an error is complete.
- **Repository**. Tenant setting and statement in one transaction, foreign key
  and policies, last-writer-wins rows.
- **Connectors, encryption, configuration, dashboard**. Sequential error paths:
  backoff arithmetic, swallowed errors, the life of a key, unvalidated values,
  and answers of overlapping scans rendered out of order.

PROJECT.json lists these hazards one by one, each at its line, with the
properties that watch it.

## Modules

| Module | What it is |
|---|---|
| `OfflineQueue` | the table and the operations of `SQLiteQueue`, as the other modules use it |
| `Outbox` | what the agent promises, abstractly: custody, acceptance at least once, and losses by name |
| `AgentDelivery` | client, loop and program over `OfflineQueue`: the detailed specification |
| `AgentInvariant` | the inductive invariant of `AgentDelivery` |
| `AgentDelivery_proofs` | the theorems about `AgentDelivery` |
| `IngestionService` | handlers, worker pool, transactions and shutdown of the service |
| `IngestionInvariant`, `IngestionService_proofs` | its inductive invariant, and the theorems about it |
| `DiscoveryScan` | one call of `Engine.Collect` |
| `DiscoveryInvariant`, `DiscoveryScan_proofs` | its inductive invariant, and the theorems about it |
| `TenantStore` | what the repository promises, abstractly: a call takes effect at one moment, or is an error |
| `TenantRepository` | the repository's calls over a shared pool, PostgreSQL's tables and policies |
| `TenantInvariant`, `TenantRepository_proofs` | its inductive invariant, and the theorems about it |
| `Intake` | what the service is to its senders, abstractly: a bounded line and some workers |
| `TelemetryPipeline` | agent and service as one system, with the devices row behind them |
| `PipelineInvariant`, `TelemetryPipeline_proofs` | its inductive invariant, and the theorems about the composition |
| `AgentSchedule` | configuration file, flags, ticker and jitter: when the agent scans, over time |
| `Dashboard` | overlapping scans of a page, and which answer it shows |
| `GraphBackoff` | one call of the SaaS connector's retry loop |
| `EnvelopeCrypto` | overlapping calls of the envelope manager and the slices that hold their keys |
| `CloudScan` | overlapping scans of customers' accounts by one cloud scanner |
| `AgentSchedule_proofs`, `EnvelopeCrypto_proofs` | the theorems about these two; the inductive invariants of these five are at the end of their own modules |
| `Standalone_proofs` | the theorems about `CloudScan`, `GraphBackoff` and `Dashboard`, and about all five under one specification |
| `MCAgent`, `MCIngestion`, `MCDiscovery`, `MCTenants`, `MCPipeline` | the same for TLC: symmetry, and the small host of the scan |
| `MCStandalone` | `AgentSchedule`, `Dashboard`, `GraphBackoff`, `EnvelopeCrypto`, `CloudScan` for TLC |

### OfflineQueue and AgentDelivery

`rows` and `lastId` are the table and `sqlite_sequence`. `SQLiteQueue.mu` and
SQLite's transactions make each operation one step. Payloads are numbers, the
n-th successful scan collects payload n. Per goroutine (main, each `/api/scan`
handler, the flusher), `pc` is the place in the code, `hand` the payload it is
transmitting and `wire` its HTTP request. `todo` and `flushed` are the rest of
the snapshot and `flushedIDs`.

- `Start` is `main` up to the mode switch; only the daemon's `Agent.Start`
  launches the flusher, and only with a client and a queue. `Tick`,
  `ScanRequest`: the loop and the UI start a scan. `CollectOk`/`CollectFails`:
  `RunOneShot` up to Transmit. Without a client the payload goes nowhere.
- `Post`, `DoFails`, `Transmitted`, `TransmitRefused`, `CacheOffline`:
  `Transmit`. Sending and answering are separate steps, so that everything may
  happen in between. `Post` and `DoFails` also serve the flush, whose code makes
  the same call. A request that cannot even be built (a malformed endpoint)
  takes the code to the same place as a failed connection and is the same step.
- `PollTick`, `FlusherStop`, `FlushQuery`, `FlushCancelled`, `FlushSelect`,
  `FlushLoopDone`, `FlushOk`, `FlushBreak`, `FlushDelete`: the flusher. Count
  and DequeueAll are two steps because the code releases the mutex in between,
  and the `ctx.Done` return skips the Delete, as in the code. DequeueAll never asks
  `rows.Err`, so a query that fails half way may also hand the flush a prefix of
  the table as if it were all (`DequeueBroken`).
- `Signal`, `Shutdown`, `Exit`, `Crash` end the process; `Start` brings it back
  on the same table. `CtxDone` says which context applies: the signal's in the
  daemon and one-shot modes, the browser's request in a handler.
- External: `Accept`, `Refuse`, `LateArrival` (a request abandoned by the client
  that still reaches the backend), `Flap`, `Disconnect`.

`accepted`, `again`, `doubt` and `lost` are bookkeeping of the model: what the
backend took, what it took more than once, where the agent went on without
knowing the answer, and what it gave up. Nothing in the code depends on them.

### IngestionService

A request is a task, known by its name. `taskChan`, `closed` and `cancelled` are
the channel and the context; `req`/`answer` the handlers; `pc`/`task` the
workers; `fate` what became of a task. `Arrive`, `ReadBody` and `Reject` are the
handler up to the end of `io.ReadAll`: the server sets no `ReadTimeout`, so a client
may take for ever over its body, or break it off. The handler's push and its 202
are two steps. `Take` and `Stop` may both be possible after Close, because Go's select
does not prefer a case. A transaction is `Begin` and then `Commit` or
`SaveFails`; the latter may leave the row stored when only the answer of the
commit was lost. `Drained`, `CloseCancels`, `CloseClosesChan`, `Exit` are main's
end in the order its deferred calls run in: server, service, repository.
`pool.Close` waits for connections in use and for no worker.

`Begin` to `Commit` stand for what the code asks of PostgreSQL. Whether the
server takes `SET LOCAL ... = $1` depends on how the driver sends it, and is not
decided here: all statements may succeed, and any may fail.

`Core` is the refinement mapping onto `Intake`: the channel is the line, a
worker's task is what it has, `fate` says how a task ended. `KeepsIntake` makes
`Intake` a sound stand-in for the service in the pipeline.

### TelemetryPipeline

The module EXTENDS `AgentDelivery` and replaces its nondeterministic backend by
an instance of `Intake`: `Enter` is `Accept` together with the handler's push,
`TurnAway` is `Refuse` when the line is full (503) or the payload is one the
service never takes (400), and `EnterLate` and `TurnAwayLate` are the same for a
request its client has given up on. `Save` commits a worker's task and sets
`row`, the device's row, to it; `ServiceKilled` empties line and workers. Every
other step of the agent goes on next to a service that does nothing (`Alone`).

`SavedTwiceOnlyInDoubt` carries the agent's `RepeatsOnlyInDoubt` to the database:
wherever two copies of a payload are, in the line, with workers, or one of them
stored, the agent had gone on without an answer to one of its requests.

`deferred` and `overtaken` are bookkeeping for `RowGoesBackOnly`: payloads that
have been in the cache or in a late request, and payloads somebody was holding
when a newer one went past. A row may go back to an older state of the device in
no other way. That a late request, too, can overtake a payload another handler
still holds came out of TLC's first counterexample, hence the `Pass` in
`EnterLate`.

### AgentSchedule

`file` is the configuration file, reduced to whether it can be read, whether its
required texts are there, and the two durations, each missing, empty, malformed
or a number of units; `ScanInterval` and `MaxJitter` are what `DefaultConfig`,
`json.Unmarshal` and `ParseDurations` make of them, `Loads` is `LoadConfig`
including `Validate`. `VerifyCert` is main's early return for `-verify-cert`,
`status` the exit status. `FirstScan` to `Stopped` are `Agent.Start`; `Elapse`
is a unit of time, which passes only while a scan runs or nobody is ready to run
(maximal progress). The ticker's channel holds one tick, and a tick that finds it
full is dropped. `SilenceBounded` and `NoBurst` compare the schedule with what
the texts of the file mean (`WantedInterval`), not with what was parsed, and so does
`RunsUntilSignalled`, which says for each kind of file how a daemon may end: refused
before any scan, by the ticker's panic after the first, or after a signal.

### Dashboard, GraphBackoff, EnvelopeCrypto, CloudScan

- `Dashboard`: `calls` are the running calls of `triggerScan`, each at its
  `fetch` or its `json`, with its age. The interval fires whether they have ended
  or not, and they end in any order. `ShownIsFresh` bounds the age of what is
  shown once auto refresh has run for a while without a failure.
- `GraphBackoff`: the loop of `ExecuteWithBackoff`, a unit of sleep at a time,
  with cancellation anywhere. It also sleeps after the last 429, as the code does.
- `EnvelopeCrypto`: `mem` is the heap of byte slices, so that a variable that
  shares a slice with another is told apart from one that has a copy. With `kms`
  FALSE the fallback of a nil client wraps the key.
- `CloudScan`: `temp` is whose credentials the configuration of a call has: the
  platform's own at first, the role's in its copy. Each half of an inventory may fail without an error.

### DiscoveryScan

Processes and tag files are names, and `KeyOf` gives a file's deduplication key.
The scan runs through `stage`; the pool has one `pc` per worker, and `procChan`
is a set because the order of a process table carries no meaning. The
applications are appended one by one (the code collects them in a list first and
adds them after: the result is the same, a prefix if cancelled). An empty
process table, for which the code skips the pool, needs no case of its own.

`Roots` is never empty: `LoadConfig` puts the default paths in for an empty list.
That matters. A pool that is cut short by a cancelled context reports no error, and
neither does a walk, but the code looks at the context before each root, and there
is always one after the pool. `OnlyLastRootCut` says what a payload has wherever the
context was cancelled; `PayloadIsComplete` would be all, and fails for the last root
(`discovery_truncated`).

### TenantRepository

`tenants` and `rows` are what PostgreSQL has committed. A caller is a goroutine
in one call of the repository at a time (`pc`, `op`); it holds a connection of
the pool (`conn`, `busy`) from `Begin` to the end of its transaction. Per
connection, `setting` is `app.current_tenant_id`, `write` the uncommitted row,
`broken` a transaction that can only roll back.

- `Call`, `Begin`, `SetTenant`, the statement, `Commit` or `Rollback` are
  `WithTenantTx` around its closure; `BeginFails`, `StatementFails`,
  `CommitBroken`, `CommitFails` its error returns. `Release` is the end of the
  transaction, and of SET LOCAL with it.
- `Upsert`/`UpsertRefused` are the three Save operations, which differ in their
  table only. `MayWrite` is the foreign key and the policies' USING clause, which
  PostgreSQL also applies to what is inserted; `Upserted` is ON CONFLICT, which
  keeps key and tenant; `Ready` is the row lock a second upsert waits for.
- `Select`, `ScanRow`, `RowsEnd`, `RowsBreak` are `GetDevicesForTenant`, one row
  at a time; `owned` (bookkeeping) is what the tenant owned when the statement
  ran. `SelectOne` is `GetCloudCredential`: any of the tenant's credentials.
- `UpsertTenant` is a statement without a transaction of its own.

`Phase`, `Seen` and `Answer` are the refinement mapping onto `TenantStore`: a save
takes effect at its COMMIT (and may do so although the caller is told an error), a
read at its SELECT, of which the caller learns later. With an error the caller may
still get rows (`GetDevicesForTenant` returns what it has scanned beside it); they
are of that moment too. `ActsAtOnce` is what a caller may rely on without knowing
of pool, transactions and row streams.

PostgreSQL exempts superusers and the owner of a table from its policies, and
which role the pool connects as is an argument of the program. `Bound` says
whether the policies bind it. The role of `docker-compose.yml` and of the `-db`
default, `postgres`, is a superuser, so that configuration is `Bound = FALSE`:
there `MayWrite` and `Visible` filter nothing, reads still give a tenant its own
rows (the statements carry a WHERE clause of their own), a row still keeps its
tenant, but an upsert that meets another tenant's key updates that row.
`TenantsApart` and `SavedIsStored` say for each role what holds under it.

## Runs

| Run | Instance | Asks |
|---|---|---|
| `agent_safety` | 3 scans, payload 2 poisoned, all three modes in turns, 2 handlers, all faults and restarts (836 thousand states up to symmetry) | all safety properties, the inductive invariant, and the refinement of `Outbox` |
| `agent_liveness` | 3 scans, 1 handler, daemon and `-ui` | `BacklogDrains`, `SignalledEnds` |
| `ingestion_safety` | 5 requests (3 good, one without header, one unusable), 2 workers, buffer of 2, all faults, broken bodies and restarts (708 thousand states up to symmetry) | `NoSendOnClosed`, `TaskInOnePlace`, `FateFinal`, the refinement of `Intake`, and the inductive invariant |
| `ingestion_liveness` | 3 requests, 1 worker, buffer of 2, stalling clients and database | `QueuedSettles`, `ShutdownCompletes` |
| `discovery` | 3 processes, 2 workers, 3 roots (one missing) with a malformed file, a file without a key and repeated keys, 2 applications | `CollectReturns`, `OnlyLastRootCut`, `SendNeverBlocks`, `CompleteUnlessCancelled`, and the inductive invariant |
| `tenants` | 2 callers, 2 tenants, 2 connections, 2 devices, 1 credential, 2 values, a bound role (653 thousand states up to symmetry) | `TenantsApart`, `SavedIsStored`, `ReadsAreTrue`, `ConnectionsReturned`, the refinement of `TenantStore`, and the inductive invariant |
| `pipeline` | 2 scans, daemon and `-ui` in turns, 2 handlers, 2 workers, buffer of 2, late requests, an absent backend, kills on both sides (1.85 million states up to symmetry) | `EndToEnd`, `SavedTwiceOnlyInDoubt`, `RowGoesBackOnly`, and the inductive invariant |
| `standalone` | one of five parts per behaviour: every file with intervals 0, 2, 5 and jitters 0, 3 (and both missing, empty, malformed); period 3, latency 4, 3 calls of a page; 5 attempts from a backoff of 2; 4 crypto calls with and without KMS; 3 cloud scans of 2 roles (530 thousand states) | `SilenceBounded`, `NoBurst`, `RunsUntilSignalled`, `ShownIsFresh`, `WaitsDouble`, `CancelIsPrompt`, `EnvelopeStaysReadable`, `NoKeyOutlivesCall`, `InventoryIsRoles`, and the five inductive invariants (`PartInv`; `SpinnerEnds` is part of the page's) |
| `agent_flush_cancel` | violation: a cancelled flush leaves delivered rows | `FlushDeletesDelivered` |
| `agent_ui_flush` | violation: the `-ui` mode never flushes | `CachedIsFlushed` |
| `ingestion_close` | violation: Close drops acknowledged tasks | `CloseIsGraceful` |
| `discovery_truncated` | violation: a payload cut short in the last root, without an error | `PayloadIsComplete` |

The four violations are places where the code does otherwise than a comment or
the README says; PROJECT.json quotes both sides under `findings`. Every property
of a passing run has a mutant, an operator marked `Mutant` next to the
definition it breaks, with which TLC finds the property violated.

No run checks types alone: the inductive invariants `AgentInv`, `ServiceInv`,
`ScanInv`, `RepositoryInv`, `PipelineInv` and `PartInv`, each checked by TLC on the
instance whose properties it implies, contain the type invariants of their modules.
`standalone` puts five parts that share nothing at run time into one run: `Init`
picks one, and the others stay where they are.

Bounds. `MaxScans` bounds the scans over all restarts and with it `lastId` and
every set of payloads; nothing else is bounded, in particular not the number of
restarts, signals or flush passes. Three payloads are the least with which a
pass can succeed, fail in the middle and leave a rest, while a fourth party (a
late arrival, or main) acts on one of them; the proofs remove the bound. In the
ingestion runs three good tasks exceed both the buffer and the number of
workers, so saturation, full workers and an idle worker all occur. In the scan
three processes exceed two workers, and every kind of file occurs once with its
key occurring again elsewhere. In the repository two callers suffice for two writers
of one key, of one tenant or of two, and two devices for a list that breaks off;
tokens have no key in the instance, being saved as credentials are. In the
pipeline two payloads are what one row can be wrong about; two handlers, two
workers and a buffer of two let them swap in every place they can meet. The
schedule has an interval below and one above the default, a jitter above the
shorter interval, and scans of any length; ages are counted up to `AgeCap`, above
every interval. On the page a call may outlast the period, so that several
overlap. Four crypto calls are two tokens with a reader each, or one with three.
Symmetry is used in safety runs only; neither
handlers nor workers nor the good requests, and in the repository neither callers
nor connections nor tenants nor values, are named by a formula, and no
ordering is taken among them.

Deadlock is checked in all passing runs but `discovery`, where the scan is over
when Collect has returned, and `standalone`, whose calls return and whose agent
exits.

## Fairness

Safety is stated under `Spec`, without fairness. For liveness (`FairSpec`):

- Goroutines that can run do run (weak fairness of each sender's, handler's,
  worker's and main's steps): the Go scheduler. A handler of the ingestion service
  can run once it has its body; until then it waits for its client, which nothing
  forces to send (`Receive` has no fairness). The few bytes of an answer are taken
  to be written.
- `Post` or `DoFails` is strongly fair per sender: the client's 30 s timeout
  ends every wait, even if the network comes and goes so that no single outcome
  stays possible. The backend answers while it is up (weak fairness).
- `Exit` of the daemon is strongly fair: it competes with the ticker in a
  select, which chooses at random among ready cases and so will not choose the
  ticker for ever.
- Scans, requests, signals, crashes, outages and errors are never forced.

`BacklogDrains` asks for a backend that stays reachable and goes only up to the
first poisoned row; `QueuedSettles` asks for a database that keeps answering.
`ShutdownCompletes` needs neither, but it begins where no client is still sending:
`server.Shutdown(context.Background())` waits for such a handler without a deadline.

## Proofs

`AgentDelivery_proofs` proves, for every number of scans, every set of handlers,
modes, faults and poisoned payloads (`AgentAssumption` is all that is assumed),
that `Spec` implies `[]AgentInv`, and from it `[]TypeOK`, `[]NoSilentLoss`,
`[]RepeatsOnlyInDoubt`, `[]FlushOldestFirst`, the action property
`RowsLeaveAccepted`, and `KeepsPromise`, the refinement of `Outbox`.

None of the properties is inductive by itself. `AgentInv` adds:

- `Grip`: a sender's `hand` and `wire` agree with its `pc`;
- `Known`, `RowsDistinct`, `OneKeeper`: payloads and ids are fresh, so a payload
  is with one scanner or in one row. Without it one could not conclude from a
  row being deleted that another copy is not still unsent;
- `SnapshotInOrder`: the snapshot is a slice of the table, delivered rows below
  it and rows enqueued meanwhile above it. `FlushOldestFirst` and the safety of
  Delete come from this;
- `AnswersTrue`: what the agent takes for accepted is accepted, so Delete
  removes accepted rows only (`RowsLeaveAccepted`) and custody ends rightly;
- `KnownOrDoubted`: an accepted payload that is still kept is either known to
  this pass as flushed, or in doubt. It makes `RepeatsOnlyInDoubt` inductive.

The proof goes part by part (`ShapeStep`, `BooksStep`, `SnapshotStep`,
`AnswersStep`, `DoubtStep`), each with one step per action that can disturb the
part. For the refinement each action is matched with a step of `Outbox`
(`StepKeepsPromise`); that nothing is lost silently is then inherited from
`Outbox` (`ConservedStep`), whose invariant `Conserved` is `NoSilentLoss` under
the mapping. TLC checks `AgentInv` too, in `agent_safety`.

`IngestionService_proofs` proves, for all requests, workers, buffer sizes and
faults (`ServiceAssumption`), `[]ServiceInv` and from it `[]TypeOK`,
`[]NoSendOnClosed`, `[]TaskInOnePlace` and `FateFinal`. `ServiceInv` adds to
these `MainPhase` (what main's progress says of the context, the channel, the
handlers, and, after an exit, of what is left: without it a restart might drop
tasks) and `Busy` (a worker has a task exactly while it processes one, an answer
exactly when its handler is done). `NoSendOnClosed` follows from `MainPhase`
alone: the channel is closed only when `server.Shutdown` has returned. Where
tasks are is proved from two lemmas about the channel as a queue of distinct
tasks (`Enqueueing`, `Dequeueing`) and one lemma per kind of move: into the
channel, to a worker, to an end, and out with the process.

`DiscoveryScan_proofs` proves, for every process table, number of workers, set
of roots and tag files (`ScanAssumption`; only the process table must be
finite), `[]ScanInv` and from it `[]TypeOK`, `[]OnlyLastRootCut`,
`[]SendNeverBlocks` and `[]CompleteUnlessCancelled`. `ScanInv` has three parts:

- `PoolInv`: a listed process is in `procChan`, in one worker's hands or
  reported, and never in two of these (`Apart`); while nobody cancels it does
  not leave them, and no worker returns before the channel is empty
  (`Conserved`). A worker about to send holds a process that is not yet among
  the results, so these are fewer than the processes listed: `SendNeverBlocks`
  is the pigeonhole principle (`FewerResults`).
- `TagInv`: up to where the walk has come (`Past`), the inventory has of every
  key the first usable tag, and nothing else (`UpToHere`). Each visit of a file
  moves this on by one place (`VisitStep`), and entering or leaving a root
  passes none (`MoveStep`). At the end every place is past.
- `RootsInv`: the same for a scan that may be cancelled. Entering a root shows that
  the context was in order, hence that the pool (`AllReported`) and all walks so far
  (`UpToHere`) were complete; from there on it is `Certain`. Leaving the root adds
  nothing, for its own walk may have been cut.

`ServiceKeepsIntake` proves the refinement of `Intake` from `ServiceInv`: each
action of the service is matched with one of `Intake` or a stutter (`IntakeStep`).
The invariant is needed where main's exit empties everything at once: what is
still queued or with a worker then is what `Vanish` drops.

`TelemetryPipeline_proofs` proves, for any number of scans, handlers and workers,
any buffer and any faults (`AgentAssumption`, `PipelineAssumption`),
`[](AgentInv /\ PipelineInv)`, and from it `[]PipelineTypeOK`, `[]EndToEnd`,
`[]SavedTwiceOnlyInDoubt` and `RowGoesBackOnly`. The first part of the invariant,
`CustodyInv`, is `AgentInv` with the types and `Backed`: what was answered 2xx is in the service or settled, and nothing else
is. `AgentInv` survives the composition because every step of it is a step of
`AgentDelivery` or none (`AgentMoves`), with one exception, a late request that
is turned away, which has a lemma of its own (`ForgettingLate`). `Backed` is
carried by one lemma per operation of `Intake` (`PushEnters`, `TakeStaysInside`,
`SettledLeaves`, `VanishEmpties`). `EndToEnd` follows from it and the agent's
`NoSilentLoss`.

`RowGoesBackOnly` needs to know, wherever two payloads are, which of them may be
the older without an excuse (having been `deferred` or `overtaken`). `OrderInv`
says it place by place: a payload that a scanner holds against one the backend
has accepted (`Outside`), two in the line (`InLine`), one in the line against one
at a worker (`Behind`), and one in the service against the row (`PastRow`).
Excuses are never taken back (`ExcusesStay`), and a new payload is newer than all
(`NewHandIsNewest`), so each operation of `Intake` only moves payloads from one of
these comparisons to the next (`PushKeepsOrder`, `TakeKeepsOrder`,
`SettleKeepsOrder`).

`SavedTwiceOnlyInDoubt` needs `CopiesInv`: two copies of a payload in the line
(`LineApart`), with two workers (`HandsApart`), or in two of line, workers and what is
settled (`PlacesApart`) mean that it was accepted `again`. A payload that comes in
while it is anywhere in the service has been accepted before, by `Backed`, so the
push puts it there (`PushKeepsCopies`); afterwards copies only change places
(`TakeKeepsCopies`, `SettleKeepsCopies`). What was accepted again is in doubt by
`AgentInv`, although the agent's part of it knows nothing of a service.

`PipelineKeepsPromise` says that with this backend the agent still implements
`Outbox`. (That the steps of the service's half are steps of `Intake` needs no
theorem: they are written with its actions.)

`TenantRepository_proofs` proves, for any number of callers, connections,
tenants, keys and values and for both kinds of role (`RepositoryAssumption`),
`[]RepositoryInv` and from it `[]ReadsAreTrue`, `[]ConnectionsReturned`,
`TenantsApart` and `SavedIsStored`. `RepositoryInv` adds to the properties:

- `UnderWay`, `Told`: a call holds a connection exactly while it is in its
  transaction, and behind SET LOCAL the session is that of its tenant;
- `Written`, `OneWriter`, `ForeignKey`: the uncommitted row of a connection is
  the one its caller saves, as the table will take it. Commit needs this to hold
  still while others commit, and it does because a key has one writer;
- `Cursor`: what was scanned is of what was owned, to the end of the call, whether
  it fails or not; what a list is sent is all of it, a list that ends early is on a
  broken connection, whose commit fails, and a get that commits has one row of it.

The steps of a call are of four kinds, one lemma each: outside a transaction
(`OutsideStep`), on inside it (`MoveStep`), the upsert (`UpsertStep`), and its
end (`EndStep`).

`RepositoryActsAtOnce` proves the refinement of `TenantStore` from `RepositoryInv`.
The moments are the COMMIT of a save (`CommitSaves`: by `Written` the row is still
what the table takes now, whatever was committed since the upsert) and the SELECT
of a read (`SelectLooks`: what a session told its tenant finds is what the tenant
owns, `OwnedIsFound`); what a read returns later is what it saw then, by `Cursor`
(`EndReturns`). All other steps inside a transaction are none to the caller
(`QuietSteps`).

`AgentSchedule_proofs` proves, for every configuration file and scans of any
length (`ScheduleAssumption`), `[]SilenceBounded`, `NoBurst` and
`[]RunsUntilSignalled`. First, what `LoadConfig` parses is what the file means
(`Parsed`); the rest is arithmetic over the time to the next tick. `Waiting` says
that in the select the tick is never later than the interval after the last
start. `Spacing` says that a tick in the channel found it empty, so it came after
the tick before it had been taken out: with a tick in the channel the start before the
last is already further away than the interval less the jitter, and without one
it will be by the next tick. `Outcome` and `Ticking` say how the agent can end: only
one of its selects returns 0, and these run only after a valid file and a first scan
with a positive interval. `ages` are capped, so the properties hold for every
cap above the intervals.

`EnvelopeCrypto_proofs` proves, for any number of overlapping calls, with KMS or
the fallback (`CryptoAssumption`), `[]EnvelopeStaysReadable` and
`[]NoKeyOutlivesCall`. Both come from one fact, that a slice has one owner
(`Apart`): `ZeroBytes` then reaches nobody else (`ZeroingOne`). It holds because
`DecryptToken` and the fallback copy where sharing would have been shorter. `Has`
is what a call has at each place of its code, `Opens` what a finished envelope
needs to be opened.

`Standalone_proofs` proves, for any number of calls and roles, any backoff and
retries, any period and latency (`CloudAssumption`, `BackoffAssumption`,
`DashboardAssumption`), `[]InventoryIsRoles`, `[]CancelIsPrompt`, `[]WaitsDouble`,
`[]ShownIsFresh` and `[]SpinnerEnds`, and that the five invariants hold together of
the specification TLC runs (`PartInvHolds`). A cloud scan's configuration is its own, so the others' steps
leave it (`OthersStay`). A cancelled retry loop is past its last check
(`Promptness`). That its waits double (`Doubled`) takes 2^(n+1) = 2 * 2^n, which the
provers do not know of the power of the standard modules; `Doubling` derives it by
counting: a set of n + 1 elements has the subsets of the first n, and as many again
with the last. For the page, `PageInv` says that a call started by the interval
is running, or was rendered since it started (and then something younger than a
latency was shown), or auto refresh was interrupted: `LastCall` of the newest
such call, `EarlierCalls` of each window as long as the period. The window that
starts beyond the latency has no running call left, which is `ShownIsFresh`.

Of every property that a passing run checks there is a theorem, except where it
is out of the prover's reach and checked by TLC only: liveness under fairness
(`BacklogDrains`, `SignalledEnds`, `QueuedSettles`, `ShutdownCompletes`,
`CollectReturns`), and with it everything about ENABLED. That the four violations
occur is shown by TLC's counterexamples.

## Not modelled

- The payload model (`pkg/model/payload.go`): plain data types without behaviour.
- TLS and certificates are the success or failure of `NewClient` and of
  `LoadTLSKeyPair`. Payload contents, JSON, HTML, logging and the wording of flags
  are data. What the parsers read out of tag files and plists is data too, given
  to `DiscoveryScan` by `KeyOf` and `Malformed`.
- Of the dashboard, sorting, filtering, markup and style. `web/index.html` and the
  agent's copy of it are alike in what is modelled.
- The programs `saasdisc` and `clouddisc` make one call of their connector and
  end; they add nothing to its module. The connectors are connected to nothing
  else in the source.
- Width of the backoff: it doubles without a cap, but no caller asks for more than
  a handful of attempts, far from what would overflow an int64 duration.
- Pagination: DescribeInstances and ListBuckets are asked for one page, and
  `CloudScan` has accounts whose listing is one page.
- The SQLite file is never corrupted, and has no bound in the code, so that there
  is no behaviour at a limit to state. `/healthz` has no state. Whether PostgreSQL
  takes bind parameters in SET LOCAL is outside the source (see IngestionService).
- End-to-end liveness (what is scanned reaches the row) is not a run: each half
  has its own (`agent_liveness`, `ingestion_liveness`), and between them stand
  losses the code allows.
- The documentation also names a `webconsole` program and a `saas_inventory`
  table that the source does not contain.

## Plan

1. (done) Delivery: `OfflineQueue`, `Outbox`, `AgentDelivery`, checked and proved.
2. (done) `IngestionService` and `DiscoveryScan`, checked and proved.
3. (done) `Intake` and `TelemetryPipeline`: the composition, checked; end-to-end
   custody, the order of the row, the copies in the database, and the refinements
   of `Intake` by the service and of `Outbox` by agent and pipeline proved.
4. (done) `TenantRepository`, checked and proved, with the refinement of
   `TenantStore`.
5. (done) `AgentSchedule`, `Dashboard`, `GraphBackoff`, `EnvelopeCrypto`,
   `CloudScan`, checked and proved.
