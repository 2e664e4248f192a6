# A TLA+ model of the brains runtime

`brains` runs a personal knowledge base as two processes over one SQLite file: a *web*
process (interfaces, schedulers, admission of work) and a *worker* process (handlers), both
children of a supervisor that also owns a *broker*, the one process that touches the Git
checkout of the content.
Everything slow or failure-prone goes through a durable job queue; derived entities
(topics, summaries, embeddings) are recomputed in *waves* of queue jobs. What can go wrong
in this system goes wrong between processes: a worker that stalls, a claim that expires,
a retry that overtakes the attempt it replaces, a reader that seeks past a row being
written. Those are the behaviours modelled here.

All paths below are relative to `src/` of the repository.

## 1. Inventory

| Component (source) | State | Operations | Hard behaviour | What makes it correct |
|---|---|---|---|---|
| **Durable queue** `shell/job-queue/src/job-queue-repository.ts`, `job-deduplicator.ts`, `schema/job-queue.ts` | tables `job_queue`, `job_worker_sessions` | enqueue with `none/skip/replace/coalesce`, claim/reclaim, complete, fail (two statements), progress, lease renewal, session start/heartbeat/end, cleanup | several processes, late tokens, leases and sessions that expire, read-then-write in `fail` | a job runs at most `maxRetries + 1` times, settles once, is never taken from a live attempt; coalescing requests never run side by side |
| **Worker** `shell/job-queue/src/job-queue-worker.ts` | flags, session, `activeJobs`, `FiberMap`, per-attempt heartbeat | start, stop, poll, run, heartbeat, deadline, terminal callbacks | a stop while a claim is in flight, handlers that ignore cancellation, a job claimed again by the same worker | no claim is stranded under a live session, concurrency is respected, callbacks report the job's one outcome |
| **Progress monitor** `shell/job-queue/src/job-progress-monitor.ts` | a seek cursor and a page in hand | poll, publish | rows rewritten while they are read, ties, cursors that sink | every terminal write is announced, once |
| **Batch manager** `shell/job-queue/src/batch-job-manager.ts` | in-process map of batches | enqueueBatch, status, cleanup | failure half-way through the enqueue, restart loses the map | a batch is reported complete iff its jobs are |
| **Projection store** `shell/entity-service/src/projection-store.ts` | dirty-input journal, waves, rules, memos, incidents, batches with leases, admission epoch | mark dirty, claim, apply result, supersede, fail, complete, open/close/renew/recover batches | sources change while their wave is claimed, run, superseded or failed | no dirty input is forgotten, one wave at a time, no result of an older epoch is applied |
| **Projection runtime** `shell/core/src/projection-*.ts` | serial queues, sweep flags, admission | plan, enqueue, advance, sweep, repair, supervise | wake-ups during a sweep, decisions on stale snapshots, two processes with a scheduler each | every wave ends; no wave is failed because its job was about to report |
| **Entity service** `shell/entity-service` | entities, embeddings, FTS | CRUD, embedding jobs | embeddings of old content arriving late | an embedding matches its entity's content |
| **Recurring checks** `shell/recurring-checks`, over `shell/scheduler` and `shell/runtime-state` | rows of alerts, the time of the last success, the registered check and its active run | schedule, catch up, run, flush, record, deliver, suppress, resolve, reload, stop | an aborted run whose body goes on, a process that dies between a delivery and its record, an admin who resolves meanwhile | an alert is sent once and handled before success is recorded; a missed time is made up |
| **Process supervisor** `packages/brain-cli/src/lib/process-supervisor.ts` | three `ManagedChild` records, timers, attempts, the outcome | spawn, watch, fail, replace, restart, shut down | processes that hang, exit late, leave Git children behind; timers that outlive what they were armed for | one owner of the checkout at a time, stopped after the roles; a lost child is replaced and a shutdown ends |
| **Shell** `shell/core/src/shell.ts`, `daemon-registry.ts` | plugin and daemon registries | init, start, stop | partial start | daemons stop in reverse order |
| **Directory sync: the owner of the checkout** `plugins/directory-sync/src/lib/broker` | journal, admission flag, the checkout | execute, rotate the journal, open and close admission | an owner that dies in the middle of an operation, an answer that is lost, a record that cannot be written | a replacement changes nothing before what was cut short has been looked for |
| **Directory sync: the roles** `plugins/directory-sync/src/lib`, `plugin.ts` | a checkpoint in the runtime state and in two memories, schedules | pull, queue what it brought, save the checkpoint, commit and push, replay | two processes that move one checkpoint, crashes between pull and queue | what the remote brought is queued for import |
| **Directory sync: files** | files, watcher, quarantine | import, export, watch | loops between both directions | both sides converge |
| **Content pipeline, playbooks, email** | publish queue | queue, publish, retry | double publication | at most one publication per item |
| Auth, conversation, AI, messaging, interfaces, site builder, deployment | - | - | parsing, rendering, I/O | outside this project |

Interactions: producers (plugins, the projection scheduler, the batch manager) *enqueue*;
workers *claim* and call handlers; terminal callbacks call back into the projection
runtime and the batch manager; the web process learns of progress only by *reading the
table*; the supervisor replaces a worker that exits and an owner that is lost; roles ask the owner over a
socket and open its admission again after they have reconciled; recurring checks run as jobs of the queue.

## 2. Modules

| Module | Role |
|---|---|
| `JobLifecycle` | the promise of the queue about one job: waits, runs at most `Budget` times, settles once, forgotten |
| `JobQueue` | the two tables and every statement on them |
| `JobQueueProofs` | theorems about `JobQueue` for all values of the constants |
| `JobWorker` | worker processes composed with `JobQueue` |
| `JobWorkerProofs` | theorems about `JobWorker`, which extends those about the queue to the composition |
| `DurableReader` | the durable-reader mode of the progress monitor composed with `JobQueue` |
| `DurableReaderProofs` | theorems about `DurableReader` for all values of the constants |
| `ProjectionStore` | the journal of dirty sources, waves, rules, batches and incidents, and every transaction on them |
| `ProjectionStoreProofs` | theorems about `ProjectionStore` for all values of the constants |
| `ProjectionWaves` | the schedulers of both processes and the rule jobs, composed with `ProjectionStore` |
| `ProjectionWavesProofs` | theorems about `ProjectionWaves`, which extends those about the store to the composition |
| `ProcessSupervisor` | the parent process and the processes it owns |
| `ProcessSupervisorProofs` | theorems about `ProcessSupervisor` for all values of the constants |
| `GitBroker` | the owner of the checkout: admission, journal, operations, death and replacement |
| `GitReconciliation` | the roles around the owner, composed with `GitBroker` |
| `GitReconciliationProofs` | theorems about `GitBroker` and `GitReconciliation` for all values of the constants |
| `RecurringChecks` | one recurring check: schedule, runs, alerts, resolution, reloads and deaths |
| `RecurringChecksProofs` | theorems about `RecurringChecks` for all values of the constants |
| `MCJobQueue`, `MCJobWorker`, `MCDurableReader`, `MCProjectionStore`, `MCProjectionWaves`, `MCProcessSupervisor`, `MCGitReconciliation`, `MCRecurringChecks` | constants for TLC |

`JobQueue` refines `JobLifecycle` (`ImplementsLifecycle`), `JobWorker` refines `JobQueue`
(`DrivesQueue`), `ProjectionWaves` refines `ProjectionStore` (`DrivesStore`); all three are proved. The rule jobs
of `ProjectionWaves` live the life `JobLifecycle` describes; leases and tokens, the subject
of `JobQueue`, are not repeated there. `GitReconciliation` extends `GitBroker`, whose owner is
"gone before the next one starts" because of `ProcessSupervisor`'s `OneOwner`; `JobWorker`'s
`Exit`, `GitBroker`'s `OwnerDies` and `RecurringChecks`' `WorkerDies` are what the supervisor
does to them, seen from inside.

### `JobQueue`

One row per job id (`job[j]`), one row per slot (`session[s]`), and a clock. SQLite
serialises writers, so each statement and each write transaction is one action:

| Action | Code |
|---|---|
| `Insert`, `Coalesce`, `Replace` | `enqueueAtomic`/`decideEnqueue` with `JobDeduplicator.findDuplicate` |
| `StartWorkerSession`, `HeartbeatWorkerSession`, `EndWorkerSession` | the methods of these names |
| `Claim`, `ClaimSpent` | `claimNextReady`: the candidate, the reclaim of a lost attempt, the reclaim that has no retry left and fails the row |
| `Complete`, `RecordProgress`, `RenewLease` | `complete`, `recordAttemptProgress`, `renewAttemptLease` behind `attemptWriteGuard` |
| `FailRead`, `FailWrite` | the SELECT and the UPDATE of `fail`, two statements that anything may separate |
| `Cleanup` | retention |
| `CallersDie`, `Tick` | a process dies between the two statements; time passes |

Callers compute `Date.now()` before their statement runs, so every stamp is any time in
`Stamps`, up to `Lag` behind the clock. The environment is the most general one: any token
ever issued may come back at any time, from a worker that crashed, stalled or was replaced.
Abstracted: payloads, results, error texts, `source`, `metadata`, the id generator (ids are
the model values of `Jobs`, tokens and sessions are numbered) and the tie-break on random
ids, which is a free choice. `update()` writes only the payload and is left out, and
`completeWithoutAttempt`-style calls are the token `Unfenced`.

### `JobWorker`

`proc[p]` holds the fields of the worker object, `task` the calls of `processJob` in
progress. A process is single-threaded and yields at every await, so an action is what runs
between two awaits plus the statement it waits for. `processAvailableJobs` is `BeginPoll`,
which counts the free places; one `PollClaims` per `dequeue` that returns a job, up to that many,
or `PollReturnsNothing` at the first that returns none; and then one `StartClaimed` per job, in
the order they were claimed in. A stop, a heartbeat, the end of another job or a crash may come
between any two of them, and until its start a claimed job is a task in phase "claimed", in the
array of the poll. `PollThrows` is a `dequeue` that throws, with or without its write: the catch
clause of the poll drops what the array holds. `MaxThrows` bounds such calls together with the
calls of `fail` that throw (`FailThrows`); the history `dropped` holds the tokens of the attempts
they left without a task. `fiber` says whether the task is the one the `FiberMap` holds
for its job; `FiberMap.run` with a key already present replaces the entry while the promise
beneath it goes on. `Exit` stands for a crash and for the exit of an unhealthy runtime.
Not modelled: `maxJobs` (set by tests only), errors thrown by the statements of `start` and
`stop`, and the queue of transitions beyond one stop at a time.

### `DurableReader`

`pollDurableUpdates` reads a page ordered by `(runtimeUpdatedAt, id)` beyond its cursor and
publishes the rows one by one; writers go on meanwhile. `Start` is `start()` in durable
mode. Publishing progress may throw (`PublishThrows`), which drops the rest of the page. A
terminal event goes through `handleJobStatusChange`, which catches and logs the errors of the
publication: "announced" means handed to it, and an event whose publication fails there is lost
without anything in the model saying so. Retention is left out of the composition:
`cleanup()` has no production caller. The histories `due` and `startedAt` hold the jobs that settled
since `start()` with a stamp of that time or later.

### `ProjectionStore`

| State | Code |
|---|---|
| `revision`, `dirty`, `generation` | entities and `projection_dirty_inputs`; a source is the number of its mutations |
| `wave[w]`, `rule[w][r]` | `projection_waves` with `projection_wave_inputs`, `projection_wave_rules` |
| `batch[b]` | `projection_batches` and the children of a durable one |
| `epoch` | the admission epoch, raised by every batch that opens |
| `incident[w]` | `projection_incidents` |
| `covered`, `mutated` | history: what completed waves took, what a batch wrote |

| Action | Code |
|---|---|
| `Mutate` | `withDirtyInput`: the mutation and its journal row, in one transaction, refused under a batch that is not open |
| `OpenCallbackBatch`, `RenewCallbackBatch`, `CloseCallbackBatch`, `LeaseExpires`, `FenceCallbacks` | a batch held by a running callback under a lease, and recovery of one whose lease ran out |
| `PrepareRoot`, `FinalizeRoot`, `OpenChild`, `SettleChild`, `ReconcileRoot` | a batch held by the child jobs of a root job, and its reconciliation with the job table |
| `ClaimWave`, `PutRules`, `QueueRule`, `ApplyResult`, `Supersede`, `FailWave`, `CompleteWave` | the methods on waves; `Supersede` is also what `applyRuleResult` does for a stale wave |

Each is one transaction, so one action; callers are free, as for `JobQueue`. Abstracted: a
lease is whether it has run out; owner tokens are folded into the status, because every
change of token comes with the end of the batch; one job per child key; requeued inputs get
new generations in any order (the code takes the order of its SELECT). Left out: memos,
write intents and ownership rows of derived entities (they decide what a rule writes, not
when), retention of ended batches, the flag of a failed enqueue (nothing reads it), and
`failWave` without an incident and `markDirty`, which have no production caller.

### `ProjectionWaves`

`op[p]` is the operation the scheduler of process `p` is in. `SerialQueue.runExclusive` lets
one operation of a scheduler run at a time, and nothing serialises the web process, which
sweeps, and the worker process, whose handlers call `advanceActiveWave`,
`continueAfterSupersession` and `failActiveWaveWithIncident`. Each step is one statement:
`List` reads the rules, `Inspect` asks for the status of one job after another, `EnqueueRule`
and `RecordQueued` are the two statements of `enqueueRule`, `Complete` and `Fail` write. Between
any two of them the other process, a mutation, a batch or a crash may come, and the
operation goes on with what it read: `op[p].rules` is the snapshot.

A rule job goes through `RunJob`, `ReadWave`, `CheckStale`, `Apply`, `Advance` or `Continue`,
and `CompleteJob` or `FailJob`; a job that failed for good calls `ReportError`. `Throw` stands
for a handler that throws, `EffectFails` for an effect before completion that does, `Crash`
for the death of a process, `LoseJob` for the claim that fails a lost last attempt.

Abstracted: ids are taken in a canonical order (`NextId`), since nothing but their freshness
matters; the handlers that wait for the serial queue enter it in any order; `Promise.all` over
the rules of a level rejects when its last enqueue has ended, not at the first refusal, since
the operation returns to nobody who would act in between. Left out: the delays and wake-ups of
source changes, the fingerprint of the rule graph, admission budgets that refuse an enqueue,
and attempts that go on in a process after another took their job.

### `ProcessSupervisor`

| State | Code |
|---|---|
| `broker`, `child[r]` | the `ManagedChild` records of the owner, web and worker, with the process behind them |
| `group[p]` | the members of the owner's process group: its leader, and whether a Git child runs |
| `run` | `parentShutdownRequested`, `finalResult`, `settled`, the restart and force-kill timers, `workerAttempts` |
| `escalations`, `handle` | armed timers of `brokerTerminationDeadline`, and the one `brokerEscalation` names |
| `probe` | the attempt of `replaceBrokerWhenGroupIsGone` |

A handler of the parent (a message, a timer, a `close` event, a signal) runs to its end, so it is
one action: `BrokerReady`, `BrokerBeat`, `StaleBeat`, `WebReady`, `WorkerReady` are the branches of
`handleMessage`; `BrokerSilent`, `WorkerSilent`, `EscalationFires`, `StartupTimeout`,
`BrokerStartupTimeout`, `WorkerRestarts`, `ProbeAgain`, `ForceKill` the timers; `BrokerCloses`,
`WebCloses`, `WorkerCloses` the branches of `handleChildClose`; `ParentSignal` the signals. Between
them processes hang, wake, exit and start Git children. Timers have no clock: what is armed may
fire at any moment, so that any order of deadlines is covered, also ones the default intervals
would not produce. Abstracted: a second parent signal only repeats the first; the message of
`failBroker` that closes the owner's admission is left out, for it changes nothing here; spawn
errors are only reported; web has no watchdog in the code either.

### `GitBroker` and `GitReconciliation`

`owner`, `journal` and `repo` are the broker process, its record of started operations and the
checkout; commits are numbers along its history and all that is kept of them is which brought
something from the remote (`repo.pulled`). `call[c]` is the mutation that a caller has asked for:
`Ask` reads admission once, `RecordStart`, `Execute` and `RecordSettled` are the three steps of
`#run`, with the two failures of the record that close admission. `OwnerDies` tells every caller
nothing but that the owner is gone. The start of the next is `OwnerRotates`, which reads the record
and moves it aside, `OwnerWrites`, the empty record of its own, and `OwnerListens`; it inherits
closed admission if it found a record, be it an empty one. `StartCrashes` is its death in between:
before the write the owner after it finds no record and takes itself for the first (`past.lost`);
before it listens nobody has heard what it found in the record that now lies aside (`past.aside`).

`flow[f]` is how far a piece of work of a role has come: the start of the web process, the periodic
cycle, auto-commit, the job of a requested sync in the worker, and the replay after an owner was
lost. A replay is `ReadCheckpoint`, `ReadDelta`, `FinishBatch`, `SaveCheckpoint`, `Opens`, one await
each. The checkpoint is one row (`stored`) that each process reads once and then has in memory
(`cache`). `RuntimeDies`, `WorkerDies` and `LosesOwner` may come between any two steps.

Abstracted: reads of the owner take one step and are not recorded in the journal; what a process
sends and what the owner admits of it is one step; hearing of a pull and reading the checkpoint are
one step; `initialSync` is on; `initialize` is a mutation that changes no content. `scheduleTrailing` replaces a replay that still
waits for its delay and lets one that runs go on beside the new one; so replays overlap, as many as
there are `Recoveries`. Left out: a second connection of one process (`#link` does not exclude two
calls that connect at once; the loss of the one that is not `#connection` schedules nothing), the
compaction of the journal, a checkpoint whose write fails, remote bootstrap, the status records, and the import of a
single file.

### `RecurringChecks`

| State | Code |
|---|---|
| `row[a]`, `success` | `alert` and `last-success` entries of the runtime state |
| `active`, `body[b]` | `activeCheck` of the registration, and the async functions inside `executeRegisteredCheck` that have not returned |
| `web`, `worker` | the process that schedules, with its catch-up, and the registration where jobs run |
| `jobs` | the check's active rows of the queue |
| `history` | messages sent, deliveries cut off before their record, deliveries without a channel, whether the last request was lost |

`Occurs` is a scheduled time: its callback enqueues, or the enqueue fails and is logged and forgotten
(`history.unqueued`). `WebStarts` begins the catch-up, `CatchUpReads` and `CatchUpEnqueues` are its two
statements. When it fails, a process that is starting ends with it (`WebDies`, `WorkerDies`); a catch-up that
`Register` began, for a plugin loaded into a combined Brain that is up, only logs it (`CatchUpFails`). In
a combined Brain `Unregister` stops the schedule as well, so that a time may pass with nobody to ask
for it (`Scheduled`).

An aborted run settles at once and its body goes on until it looks at its signal (`Abort` and the
guards on `aborted` in `Check` and `RecordNext`), so bodies of one check overlap; `Unlocked` is the
queue of operations per alert (`KeyedSerialQueue`), which exists once per process: `combined` says
whether web and worker are one. `FlushNext`, `Suppress`, `Check`, `RecordNext`, `Deliver`,
`WriteDelivered` and `Finish` are what lies between the awaits of a body, `ResolveReads` and
`ResolveWrites` the two statements of `resolveOpenAlert`. The queue is what the service sees of it:
requests with `skip`, retries without their delay, attempts lost with a worker. One check is modelled;
checks share nothing but the queue. The list of stored alerts is read together with the start of
the run, no other process creates one. A channel is there or not, or throws; one that sends and
then throws counts as one that did not send. Left out: the choice
of what the inbox shows and the texts of alerts.

### Wrong variants

An operator whose name ends in `Slip` is a plausible mistake in the definition that follows
it: a dropped guard, an off-by-one, a missing reset. No specification uses them; replacing
the definition by its variant must make a property fail, which shows that the property can
tell the difference.

## 3. Runs

| Run | Bounds | Shows |
|---|---|---|
| `queue_takeover` | 2 jobs that coalesce on one key, one with a retry, 2 slots, 2 sessions, clock to 2, 1 call of `fail` at a time | `TypeOK`, `AttemptBudget`, `CoalesceSingleActive`, `SettledIsFinal`, `LiveAttemptKeepsJob`, and the refinement of `JobLifecycle` (`ImplementsLifecycle`) |
| `worker_takeover` | 1 job with 1 retry, 3 processes of which two share a slot, 2 sessions, clock to 3, one `dequeue` or `fail` that throws; handlers may hang | `OneOutcome`, `StoppedHoldsNoJob`, `LostAttemptNoticed`, and that the composition refines `JobQueue` (`DrivesQueue`) |
| `worker_settles` | 2 jobs, one of which replaces the other while it waits, 1 process with 2 places, so up to 2 claims a poll, 3 sessions, one `dequeue` or `fail` that throws | `NoStrandedClaim`, and `EveryJobSettles` under full fairness |
| `reader_stream` | 2 jobs, pages of one row, clock to 2, positions to 3 | `AnnouncedOnce`, `NothingSkipped` |
| `store_batches` | 2 sources (one mutated twice), 2 waves, 1 rule, 1 batch: a callback's or a root's with 2 children (`OneBatch`) | `StoreTypeOK`, `NothingForgotten`, `ResolvedMeansRecovered`, `BatchRecovery`, `NoResultDuringBatch` |
| `waves_schedulers` | 1 source, 2 waves, 2 rules in a chain, 3 jobs without a retry, 1 callback batch, 1 fault | `RulesInOrder`, `CompleteMeansDerived`, `IncidentWillResolve`, and that the composition refines `ProjectionStore` (`DrivesStore`) |
| `waves_projected` | 1 source, 3 waves, 1 rule, 4 jobs of which one has a retry, 1 callback batch, 1 fault | `EveryMutationProjected` under `FairWavesSpec` |
| `supervisor_runtime` | with and without Git, 2 process ids, 2 probes, 2 worker attempts, 3 faults | `SupervisorTypeOK`, `OneOwner`, `OwnerOutlivesRoles`, `SettledMeansReaped`, `ShutdownEnds`, `LostChildReplaced` |
| `git_owners` | 2 replays, which may overlap; 2 mishaps with a push and a requested sync or with an edit, 1 mishap with a push and an edit, or no mishap with 2 pushes, an edit and a sync | `CheckpointCovered`, `ReplayBeforeMutation`, `LostWorkIsReported`, `AdmissionReopens`, `PulledIsDelivered` |
| `checks_alerts` | 1 alert, 2 jobs with 1 retry, 2 bodies, 2 scheduled times, 2 faults (a request that cannot be queued is one), in one process and in two | `ChecksTypeOK`, `DeliveredOnce`, `HandledBeforeSuccess`, `ResolvedInOneProcess`, `MissedTimeMadeUp` |

Two more runs, `supervisor_spared` (2 faults) and `worker_drained` (1 job with 2 retries, 2 processes
with 2 places each, 3 sessions), end in a violation; section 5 says of what.

Why the bounds are enough. A takeover needs two claimants and a lease that can expire, so
two slots, a lease of one tick and a clock of two or three give every order of expiry, heartbeat
and late write; a job with one retry and one without pass through each of the three comparisons of
the budget. A coalescing request meets a waiting row, a running one or none: two jobs; `replace`
is met by `worker_settles`. In `worker_takeover` `MaxFailing = 2` lets two attempts be between the two
statements of `fail`. What these bounds leave open, more jobs, more calls and later stamps, the
theorems of section 4 close.
`MaxSessions` bounds restarts: a fault in `JobWorker` needs a spare session, so that a fair
run ends with a worker that stays up. `MaxProgress` bounds the cursor values progress may
allocate, `PageSize = 1` makes every page boundary a place for a race. `MaxThrows = 1`
lets one call of `dequeue` or `fail` throw; the two properties that speak of claims being given up
exempt the attempts that this call dropped, and no others. In `queue_takeover` and the worker runs
`Lag = 0`: stamps are those of the clock, and what statements that commit late could do is covered by
the theorems only (`LiveAttemptIsSafe` for `LiveAttemptKeepsJob`).

For the store, what can be confused is the revision of a source before and after its wave, the
wave that failed and the one that recovers, and the batch that ended before or after a wave was
claimed: a source mutated twice, a second source that is not, two waves and one batch meet in
every order. The constraint `OneBatch` keeps the two kinds of batch to different behaviours. With two
waves, one that recovers from a failure and then fails itself is followed by no other: that case, and any
longer chain of failures, is covered by `ResolvedIncidentsRecovered`, `RecoveredBatchesTaken` and
`NothingIsForgotten`, which speak of any number of waves. In
`ProjectionWaves`, `MaxFaults` bounds crashes and errors; a wave can be superseded once by the batch and fail once, so the
liveness run has three waves, and four jobs, because each scheduler may enqueue for a rule whose
first job has ended: with fewer ids of either the run would stop for want of ids, with
more no further state is reached. `MaxRuns` is two for one job, so that a retry, a lost last
attempt and a terminal error all occur. Symmetry (waves and children) is used in the run of
the store only, where nothing tells them apart and no liveness is checked.

For the supervisor, the second process id lets a replacement have a new id or the old one again, two
probes let the group be gone at the first, at the second or at none, two attempts spend the restart
budget, and three faults let an owner be lost, its replacement be lost, and a role fail in the same
run. For the checkout, two mishaps are what it takes to lose the owner that replaced a lost one, in the middle of
its replay, and a push or a sync in between is what there is to lose; a third starts the same story again.
The replay of the second loss may begin while that of the first still runs: two replays. For the
checks, one alert has two bodies, an admin and a lost attempt contend for it, and alerts do not
interact: the theorem `AlertsDeliveredOnce` speaks of any number.

`CHECK_DEADLOCK FALSE` except in the Git runs: elsewhere the clock, the sessions and the scheduled
times are bounded, a queue whose jobs have settled has nothing left to do, and a runtime that has
ended is over. The periodic cycle of a Git-backed Brain never ends.

Fairness. `WatchedWorkerSpec` assumes only that heartbeat timers fire and their statements
are answered: handlers may hang for ever. `FairWorkerSpec` adds what the code schedules
itself: the polling loop (`Schedule` in `startWorker`), the deadline with its grace period,
which bounds every handler, the two writes that settle an attempt, and the supervisor, which
starts a worker after a stop, a death or an unhealthy exit. No fairness is assumed of a
producer, of a stop request, of a crash or of a handler's outcome.

`FairWavesSpec` assumes that the sweep timer fires (`scheduleIntervalSweep`, every second), that
the statements of an operation are answered, that workers claim rule jobs and handlers end
(which `EveryJobSettles` shows of the queue), and that a callback batch ends: its callback
returns and closes it, or its lease runs out and recovery, part of every sweep, fences it.
Nothing is assumed of the order in which two schedulers take their steps, nor of what a handler
does.

`FairSupervisorSpec` assumes that armed timers fire and events are delivered, that SIGKILL kills,
and that a process that runs gets ready unless it hangs. No process has to heed SIGTERM, a Git
command need not end by itself, and a healthy process is never silent for lack of fairness.
`FairReconciliation` assumes that the supervisor brings an owner back (`LostChildReplaced`), that
scheduled work is run, and that the periodic cycle keeps coming; nobody has to edit, push or ask for a
sync. `FairChecks` assumes that the web process comes back, that the worker polls, and that
checks, channels and statements return: a check that never returned would hold back every later run,
as `runNow` skips while one is active. A plugin need not be loaded again, and then its jobs use up their retries.

## 4. Proofs

Every safety invariant and every safety action property of the passing runs is proved, and so are
the three refinements.

`JobQueueProofs` proves, for any number of jobs, slots, sessions, tokens and late calls and
any values of the other constants that satisfy `QueueConstants`:

* `TypeCorrect`: `Spec => []TypeOK`. `TypeOK` is inductive as it stands, because it carries
  the two facts the statements rely on: a pending row names no attempt, and a running row
  names a token, slot and session that were created.
* `BudgetHolds`: `Spec => []AttemptBudget`. The bound alone is not inductive: a claim would
  have to know how many retries were already counted. `RetryAccounting` relates the history
  `claims[j]` to the columns: a waiting row was handed out at most as often as its `retryCount`
  says, a running one once more, and no `retryCount` exceeds the budget; `fail`'s second statement
  keeps this because it is fenced by token and by `retryCount`.
* `SettledStays`: `Spec => SettledIsFinal`, from the fences of every statement.
* `LifeIsKept`: `Spec => ImplementsLifecycle`, the refinement of `JobLifecycle`. Every row is at
  one stage of its life; each kind of statement moves the stages as one action of `JobLifecycle`, or
  leaves them, and a claim finds a run left in the budget by `RetryAccounting`.
* `OneOfAKey`: `Spec => []CoalesceSingleActive`. A request that is inserted found no duplicate, so the
  other active row would have had to escape `findDuplicate`, which takes the newest of the rows that
  match. The newest exists (`NewestExists`) because no row was created after now (`CreatedBefore`).
* `LiveAttemptIsSafe`: `Spec => LiveAttemptKeepsJob`. Stamps lie behind the clock, so what is alive by
  the clock is alive by every stamp a claim may present.

All rest on `RowStep`, which says once what any step does to one row, so that the
proofs split on eight kinds of row change and not on the actions again.

`JobWorkerProofs` proves, for any number of processes, slots they share, places and jobs, from one
inductive invariant (`WorkersOK`):

* `WorkersDriveQueue`: `WorkerSpec => DrivesQueue`. Each step of a process is a statement `JobQueue`
  allows, with a token that was issued and a session that was started, or leaves the tables alone.
  Every theorem about the queue therefore holds of the workers.
* `OneOutcomeOnly`: `WorkerSpec => []OneOutcome`. Tasks have tokens of their own (`OwnTokens`), so one
  attempt at most was told that its `complete` applied (`Outcomes`); and a failure is reported only of
  a row that has failed, which no success can follow.
* `NothingStranded`: `WorkerSpec => []NoStrandedClaim`. A worker that runs has the session it started and
  no other has it, and a poll in flight is a poll of that session (`Sessions`). What a poll has claimed
  waits in the array of a process that runs, and is younger than what that process has started
  (`Waits`), so that a start displaces only attempts that own nothing (`YoungestOwns`). Except by a call that
  throws, a task ends only when its attempt owns nothing, because what `fail` read is still so
  while the attempt owns its job (`Reads`).
* `StopLetsGo`: `WorkerSpec => []StoppedHoldsNoJob`. An attempt whose fiber was replaced owns nothing
  (`LetGo`), since a second claim gave the job a new token; `stop` has waited for the others.

`DurableReaderProofs` proves, for any number of jobs and writers, any order of the ids, any size of a page and
any `Lag`, from the invariant `ReaderInv`:

* `EventsAnnouncedOnce`: `ReaderSpec => []AnnouncedOnce`. What was announced is a settled row behind the
  cursor (`Behind`), and the page lies beyond it in strictly rising order (`Page`), so the head of a page
  is never a row already announced. A settled row does not move (`SettledStand`).
* `NoSettlementSkipped`: `ReaderSpec => []NothingSkipped`. The frontier of the reader, the end of its page,
  lies no further than the stamp of `start()` or than a row still in the table (`Overtaken`); a row that
  settles takes a position beyond every row and not before its stamp (`SettlingTakesNewPosition`), so
  beyond the frontier. `Overtaken` is what a row that is given an older cursor back destroys, and why
  the property must exempt it.

`ProjectionStoreProofs` proves, for any number of sources, rules, waves and batches, any
journal and any number of mutations:

* `StoreTypeCorrect`: `StoreSpec => []StoreTypeOK`, which includes that one wave runs at most and
  that generations and epochs stay below their counters. `StoreTypeOK` is inductive together with
  `NumberedRows`, no two rows of the journal, nor of a wave, share a generation. Rows bounded by the
  counter that differ in their generations are finitely many, so a requeue, which advances the
  counter by their number, leaves it a number above every row.
* `BarrierHolds`: `StoreSpec => NoResultDuringBatch`. `applyRuleResult` compares the wave's epoch
  with the current one and does not look at the batches. That is enough because of `BarrierInv`:
  while a running wave has the current epoch, no batch is active, since a batch raises the epoch
  when it opens and none can be open when a wave is claimed.
* `NothingIsForgotten`: `StoreSpec => []NothingForgotten`. The latest revision of a source is in
  the journal, is an input of the running wave or was taken by a completed one. `KeptInv` says of
  the rows why no statement loses it: the running wave has one input per source (`OneInput`), the
  latest row of a source in the journal holds its latest revision (`LatestIsCurrent`), and so does
  an input of the running wave unless the source is in the journal again (`InputIsCurrent`), which
  is the case in which a requeue may let the input go.
* `ResolvedIncidentsRecovered`: `StoreSpec => []ResolvedMeansRecovered`, and
  `RecoveredBatchesTaken`: `StoreSpec => []BatchRecovery`. Both compare a recovery generation with the
  cutoff of a wave, and say of it what `Owed` says: a running wave whose cutoff reaches the generation
  takes every row that waits for it, at that revision or a later one, or a wave before it did. A
  generation read now is owed by the wave that runs now if the journal is empty, and otherwise by the
  next (`OwedNow`); a claim takes the whole journal; and a requeue raises generations above every cutoff.
  `Failures` and `Leftovers` say of each incident and each abandoned batch that it is owed.

All but the first use its invariant.

`ProjectionWavesProofs` proves, for any number of processes, rule jobs, waves, batches, faults and
mutations, and any finite set of rules whose dependencies have no cycle (`WaveConstants`; the code
rejects a cycle when plugins are registered, `shell/plugins/src/entity/projection-registry.ts`, and
when a wave is planned, `assignTopologicalLevels`):

* `SchedulersDriveStore`: `WavesSpec => DrivesStore`. The store accepts what it is told about: a wave it
  has, a rule of that wave, the rules its inputs reach. `DriveInv` says that whoever goes on with what it
  read still tells it that: the snapshot of an operation is one its wave has since moved on from
  (`Later`), and whatever it enqueues, or a job works on, is a rule of the plan that waits for no other
  (`Chosen`). Every theorem about the store therefore holds of the composition.
* `RulesRunInOrder`: `WavesSpec => []RulesInOrder`, from `WaveFine`: a rule with a result has
  no predecessor that is still to run, and results are not taken back.
* `CompletedWavesAreDerived`: `WavesSpec => []CompleteMeansDerived`. A scheduler completes a wave when
  it finds no level with a rule to run. That this means that every rule has its result needs the rules
  to have levels, each above those of the rules it depends on (`LevelsRise`): this is where the absence
  of cycles is used.
* `IncidentsWillResolve`: `WavesSpec => []IncidentWillResolve`, from `Awaited`: the incident of a failed
  wave waits for a generation that a journal row or the cutoff of the running wave reaches. A wave that
  is claimed takes the whole journal; one that fails returns its inputs with new generations.

`RecurringChecksProofs` proves, for any number of alerts, jobs, bodies, occurrences and faults:

* `ChecksTypeCorrect`: `ChecksSpec => []ChecksTypeOK`, in which the active run is the one body
  that is not aborted and its job is running. It is inductive as it stands.
* `AlertsDeliveredOnce`: `ChecksSpec => []DeliveredOnce`. That no alert was sent twice says nothing
  about the next delivery. The invariant `Lane` says, per alert, why one at a time is enough: at most
  one body is at an alert; one that is about to deliver or suppress it is at an alert that was never
  sent, unless its record was cut off; and an alert that was sent was sent once, and is delivered or
  resolved or the body that sent it is about to write, unless, again, its record was cut off. A step
  that leaves an alert alone, or lets go of it, keeps its `Lane` (`CalmKeepsLane`), so that each action
  is argued for the one alert it touches.
* `SuccessMeansHandled`: `ChecksSpec => []HandledBeforeSuccess`. `Handles` says it of a run under way: each
  alert a delivering body has been through is answered, that is, its row counts as handled and no body
  is at it but to write, or a body is about to write it, or it met no channel or was cut short. No step
  of any body takes an answer back (`Answers`), so what is answered when the body passes is answered
  when it records success.
* `ResolutionHolds`: `ChecksSpec => ResolvedInOneProcess`, from the part of `Lane` that says that in a
  combined Brain no body is at an alert that is resolved or being resolved.

`ProcessSupervisorProofs` proves, for any set of process ids and any numbers of probes, restarts and
faults:

* `SupervisorTypeCorrect`: `SupervisorSpec => []SupervisorTypeOK`. That a new deadline finds a free
  number (`FreshTimer`) is a pigeonhole argument on the finite set of armed deadlines.
* `OwnerIsAlone`: `SupervisorSpec => []OneOwner`. At most one populated group is not inductive: it says
  nothing of the owner that is started next. `Owned` is: only the group of the present owner has
  members, and once an owner has closed its group has no leader. A probe that finds the group empty
  then leaves no member anywhere, so the replacement is alone.
* `OwnerGoesLast`: `SupervisorSpec => []OwnerOutlivesRoles`, from `Ordered`: an owner without blame was
  asked to stop while the supervisor was stopping and every role had closed, and a supervisor that is
  stopping starts no role again.
* `NothingIsLeft`: `SupervisorSpec => []SettledMeansReaped`, from `Reaped` (settled only with the roles
  and the owner closed) and from `Owned` (what has closed has no process).

The parts of that invariant are stated of records and not of the variables, because a handler passes
on a record that it has changed before it stores it (`RequestShutdown`, `ScheduleWorker`); one lemma
per such helper says that it keeps them.

`GitReconciliationProofs` proves, for any number of replays, pushes, requested syncs and mishaps:

* `PulledIsHandedOver`: `ReconciliationSpec => []CheckpointCovered`. `Handed` says of every number that
  may become a checkpoint (the stored one, what each process has in memory, and what each piece of work
  carries between its awaits, `Fits`) that it is a `Mark`: not beyond the head, and nothing the remote
  brought up to it is missing from what was queued, but for what auto-commit passed over.
* `LooksBeforeItChanges`: `ReconciliationSpec => []ReplayBeforeMutation`. A replay that has read its delta
  has looked at what the owner of today took over (`Looked`), so admission opens after the look. While
  the web process starts nothing but its own pull reaches the owner (`Starting`).
* `LostWorkIsFound`: `ReconciliationSpec => []LostWorkIsReported`. What was cut short is in the journal while
  the owner is down and among its findings once the next has rotated it (`Found`), unless one died
  with its findings before it listened. An owner that does not serve carries out nothing, and what one
  was carrying out is in its journal (`Recorded`).

  That an owner which is not the first finds a journal, unless it was lost in a rotation (`Inherited`), is what
  `LooksBeforeItChanges` needs: an owner that inherits an empty record has closed its admission too.

Only model-checked: what is out of the prover's reach, liveness under fairness (`LostAttemptNoticed`,
`EveryJobSettles`, `EveryMutationProjected`, `ShutdownEnds`, `LostChildReplaced`, `AdmissionReopens`,
`PulledIsDelivered`, `MissedTimeMadeUp`).

## 5. Where code and documentation disagree

* `supervisor_spared`. `failBroker` can be called twice for one owner: a heartbeat that reports a
  request without progress comes again five seconds later, and a late heartbeat arms the watchdog
  anew. The second call overwrites `brokerEscalation`, so `cancelBrokerEscalation` cancels only the
  second deadline. The first still fires, at `-pid`. If the replacement got that id, the SIGKILL kills
  "the very owner it was meant to protect", which the comment above `brokerTerminationDeadline`
  gives as the reason to keep the handle.

* `worker_drained`. `FiberMap.run` is keyed by job id and replaces the entry of an older attempt that still
  runs in the same process: its promise goes on, and `FiberMap.awaitEmpty`, with which `stop`
  awaits the jobs, no longer knows it. A worker with two places that stalled, lost its job to a worker that
  died, and claimed it again, then reports that it has stopped while the handler of its older attempt still runs.
  That attempt owns nothing any more (`StoppedHoldsNoJob` is proved), but its effects are not over.

Other observations, made while modelling and not kept as runs:

* A poll keeps the jobs it has claimed in a local array and starts them after its last `dequeue`. When a
  later `dequeue` throws, the catch clause of `processAvailableJobs` logs it, and the jobs in the array are
  forgotten: they are in no fiber, although `stop` waits for the poll "so those jobs are registered in the
  FiberMap before we drain". If the worker goes on, they stay claimed under its live session, which keeps
  every other worker away from them. `NoStrandedClaim` and `EveryJobSettles` exempt these attempts
  (`dropped`); without the exemption TLC finds the behaviour.
* `BrokerJournal.open` moves the record of the lost owner aside, and nobody reads it again. An owner that
  dies after that and before it listens takes its findings with it: the next finds no record, or an empty
  one, and reports nothing as ambiguous, where the comment of `journal.ts` promises "that the ambiguity is
  known rather than silently assumed away". Dead before the empty record was written it leaves none, and
  the next owner takes itself for the first and admits mutations at once. `LostWorkIsReported` exempts
  both (`past.aside`), `ReplayBeforeMutation` only the second (`past.lost`); without the exemptions TLC
  finds the behaviours.
* `types.ts` says that `onTerminalError` runs once after the queue exhausts retries. A claim that
  meets a lost attempt with no retry left fails the row and returns null, so no worker calls the
  handler.
* `concurrency` is the number of concurrent jobs, but `activeJobs` is keyed by job id: if a retried
  job is claimed again before its earlier attempt has left `processJob`, the earlier attempt's
  `finally` removes the entry of the later one, and the worker polls with a capacity that is too high.
* `findStrandedQueuedRule` asks for the job status of a rule it *read as queued before*. A job that
  applies its result and completes in between is taken for stranded, and the healthy wave is failed
  under the reason "Projection rule job completed without applying its result".
  `EveryMutationProjected` holds all the same, because a failed wave returns its inputs to the journal.
* Auto-commit saves the head it pushed as the checkpoint. When a pull has merged remote commits
  and not yet queued them, that head lies beyond them, and no later delta contains them.
  `CheckpointCovered` and `PulledIsDelivered` leave those commits out (`seen.overtaken`).
* A request of a recurring check that cannot be queued, by the cron callback or by the catch-up of a plugin loaded
  later, is logged and forgotten, with no retry used up. Nothing asks for the missed time again until the next
  scheduled time or the next start; `MissedTimeMadeUp` leaves out the time in between.
* `openAdmission` is sent to whichever owner answers. A replay that was under way when its owner died opens the next
  one, which may change the checkout before its own replay (`past.strayed`).
* The test "does not reopen an alert when resolution races with delivery" has one service. In two
  processes each has its own `alertOperations`, and a delivery that read the row before the admin
  resolved it writes it back as delivered. `ResolvedInOneProcess` says so in its guard.
* `emitTerminalFailure` reads the status again instead of using what its own `fail` applied: an
  attempt that was retried and reads late sees the failure of the next attempt and calls
  `onTerminalError` too, which `types.ts` says runs once. `OneOutcome` therefore bounds
  successes, and excludes both outcomes together, but not a second report of failure.
* `nextRuntimeUpdatedAt` allocates a globally increasing cursor, but the retry branch of `fail`
  writes the value of its SELECT back over a newer one, after which the next cursor may be one
  allocated before. `NothingSkipped` speaks of behaviours in which no row was given an older
  cursor back (`rewound`).
* `failWaveWithIncident` inserts an incident for a wave that was superseded after its caller
  read it, which a test (`projection-wave-scheduler.test.ts`, "does not create a terminal incident
  for a superseded sibling job") excludes in the order it tests. `FailWave` has that branch, and
  `IncidentWillResolve` speaks of failed waves only.

## 6. Limits

* A call of `fail` that throws (`FailThrows`) leaves its job claimed under a session that
  goes on being renewed, as a later `dequeue` that throws does with the jobs before it; nothing can take them
  until that session ends. `NoStrandedClaim` exempts the attempts that these calls dropped, and
  `EveryJobSettles` exempts them for as long as the worker goes on with that session.
* `AnnouncedOnce` and `NothingSkipped` end at `handleJobStatusChange`: an error of the publication behind it is
  logged there, and the terminal event reaches nobody.
* A row that settled with a stamp older than that of the reader's `start()`, but committed after it, may
  lie behind the cursor and is never announced: `NothingSkipped` speaks of stamps from `start()` on. `reader_stream` uses
  `Lag = 0`, where the two are the same; for statements that commit late `NoSettlementSkipped` is what shows it.
* Rule jobs in `ProjectionWaves` have one attempt in flight at a time. An attempt that goes on
  after its job was taken over would call `applyRuleResult` a second time, which the store
  allows at any moment: `ProjectionStore` covers its effect on the store, but not what it does
  to the scheduler.
* Durable batches with children are not driven by `ProjectionWaves`: `store_batches` checks them
  with free callers.
* `SettledMeansReaped` speaks of the leader of the owner's group: a Git child that outlives a leader
  which exited by itself may still run when the runtime's outcome is reported.
* After a record of the journal could not be written, admission stays closed until a role attaches
  anew: `AdmissionReopens` exempts it (`owner.failed`), for no role is told.

## 7. Not modelled, and what could come next

Left out because nothing in them interleaves beyond what is modelled: the handler registry, the
batch manager (one process, no writer of its own to the rows), messaging, health reports, the
parsing and rendering of interfaces, site builder, entity plugins and deployment tools. Left out
because their hard part is outside the code: the auth service (cryptography and protocol parsing),
conversation, AI and content services (calls of model providers).

What would add most, in this order:

1. Wake-ups that arrive during a sweep (`projection-runtime.ts`), in place of `Sweep` in
   `ProjectionWaves`; budgets reserved by an enqueue whose transaction may be replayed.
2. The statement errors of `start` and `stop` in `JobWorker`; the compaction of the broker's journal.
