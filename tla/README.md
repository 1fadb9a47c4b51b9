# A verification project for the XenBlocks miner

The repository holds two systems.  The first is a Python miner (`src/main.py`): it searches Argon2 hashes on a
CUDA GPU (or on CPU worker processes), and submits every *block* it finds to a
pool over HTTP.  A block has a type: XNM and XBLK blocks may be submitted at
any time, XUNI blocks only in a window around the hour.  The pool has a
difficulty, the Argon2 memory cost `m=`, which changes from time to time, and
accepts a block only when the `m=` it was hashed with is the current one.
Blocks that cannot be submitted now are kept in a durable queue.  The second is
a vendored platform (`src/native/XenblocksMiner-main`) that rents out hash
power: a Python server with an SQLite database and an MQTT broker, and a C++
worker that mines for itself or, under a lease, for a consumer.

The project consists of TLA+ modules, TLC configurations (`*.cfg`) and proofs
for the TLA+ proof system.  `PROJECT.json` maps every definition to the lines
it stands for, and lists the runs, the hazards and the theorems.

## 1. Inventory

| component | source | state | operations | what is hard | what makes it correct |
|---|---|---|---|---|---|
| answers of the pool | `networking/submit_result.py`, `submitter.py` | none | classify an answer; one POST | the answer may be lost after the pool has recorded the block | a success is read as one only when the pool has the block |
| durable queue | `block_queue/store.py` | `queue.jsonl`, `rejected.jsonl`, SQLite tables `pending_blocks`, `submitted_blocks` | enqueue, mark, reject, import and migrate at start | several durable writes per operation, crashes between them, several threads on one row | no block is lost, none is queued twice, an accepted one does not come back |
| flusher, submit pool | `block_queue/flush.py`, `policy.py`, `submit_cpu.py` | the worker threads' calls | flush, defer | difficulty, window and network change between check and use; workers outlive an interrupted flush | a row is closed only for a good reason; a held row is taken up again |
| supervisor | `core/supervisor.py` | network flag, difficulty, transition, shutdown flag | start-up, `refresh_network`, `handle_hit`, queue service, graceful shutdown | nested flushes, Ctrl+C and exceptions anywhere, crash and restart | a found block ends in the log or at the pool; shutdown ends |
| hash preparation | `mining/argon2_common.py` | none | re-hash and encode a GPU match | depends on the right `m=` | false positives are not sent, true blocks are not filtered |
| difficulty poller | `networking/poller.py`, `difficulty.py` | last status, thread | poll, publish, start, stop | polls of two threads publish out of order; a retarget between two polls | the published status converges to the pool's |
| instance lock | `core/instance_lock.py` | `miner.lock` | acquire, release | test and write are apart; stale files | one miner per machine |
| CPU backend | `mining/backends/cpu.py`, `efficiency/lane_manager.py` | processes, stop event, hit queue | start, stop, set lanes, mine a batch | the stop event is set by a hit and survives a restart; the queue is replaced | mining goes on after a hit, no hit is lost |
| CUDA backend | `mining/backends/cuda_native.py`, `cuda_engine.py` | lanes, caps, plan, difficulty | start, stop, replan, mine, abort | replans and aborts between batches | lanes stay within caps and memory |
| GPU safety | `efficiency/vram_guard.py`, `thermal_policy.py`, `cuda_lane_policy.py` | cooldown, caps, persisted policy | evaluate, stop, restart, derate, restore | hysteresis, cooldowns, failures on restart | the GPU runs only when cool enough, and runs again then |
| VRAM planning | `mining/vram_batch.py`, `efficiency/vram_*.py`, `mining/backends/cuda_native.py` | the plan in use | plan lanes and batches, replan | what other programs hold is inferred; rounding, zero and limits | a batch leaves the card what the caps promise |
| power booster | `efficiency/gpu_power.py` | power limit and power plan | apply, adjust, restore | a driver that refuses, crashes between sessions | the limit is given back; a hot card gets no more power |
| acceptances beside the store | `monitoring/metrics.py`, `local_stats.py`, `xenblockscan_reporter.py` | counters, a JSON file, a bounded job queue | count, post, backfill | crash between counter, file and store; evicted and reordered jobs | every acceptance is counted once; the explorer never hears less |
| wallet balances | `monitoring/wallet_balances.py`, `periods.py` | snapshots per day, in memory and in a file | refresh, publish, record | refreshes overlap, tokens fail to answer, a day ends meanwhile | what is shown was read; past days do not change |
| server uptime | `monitoring/server_uptime.py` | hours, outages, a file | probe, save, load | probes cross hours and sessions; retention | hours, outages and the view add up |
| `miner.ini` | `config/wallet_setup.py`, `settings.py` | the file | set wallet, names, tracker id | two programs rewrite one file | the identity stays |
| leases and money | `server/matcher.py`, `settlement.py`, `storage/*`, `routers/*` | the database, one shared connection | rent, stop, expire, settle, deposit, withdraw | coroutines share one transaction; a crash; a watchdog without the lock | money is conserved, a settlement is whole, a lease is charged once |
| platform worker and broker | `src/PlatformManager.cpp`, `LeaseManager.cpp`, `MqttClient.cpp`, `server/broker.py`, `watcher.py` | state, lease, mining context; session table | handle messages, mine, report, pause, shut down | a detached thread per message, broken connections, late blocks, a stop amid all of them | a block counts for the lease it was mined under; state, lease and context agree |
| database migration | `server/storage/_migrate.py`, `_schema.py` | the database | migrate at start | statements commit at different times and swallow what they raise | a server that comes up is migrated, with its blocks |
| wallet snapshots | `server/wallet_snapshot.py`, `storage/wallet_snapshots.py` | a row per wallet and hour, the last counts in memory | record, clean up | workers come, go and change wallets; an insert fails; a settlement rolls back on the shared connection | the rows add up to what was found |
| dashboard, diagnostics, legacy GPU bridge, key strategies, native kernels, accounts, pricing | see "Not modelled" | | | | |

How they interact.  The *main thread* runs `Supervisor.run()`: it checks the
network, services the queue, lets the backend mine a batch, and calls
`handle_hit()` with what was found.  The *poller thread* publishes the pool's
difficulty, which the main thread reads in `refresh_network()`.  The main thread
hands queued rows to the *submit pool's threads*, and waits for them; they
write to the database themselves.  When the network recovers,
`refresh_network()` flushes the queue, and since the flush itself refreshes the
network first, and so does `handle_hit()`, a flush can be nested in either.
Ctrl+C and exceptions unwind the main thread into `_graceful_shutdown()`, but
do not reach the threads of the submit pool.  The backend, the guard, the power
booster and the thermal policy act in the same loop on the GPU.  The reporter, the
balances and the uptime probe have threads of their own, and files that nothing
else reads.  On the platform, HTTP requests, MQTT messages and a watchdog are
coroutines over one database connection; the worker talks to the server through
the broker only.

## 2. The modules

| module | what it is |
|---|---|
| `SubmitResult` | how an answer of the pool is read |
| `BlockStore` | the durable queue: one operator per method (or per transaction of it) |
| `BlockPipeline` | the main thread, the submit pool's workers and the world around them, on top of `BlockStore`; all properties of the code as it is |
| `BlockLedger` | the abstract specification: a logged block is owed to the pool until the pool has recorded it |
| `MCBlockPipeline` | values for TLC, and the statements of the repository that the code does not keep |
| `BlockPipeline_proofs` | lemmas on the store's operators, and the invariance proofs; after them, that what is sent was proved and a flush logs rejections only |
| `BlockRefinement` | proofs: the pipeline implements the ledger; an accepted block stays out of the queue |
| `CpuBackend` | worker processes, their event, queue and lock, the lane manager, under the main loop |
| `GpuSafety`, `GpuSafety_proofs` | the main loop around the CUDA backend: soft derating, emergency stop, cooldown, restart, abort of a batch, the lane ceiling and its file; its invariance proofs |
| `ThermalPolicy` | the rules of `thermal_policy.py` and the verdict of `vram_guard.py`, as functions of a sensor reading |
| `ThermalWalk` | a walk through readings that get hotter, fuller or harder, and the properties of the rules |
| `VramPlan` | caps, budget and plan of a batch, on top of `ThermalPolicy`'s rules, and the plan in use |
| `PowerBooster` | the power limit, with the target of `ThermalPolicy` |
| `InstanceLock` | the lock file, by several processes; a module of its own, since the pipeline starts one process at a time |
| `MinerIni` | the identity in `miner.ini`, over starts of the miner and the watchdog |
| `Reporting` | counters, daily counts and explorer jobs |
| `WalletBalances` | snapshots of balances |
| `ServerUptime` | the uptime record of the pool |
| `Marketplace`, `MCMarketplace`, `Marketplace_proofs` | the rental server's coroutines, statement by statement; values and constraint for TLC; its invariance proofs |
| `Rental`, `MCRental`, `Rental_proofs` | a rented worker, the broker and the server; values for TLC; its invariance proofs |
| `Migration` | the statements of the database migration |
| `WalletSnapshots` | the hourly records of every wallet |
| `MCServices` | the modules above that share no state, side by side for TLC (section 4) |
| `Services_proofs` | invariance proofs of the services of `MCServices` |
| `Records_proofs` | those of its services that keep counts and records, with lemmas on sums over finite sets |
| `Settings_proofs` | those of its services that work from the settings: the identity, the plan of a batch |

`BlockPipeline` and `GpuSafety` look at the same loop from two sides.  In the
first a batch is mined or aborted at any time; in the second a refresh is a
step that may change the difficulty, and the queue does not appear.  They meet
in `refresh_network()` and in the abort (`AbortedBatch` and `Abort`);
neither reads state of the other.  `CpuBackend` is a third look at it, for the
other backend.  `Marketplace` and `Rental` divide the platform in the same way:
in the first a request is opened statement by statement and the worker is
silent; in the second a request of the server is one step, and the broker, the
network and the worker's threads are open.

### State

| variable | in the code |
|---|---|
| `jsonl`, `rows`, `submitted`, `rejlog` | `queue.jsonl`, `pending_blocks`, `submitted_blocks`, `rejected.jsonl` |
| `difficulty`, `netOk`, `wasDown` | `_network_difficulty`, `_network_ok`, `_last_network_log_ok is False` |
| `settling` | `_in_difficulty_transition()` |
| `polled` | the status the poller published last |
| `shutting` | `_shutting_down` |
| `pc`, `stack` | the main thread's place, and where it returns to from a nested flush |
| `hit` | the `BlockHit` in `handle_hit()`, with the answer it got |
| `tasks` | the calls of `_prepare_row()` in the submit pool |
| `poolDiff`, `online`, `inWindow`, `recorded` | the pool, the network and the clock |
| `mined`, `credited`, `acked`, `lost`, `session` | history, which no action of the program reads |

### Actions

`HandleHit` has one action per outcome of `handle_hit()`, split where the code
can be interrupted or where another thread's step matters: before the refresh,
before and after the submission, and between the two durable writes of
`enqueue()`.  A worker runs `_prepare_row()` in three steps: the checks, the
submission, and what is done with the answer.  `TryFlush`, `BeginFlush` and
`EndFlush` are `_try_flush_pending_queue()` and `flush()`; `ContinueAt` is the
flush that a refresh runs on recovery.  `Import`, `Migrate`, `Probe`, `Resume`
and `Begin` are the start of `run()`, `Shutdown` is `_graceful_shutdown()`, and
`Exit` the end of the process.  `Crash` ends the process anywhere; `Interrupt`
is Ctrl+C or an exception that unwinds the main thread, with the workers of the
submit pool going on.

`InstanceLock` has a program counter per process, one action per file operation
of `acquire()` and `release()` (`write_text()` is two: it empties the file, then
writes), and `Exit` at every point.  Process ids are given out again, to miners
and to other programs (`foreign`).  The file system is that of Windows: a file
that somebody has open is not unlinked, and `acquire()` and `release()` ignore it.

In `GpuSafety` the program counter `pc` names the places of `run()` where it
can be left, where the card may change, or where a refresh can happen
(`Follows`): the head of the loop (`Snapshot`, `NoNews`/`News`, `Tune`), the guard
(`Calm`, `TempStop`, `VramStop`), the restart (`Restart`, `Reduce`), the batch
(`BeginBatch`, `CheckLane`, `RunLane`, `RunTogether`), the stop and the shutdown.
`gpu` is what a snapshot would show now and `snap` what the loop's snapshot
showed; the abort check and the restoration take snapshots of their own.
`write_text()` of the policy file is two steps (`torn`), and `Crash` may come
between them.  `heat` is history.

`CpuBackend` has the loop's place (`phase`) and, per lane, its live workers with
their places: a worker that has found a block waits for the queue, and
`set_lanes()` replaces event and queue under workers that may still be running.

`Marketplace`: `view` is what the shared connection sees and `disk` what a restart
finds.  A coroutine has a place and its local variables; a step is one statement
or commit.  `BEGIN` fails inside an open transaction, a commit takes along the
statements of everybody, and a rollback undoes them.  A rental is taken for any
consumer name (`rental.py:31`), so the settlement may find no account of its
consumer and rolls back (`NoAccount`), with whatever else the transaction held.

`Rental`: every runner (a handler thread of the worker, or its watchdog) has a
label, and the steps between two labels are those between two writes another
runner can see.  The broker's table (`session`) and the connections whose handler
has not ended (`leaving`) are apart, so that an old handler can remove a new
session.  `overlapped` and `acked` are history.  A `shutdown` is `stop()` step by
step: `running` falls, a lease that `hasActiveLease()` sees is left (`Stop`,
`StopSelf`; one that has run out stays, as with a pause), the watchdog is waited for
(`Join`), "offline" is sent twice, the connection is closed and the worker is `IDLE`.
`MqttClient::disconnect()` returns at once without a connection, so the client of a
worker stopped while it had none connects again (`closed` stays false): such a worker
goes on taking messages, can be resumed and rented, and has no watchdog any more.
The model has all of that.

`Migration` goes through the list of statements that the version on record
selects; `disk` and `work` are the database as committed and as the connection
sees it, and a crash may fall between any two statements.

`WalletSnapshots` has the rows of the workers and of the chart as the connection
shows them and as they are `committed`.  A statement of a worker's handler or of a
round is a step; `Commit` is anyone's, and keeps all of them; `Rollback` is a
settlement's, which `Marketplace` has in full, and undoes all of them.  The next
statement of a round waits for the commit it awaits (`ChartCommitted`: committed, or
rolled back unnoticed).

`MinerIni`, `Reporting`, `WalletBalances`, `ServerUptime`, `PowerBooster` and
`WalletSnapshots` each have a session, what it holds in memory, what is in the
file or table, and the step a crash may fall into.  A file written in place is
cut off by a crash in `write_text()` (`torn`, or an empty `ini`).  Where a
property must excuse such an accident, `mishap` (or `session.jumps`) remembers
that it happened, and nothing else.

`VramPlan` has a card (`device`), the memory other programs take (`other`), the
buffers the engine has allocated (`buffer`), and the backend's plan and soft caps
(`backend`); `told` is what the last plan could know of the others.

### What is abstracted

* A block is its key; whether it is XUNI (`Xuni`), and whether the CPU re-hash
  refutes it (`Bogus`, for the GPU only), is fixed per key.  `mined[k]` is the
  `m=` it was hashed with, and `prepare_hit_for_submit()` succeeds exactly when
  it is prepared with that `m=` and the block is not bogus.  Each key is found
  at most once.  Since the kind does not change, `reclassify_pending()` does
  nothing.
* An answer's body is the set of phrases the code looks for.
* `submitted[k]` keeps the set of status values, `rejlog[k]` the set of
  answers logged; how often is not told apart.
* The ids of rows order the rows of one key only.  A flush handles its rows
  concurrently, so the order across keys decides nothing.
* Timers are nondeterministic: the network check, the queue service and the end
  of a transition may come at any moment.
* The first step of a worker (its checks, and the closing of a false positive or
  a window mark) and its last (what it does with the answer) are atomic: each
  makes at most one transaction on `pending_blocks`, apart from the log line of
  a first rejection.
* A session starts only when the previous process is gone.  Two processes at a
  time are the business of the instance lock.
* Counters, logs, dashboard and reporters are left out, except which blocks
  `local_stats.record_accept()` has counted (`credited`).
* `HitRejected` has a branch for a block that is in the queue already, as
  `record_rejection()` does.  It is never taken, which the proof shows (a hit in
  the main thread's hands has no open row).

* `GpuSafety`: the card has a level (`cool`, `warm`, `hot`, `full`, `none`)
  instead of a reading, the difficulty a side of the reference.  The number of
  lanes for which a plan finds memory, and how far a warm card or a fuller one
  eases them, are open choices within the bounds that `ThermalPolicy` and the
  planner give.  The two writes of a reduction (`reduce_lane_cap()` and
  `record_temp_lane_reduction()` write the same ceiling) are one, and a refresh
  nested in the flush of another is left out: it reads the same published
  status.  The list of events in the policy file, the batch sizes, DLL copies and
  the power limit do not appear.  The settings that switch deratings off are on.
* `ThermalPolicy`, `VramPlan`, `PowerBooster`: ratios of integers instead of
  floats, so that a rounding error of a float at a tie is not seen.
* `CpuBackend`: hash rates and hashing are left out; a worker finds a block at
  any time.
* `VramPlan`: memory is in MiB, buffers in KiB.  A card is given by its memory and
  by what runs its lanes at a time; batch sizes are not set by hand.
* `PowerBooster`: the driver grants or refuses a call at will.
* `ServerUptime`, `WalletBalances`: time is counted in ticks, a few to the hour or
  day, so that a probe or a refresh may cross a boundary.  A balance is the tick
  it was read at.
* `Reporting`: an acceptance is counted, not identified; a job is a heartbeat or
  an event with the number of acceptances at its making.
* `Marketplace`: one consumer, whose leases all have one price; owners and the
  platform get their shares as the legs of a settlement.
* `Rental`: the hash of a block is its prefix; a message is lost, delivered, or
  under way in order, as TCP gives it.
* `Rental` leaves out of the commands `set_config` (difficulty, address and prefix of
  self-mining, no part of a lease), two shutdowns that both pass the test of `running_`
  (two joins of one thread are undefined in C++; a second one is one that comes later),
  the stop at the end of the process, a registration the server rejects, and a
  `connect()` that a stopped worker makes after its last look.
* `WalletSnapshots`: hash rates, times and payouts decide nothing and are left out, and
  so is a commit that raises (the disk is full), after which a round ends like after an
  insert that does.  The two DELETEs of `cleanup()` are one step, as only one of them
  has rows.

## 3. Properties

| property | in words |
|---|---|
| `TypeOK` | the type invariant |
| `ClosedRowsSettled` | a row leaves the queue only if the pool has the block, the block is a false positive, or the row no longer tells its `m=` |
| `OneOpenRow` | a block is never queued twice |
| `AcksAreTrue` | every acceptance written down or counted is of a block the pool has |
| `NoHitVanishes` | a real block is logged, at the pool or in the main thread's hands, unless the process ended, or the batch was aborted, with it |
| `SendsProvedBlocks` | a worker about to submit holds a block of the miner's present difficulty, although the check was made earlier, and no false positive is ever sent |
| `FlushLogsRejectsOnly` | a flush, or a worker left over from one, logs final rejections only in `rejected.jsonl` |
| `AcceptedNeverRequeued` | a block with a success on record, once out of the queue, stays out |
| `ImplementsLedger` | the pipeline refines `BlockLedger` |
| `HeldBlockReachesPool` | a block the pool would take does not stay queued for ever |
| `ShutdownCompletes` | a graceful shutdown ends |
| `LanesWithinCap` | a running engine has no more lanes than the ceiling its emergency stops have left |
| `CapOnRecord` | the ceiling in use, in the policy and in what a new session would load agree, except during a write |
| `HotIsLeftAlone` | no engine runs in a cooldown, and a card that stays hot gets one lane batch more at most (one round, when lanes run together), across stops, restarts and sessions |
| `CapSteps` | the ceiling goes down by one, engine off, once per request; it goes up only to the configured one at the reference difficulty |
| `MiningResumes` | a miner that keeps running on a card that in the end stays out of the emergencies mines again and again |
| `SerialStartsExclude` | if no two miners were ever inside `acquire()` at a time, at most one holds the lock |
| `HolderOnRecord` | then the file names the miner that mines: neither a refused miner's `release()` nor a late one takes it away |
| `MoreHeatNeverMoreWork` | a hotter sensor, a fuller card or a harder network never gives more lanes, a larger batch, a milder verdict or a lower temperature for the power step |
| `DeratesInOrder` | the batch is eased before the lanes, both are at their floor at the stop, unless the settings keep the batch whole; a card below every warning is not stopped |
| `IdleMeansHit` | when no CPU worker is left in the loop, a hit was taken or waits in the queue |
| `LimitKept` | the power limit is the one on record, between the configured floor and the target or where the user had it, and is given back at the end of a session, unless one crashed or the driver refused |
| `HotNeverRaises` | a card near its warning never gets more power, whatever the difficulty does to the target |
| `RecordAddsUp` | the hours of the uptime record, its outages and what is shown agree, over sessions and retention |
| `IdentityKept` | no key is twice in `miner.ini`; wallet, names and tracker id stay what they were, unless a write was lost |
| `AcceptsCountedOnce` | every acceptance is counted once per day, week and session file, unless the miner was killed before it counted it |
| `NeverGoesBack` | what the explorer hears from a session never goes back, though jobs are evicted, lost and crossed by the backfill |
| `SnapshotsAreRead` | a snapshot holds balances that were all read in one refresh, never a carried value or the zero of a token that did not answer, and a wallet that only grows never shows a loss |
| `PastDaysFixed` | the snapshot of a day that is over does not change in a session |
| `MigrationKept` | a server that comes up has the blocks the old database had, in the newest schema |
| `PlanFitsCard` | full batches of the plan in use, with what the others held at the plan, stay under the target and leave the headroom (its conditions are in the module) |
| `ChartAddsUp` | two records of a wallet differ by just what its workers found between them, unless a worker left it, a record failed, or a settlement's rollback took back a record or blocks that were counted |
| `BooksBalance` | money is conserved and no account is overdrawn, unless a statement fell into a settlement, or a concurrent deposit or withdrawal overwrote a balance |
| `PartedOnlyByOthers` | a settlement is on disk as a whole or not at all, unless a statement of another coroutine fell into it |
| `ChargedOnce` | a lease is charged twice only if a stop raced the watchdog, or a refused `BEGIN` rolled back its completion |
| `RentNotRefused` | the unique index never refuses what the matcher's check let pass, except after such a rollback |
| `CountedWhereMined` | a block counts for one lease, the one it was mined under |
| `WorkerSound` | between messages, the worker's state, lease and context agree, unless handlers overlapped, a `register_ack` found a lease, or a pause or a shutdown an expired one |

Several are conjunctions of named parts that are stated one by one in their
modules (`SendsProvedBlocks` is `FlushAtOwnDifficulty` and `FalsePositivesStayLocal`).
A property that excuses something names it: these exceptions are behaviours that
the code really has, and they are listed in section 5.

`SerialStartsExclude` is all the lock can promise: `acquire()` tests and writes in
separate steps, so that two miners started together may both hold it
(`overlapped` records that).

`FlushAtOwnDifficulty` may surprise: the check and the submission are apart.
It holds because the difficulty is changed only by the main thread, and the
main thread waits while the workers of a flush run, so `Awaited` leaves out the
workers of an interrupted flush, for which it does not hold (a shutdown refreshes
the network while they run).

The refinement maps `closed` to the logged blocks without an open row that have
had one, `booked` to the pool's record, `sealed` to the keys with a 2xx on
record, and `excused` to the blocks that cannot be proved to the pool: the false
positives, and those with a row whose memory cost is missing or was lost
(`CostKnown`).

## 4. Runs

| run | module, configuration | instance | checks |
|---|---|---|---|
| `one_block` | `MCBlockPipeline`, `OneBlock` | a CUDA block or a false positive, 2 difficulties, 2 sessions, a pool that also refuses or times out | `TypeOK`, `ClosedRowsSettled`, `OneOpenRow`, `NoHitVanishes`, `SendsProvedBlocks`, `ImplementsLedger`, `FlushLogsRejectsOnly`, `AcceptedNeverRequeued` |
| `two_kinds` | `MCBlockPipeline`, `TwoKinds` | 2 CPU blocks, one XUNI, 1 difficulty, 1 session | `AcksAreTrue` |
| `liveness` | `MCBlockPipeline`, `Liveness` | 1 block, 2 difficulties, 1 session, fairness | `HeldBlockReachesPool`, `ShutdownCompletes` |
| `gpu_safety` | `GpuSafety`, `GpuSafety` | 3 lanes, one after the other or together, fairness | `TypeOK`, `LanesWithinCap`, `CapOnRecord`, `HotIsLeftAlone`, `CapSteps`, `MiningResumes` |
| `marketplace` | `MCMarketplace`, `Marketplace` | 2 workers, 2 leases, 2 coroutines beside the watchdog, 2 requests, 1 crash | `BooksBalance`, `PartedOnlyByOthers`, `ChargedOnce`, `RentNotRefused` |
| `rental` | `MCRental`, `Rental` | 2 leases, 1 block, 2 handler threads beside the watchdog, 2 messages under way, 2 connections or commands and a third of a worker being stopped | `WorkerSound`, `CountedWhereMined` |
| `services` | `MCServices`, `Services` | eleven services, one per behaviour (below) | the seventeen properties of the services |
| `cpu_filter`, `lost_cost`, `cap_restore`, `settlement_atomic`, `write_once` | | | a statement of the repository that the code does not keep (section 5) |

The bounds of the pipeline.  Blocks interact only through the flag and difficulty
variables of the main thread, and through the flush that takes all rows together;
the store has no operation that relates two keys.  One block therefore shows nearly
all there is, and a second one, in `two_kinds`, adds two workers at a time and a
live hit beside a queued row.  Two difficulties give a retarget away from and back
to the block's own.  Two sessions give a crash or an interrupt, the import and the
migration of the next start, and a second flush of the same row.  Neither the
number of retargets, outages, polls, flushes nor that of attempts is bounded.
`PoolErrors` adds the answers a pool may give without a reason that the model
knows.  Two constraints keep `one_block` small: `OneFound` (a behaviour finds the
block or the false positive) and `OneTrouble` (a pool that refuses at will does so
at one difficulty); the other pools of the run still have two.

Three lanes are enough for `GpuSafety` because the ceiling can come down twice,
so that the file can lag behind it, and a batch has a first, a middle and a last
lane; sessions, stops and cooldowns are not bounded there.

In `marketplace` the consumer can pay for one lease and a half, so that a second
one has to be refused; two requests and the watchdog are three coroutines on the
connection.  `Worthwhile` stops following a behaviour once all properties that a
disturbed settlement or an overwritten balance leaves meaningful are decided (the
module says which).  In `rental` a block is followed on the first connection and
without the operator's commands (`MCRental`), since reconnections and commands
change which messages arrive and not how a block is reported; the initial connection
counts as one.  With a second one a behaviour is followed until `overlapped` or
`acked` excuses all that `WorkerConsistent` says, and with a third one if a worker is
being stopped, so that it is stopped, connects and is resumed.

`services` puts together the modules that share no state: a behaviour chooses one
of them at its start, and the others stay where they begin, so that what is
checked of a service is what a run of its module alone would check.  `Alike` and, for
workers and wallets, `FirstComers` leave out behaviours that differ from another one in
names only.  Its bounds:

| service | bound | why it is enough |
|---|---|---|
| `InstanceLock` | 3 processes, 4 ids | one holds, one is refused, one starts; an id is used again |
| `ThermalWalk` | 8 degrees or no sensor, 4 loads, 4 difficulties, plans of 1 and 5 lanes | the ends of every ramp of the default settings, and points within |
| `CpuBackend` | 2 lanes, 2 live workers of each, 4 loads | a worker of the lane before and after a change; loads that add, keep and drop a lane |
| `PowerBooster` | 2 sessions, 4 temperatures, the thermal difficulties | a session after a crash; below, near and above the warning |
| `ServerUptime` | 8 ticks of half an hour, 2 hours and 2 outages kept | both retentions cut something off |
| `MinerIni` | 3 starts | one finds what another wrote while a third writes |
| `Reporting` | 2 days of a 2-day week, 2 acceptances, a queue of 2, 2 sessions | an eviction, a new week, a session that reads the file |
| `WalletBalances` | 4 ticks, a day of 2, 2 tokens, 2 sessions | a refresh across one o'clock, one that overlaps it, one that fails for a token |
| `Migration` | every version, 2 rows, 2 crashes | a crash in the migration that follows a crash |
| `VramPlan` | cards of 4 and 12 GiB, 3 lanes, 3 difficulties, 3 changes | a plan, one made over it and one after a stop |
| `WalletSnapshots` | 2 workers, 2 wallets, 3 rounds, 4 events | a wallet left, an insert that fails, a rollback between an execute and its commit, and the round after |

`CHECK_DEADLOCK FALSE` is said where the system really stops: a miner that is off
after its last session, a server after its last request, a walk at its hottest
reading, and the bounded services.

## 5. What the code does not keep

Each of these statements of the repository is a property that TLC refutes
(`findings` in `PROJECT.json` has the quotations):

| run | statement | what the run shows |
|---|---|---|
| `cpu_filter` | `supervisor.py:1115` "Filtered false positive"; `submit_result.py:17` "should be held and submitted again" | CPU workers hash with the configured memory cost; at another network difficulty a true block is let go |
| `lost_cost` | `flush.py:207` "Queued block dropped (false positive)" | the import leaves out the memory cost; a raw hit restored after a crash is checked at the wrong `m=` and dropped |
| `cap_restore` | `cuda_native.py:663` "Restore full lane cap when reference difficulty and temps are safe." | the restoration is tried once, at the retarget; a card that cools down later keeps the reduced ceiling |
| `settlement_atomic` | `settlement.py:40` "All balance changes and transaction records commit atomically" | a commit of another coroutine on the shared connection parts them, and a crash leaves half |
| `write_once` | `settings.py:145` "write once to miner.ini" | with the file the miner makes by itself the tracker id goes to the last section and is never found again |

Other disagreements were met while the modules were written.  The models behave
as the code does; the properties excuse them where they matter.

Miner:

* `store.py:322` says "Re-import queued blocks ... not yet accepted"; a block
  confirmed with 409 "already exists" has no 2xx on record (`accepted_keys()`), and
  is imported again at every start.
* `supervisor.py:325` says "queuing new hits ... (no live submit/flush)" of a
  transition, but `handle_hit()` (line 1134) and `_try_flush_pending_queue()` test
  it before the refresh that may begin it.
* `flush.py:170` says "network blips stay pending without polluting
  rejected.jsonl", but the live path (`HitRejected`) logs a gateway timeout there.
* `CHANGELOG.md:11` says "Guarded ... CUDA start() so one failure does not
  hard-crash the miner"; only the first `start()` is guarded (`RestartFails`).
* `supervisor.py:597` says "will reduce lane cap by 1 when GPU restarts after
  cooldown"; a retarget during the stop leaves one lane planned, and `Restart`
  drops the request.
* `supervisor.py:640` gives as the reason of a reduction "GPU temp cap hit during
  multi-lane low-difficulty mining"; `Note` is made for a card that is hot at a
  restart, before any batch, too.
* `cuda_lane_policy.py:1` says "Persist CUDA lane cap reductions after GPU temp
  cooldowns."; a crash inside the write (`torn`) gives the full ceiling back.
* A start of the CPU backend after a hit adds workers to those still running, up to
  twice the lanes (`MaxRounds`), against `main.py:31`; without a memory snapshot
  `can_add_lane(None)` lets the lanes grow.
* `restore()` leaves the Windows power plan alone when the limit equals the
  original one (`gpu_power.py:267`), and a crash leaves the raised limit for the
  next session to take for the user's own.
* A `miner.ini` cut off by a crash has no sections, and the miner does not start
  until it is deleted.
* Torn files of balances, uptime or local statistics lose all history; the wallet
  a history belongs to is never compared; a zero shown for a token that failed
  becomes a "cached" value later.  A snapshot recorded late can make a restarted
  session, while its status is "cached", show a loss.
* `estimate_foreign_vram_mib()` takes the growth of a batch that was scaled down, or
  not there yet, for that of other programs, against its docstring
  (`vram_batch.py:222`); a plan made for one buffer is run by several DLL copies at
  a time until the next replan (`cuda_native.py:537`); a failing `set_difficulty()`
  keeps the old batch at the new difficulty; `apply_lane_cap()` with a cap of one
  lane distributes batches otherwise than its docstring says; and
  `clamp_plan_to_caps()` never trims a plan that `plan_cuda_batch()` made.

Platform:

* A stop that races the watchdog charges a lease twice; a 403 of `/api/stop` leaves
  a completed lease without a settlement; concurrent deposits overwrite each other.
* A `register_ack` during a lease makes the worker AVAILABLE while it mines for the
  consumer, and the finally clause of an old connection takes the session of the
  new one out of the broker's table.
* Databases older than version 5 (no `api_key`) and those with a worker rented
  twice never start, against `deployment.md:319-321`.
* `WalletSnapshots.Rollback`: a settlement that rolls back between `insert()`'s execute
  and commit takes the record along; no exception is raised, `_last_blocks` has moved
  on, and the blocks of that record are in no other.  Blocks of
  `increment_self_blocks()` that a round has read can go the same way.
* A worker shut down while its connection is down connects again and can be resumed,
  without a watchdog and a heartbeat; shut down over a lease that has run out it keeps
  lease and mining context.
* `docs/api-reference.md` (about line 1055) adds up the snapshots' earnings, which
  are cumulative already; after a restart of the server a wallet's first record
  repeats its whole count; two heartbeats in flight, of an old connection and of a
  new one, can count online time twice; `create_snapshot_for_address()` is never
  called.
* `xen_cuda_api.cpp` moves a `LaneSlot`, which has a mutex, into a vector, and does
  not compile as it is.

## 6. Fairness

`FairSpec` of `BlockPipeline` assumes that the main thread's steps, the workers,
the poller and the clock go on (weak fairness): threads are scheduled, `urlopen()`
has a timeout, `run()` is a loop.  The network check and the queue service get
strong fairness, because the loop makes each of them whenever its interval is over,
and between two passes the main thread is elsewhere.  `PoolTakes` gets strong
fairness: a pool asked again and again for a block that it could record does not
lose every request.  Nothing is assumed of the pool's difficulty, the network
or the window: `HeldBlockReachesPool` has their staying good as its
premise (`<>[]Served`), and a session that stays up.

`FairSpec` of `GpuSafety` assumes that a running supervisor takes its steps (it is
one thread) and that a cooldown ends (time passes).  Nobody has to start a
process that has ended, and the card owes nothing: `MiningResumes` has as
premises a process that stays and a card that stays out of the emergencies.

The other modules state safety only, and no fairness.

## 7. Proofs

The theorems hold for every value of the constants, under the named assumptions of
the modules.  A safety theorem goes over an inductive invariant, since none of the
properties is inductive by itself.

| module | theorem | states |
|---|---|---|
| `BlockPipeline_proofs` | `TypeCorrect` | `TypeOK` |
| | `ClosedRowsAreSettled` | `ClosedRowsSettled` |
| | `OneOpenRowAtATime` | `OneOpenRow` |
| | `AcknowledgementsAreTrue` | `AcksAreTrue` |
| | `NativeHitsAreKept` | `NoHitVanishes`, for the CUDA backend |
| | `ProvedBlocksAreSent` | `SendsProvedBlocks` |
| | `FlushesLogRejections` | `FlushLogsRejectsOnly` |
| `BlockRefinement` | `PipelineImplementsLedger` | `ImplementsLedger` |
| | `AcceptedBlocksStayOut` | `AcceptedNeverRequeued` |
| | `NoBlockLost` | a logged block is owed to the pool, or it is recorded there or cannot be proved (`OwedOrSettled`) |
| `GpuSafety_proofs` | `TypeStaysCorrect`, `LanesStayWithinCap`, `CapStaysOnRecord`, `HotCardsAreLeftAlone`, `CapMovesByRule` | `TypeOK`, `LanesWithinCap`, `CapOnRecord`, `HotIsLeftAlone`, `CapSteps` |
| `Rental_proofs` | `CountedForOneLease`, `WorkerStaysSound` | `CountedWhereMined`, `WorkerSound` |
| `Marketplace_proofs` | `RentIsNotRefused`, `LeaseChargedOnce`, `SettlementsWhole`, `BooksStayBalanced` | `RentNotRefused`, `ChargedOnce`, `PartedOnlyByOthers`, `BooksBalance` |
| `Services_proofs` | `LockExcludes`, `LockStaysOnRecord` | `SerialStartsExclude`, `HolderOnRecord` |
| | `IdleOverHitOnly`, `LimitStaysKept`, `HotCardsAreNotRaised` | `IdleMeansHit`, `LimitKept`, `HotNeverRaises` |
| | `SnapshotsStayRead`, `PastDaysStayFixed`, `BlocksOutliveMigration` | `SnapshotsAreRead`, `PastDaysFixed`, `MigrationKept` |
| | `HeatDeratesInOrder`, `MoreHeatLessWork` | `DeratesInOrder`, `MoreHeatNeverMoreWork` |
| `Records_proofs` | `HeardInOrder`, `AcceptsStayCounted` | `NeverGoesBack`, `AcceptsCountedOnce` |
| | `ChartsAddUp`, `UptimeAddsUp` | `ChartAddsUp`, `RecordAddsUp` |
| `Settings_proofs` | `IdentityStays` | `IdentityKept`, with the shipped `miner.ini.example` |
| | `PlansFitCard`, `ServicesTyped` | `PlanFitsCard`, `ServicesTypeOK` |

**The pipeline.**  For every number of blocks, difficulties, workers and sessions,
under `PipelineAssumption` (`MemoryCost` is a difficulty, only the GPU has false
positives), `DifficultyAssumption` and `NoHitAssumption`.  `IInv` adds to the
properties of `BlockPipeline_proofs`

* `StackOK`: the main thread returns only when there is something to return to,
  and a flush is nested at most as the code can nest it;
* `HitOK`: the hit in hand is a mined block with no open row, not in the log
  before it is appended, and with the answer the pool really gave; this is what keeps
  `HitInsert` from queueing a block twice, and `HitAccepted` from an untrue
  acceptance;
* `TasksOK`: every worker's row exists, and its answer is one that the pool gave
  (an answer of success means that the pool has the block);
* `MinedOK`: what is logged, queued, submitted or recorded has been mined;
* `NativeHitsKept`: `NoHitVanishes` when the backend is CUDA.  With the CPU
  backend `HitFiltered` may drop a real block (the finding of `cpu_filter`), so
  there it holds only when all difficulties are equal.

The lemmas on the store (at the top of `BlockPipeline_proofs`) state of each operator which rows it
keeps (`RowsKept`: no row disappears, a row that is closed stays closed, and its
memory cost stays what it is) and how it changes the open rows; the step lemmas
cite them.

`SendInv` adds where a shutdown may be (`ShutOK`), that the main
thread waits while workers of its flush are under way, so that the difficulty they
tested cannot change (`AwaitOK`), and that what is past the CPU check is no false
positive (`ProvedOK`).

`BlockRefinement` shows step by step that a step of the pipeline is one of the
ledger or a stutter: only a durable write or the pool's record moves the ledger, a
closing worker finds its block recorded or unprovable, and an import takes up no
sealed block.  `FreshOK` (the hit in hand has never been accepted) is what keeps
`AcceptedNeverRequeued` when the live path queues it.

**The GPU loop.**  For every configured ceiling and least number of lanes.  The
invariant adds `Writing` (where the loop may be during a write, and that a write of
a reduction has the engine off), `Off` (the places the loop takes the engine to be
off without looking) and `Checked` (a lane about to run on a hot card is the first
of it: `pc = "run"` implies `heat = 0`, which only the abort check before every
lane makes true).  `GpuSafety` has no bound on sessions, and the theorems need none.

**The lock.**  For every number of processes and ids.  The invariant says that a
file with the id of a running miner keeps all others off: whoever has read it has
read that id (`OthersKeepOff`), so `_pid_alive()` sends it away.  `OwnersNamed`
extends this to the miner that is about to remove the file.

**The rented worker.**  For every number of leases, blocks, handlers, connections
and messages.  `CountedOK` says that what counts is on the chain and what is on the
chain was hashed to its end, so that its prefix no longer changes.  `WorkerInv` says
of the one runner that is half done what it has brought about so far (`Along`, by
its label), and of the worker at rest that its parts agree (`Rested`); a step of a
runner beside which no other is half done takes one to the other (`HandleSound`),
and nothing else moves the worker (`QuietStep`).

**The marketplace.**  For every number of leases, workers, coroutines and any
amounts.  The lock is what `RentIsNotRefused` rests on: whoever is between its
choice of a worker and the lease's row holds the matcher's lock (`LockHeld`), so its
choice still stands (`ChoiceStands`).  `ChargeInv` says that a lease on its way to a
settlement is one coroutine's, that it goes there once, and that it is unpaid until
then.  `PartInv` says of a settlement under way which of its statements have taken
effect (`Parts`, `Midway`, `Underway`), which is what another coroutine's statement
can fall into.  `MoneyInv` adds up the accounts with what has left the consumer and
has not yet arrived (`InTransit`); each statement moves as much out of transit as
into an account.

**The services.**  They share no state, so each has an invariant of its own, under
its own assumption: `CpuAssumption` and `SettingsAssumption` are the ranges the code
clamps or validates its settings to, `PowerAssumption` and `HeatAssumption` what a
driver and a sensor report, `BalancesAssumption` and `MigrationAssumption` that a
day has a length and that the newest schema is beyond the last column;
`ReportAssumption`, `UptimeAssumption` and `SnapshotAssumption` that the limits on a
backfill, on the hours and outages kept and on the rounds a record is kept for are
numbers, and that outages are kept for longer than hours; `VramAssumption` that shares,
floors and sizes are numbers, and that a lane's batch, the lanes and a difficulty are
at least one.

* `CpuInv`: the stop event is set over a hit only, and while it is not set some
  worker is in the loop, or the last one has left a hit in the queue.
* `PowerInv`: the card has the limit on record, which lies between the configured
  floor and the target or is where the user had it.
* `BalancesInv`: every balance of a snapshot was read after the snapshot's refresh
  began (`WasRead`); what a fetch has read was read in this refresh and is the latest
  there is (`FetchSound`), and so is what is shown while its status is `ok`
  (`ShownLast`).  That there is a latest day to compare with is the least-number
  principle.
* `UpgradeInv`: what the disk holds whenever the process dies (`Sound`), and what the
  connection sees at every statement (`Versions`, `Done`, `Rebuilding`): during the
  rebuild the rows are in the old table, or in the new one, or in both; one lemma per
  statement.
* `ReportInv`: of every producer what is heard, posted, queued and about to be queued
  comes in this order and does not fall (`InOrder`), and none of it is beyond the
  session's counter (`UpTo`), so that the next call can only add to the end.  Losing
  or evicting a job keeps an order; putting one back would not.
* The rules of heat need no state but the last two readings.  The lemmas show that
  integer quotients, rounding half to even and easing along a straight line are
  monotone, for every limit and ratio; `NoHotter` then carries the order of two
  readings through each rule.
* `CountInv`: what is counted on disk and in memory, with what the call under way
  still has to count, is what was accepted, and an acceptance without its count is
  due to one caller (`Reporting`).
* `SnapInv`: of a wallet that is not excused, what the server remembers is what its
  workers had found then, and the records after any of its records add up to the
  difference from that one (`SumsUp`).  It is said of the rows the connection shows, and
  of the committed ones for the wallets that have no record waiting for its commit
  (`Waiting`), which is all that a rollback or a restart brings back.
* `UptimeInv`: a record is sound (`SoundRecord`: every hour it keeps has the time it
  has seen of it, and its offline time is that of the outages, of which no two end at
  once; unless their number is at its limit and all of them are later), in memory and,
  unless a write was cut off, on disk.  Each probe adds
  the same interval to the hours and to an outage; dropping old hours and old outages
  keeps the equation over the hours that are left.
* `IniInv`: the file has every line of the shipped one, each key once, or a crash has
  cost it the section `[server]`, which nothing appends (`WholeText`, `BrokenText`).  As
  long as no write was lost, the text a program is about to write is the file with one
  value set (`Ready`), whatever the miner still lacks at a step it is about to set before
  the next one (`MinerReady`), and what was saved or used is in the file (`InFile`), so
  that nobody sets it again.  The theorem asks for `Template = "example"`: with the file
  that `ensure_miner_ini_exists()` writes by itself the statement is false, which is the
  finding of `write_once`.
* `VramInv`: a backend at rest has no plan; one that runs has a base and a plan made
  from one budget (`AlikePlans`), all of whose buffers are within it (`FitPlan`), and
  the budget, the claim of the others and the overhead are together below the target
  and leave the headroom (`Holds`).  A sound reading puts what the others held below
  that claim (`InUse`).  Under it are the rules on quotients: a part of the attempts
  takes at most its part of the memory (`PartsFit`, `AttemptsFit`), which is why fewer
  lanes need no more of it (`LaneCapFits`) and why a clamp has nothing to trim
  (`MadeFits`).  No size of card or share is assumed: where nothing is left the budget
  is zero, and a plan without a batch is never put in use (`NothingClamped`).
* `ServicesTypeOK` is more than types where it bounds a queue or a count, and those
  bounds have invariants of their own.  `QueueInv`: the hits in the CPU backend's queue
  and the workers that can still put one (`Able`: past the test of the stop event, or any
  worker while it is not set) are together at most two for each lane, since the
  constructor and `start()` each add a round of workers and the rounds added over a hit
  find the event set.  `CountedBound` is
  `CountInv` while a session runs, and nothing is counted after it.  `SnapBounds`: the blocks
  of all workers, whoever they are registered for, are no more than there were events,
  and neither is what a round has read or a wallet is remembered with.  `IniBounds` needs
  no shipped file: whatever becomes of the text, what is read of the identity was written
  there after it was made up (`Owned`).  `VramLanes`: a plan has no more lanes than the
  ceiling it was made under (`LanesPositive`), and the ceiling is at most
  `cuda_max_lanes`.  `BoundsAssumption` says that the bounds of the model are numbers,
  and `CpuAssumption` that they leave room for two rounds of workers.

Several of these speak of sums over sets, defined by a fold.  The library's induction
theorems cannot be instantiated here, so `Records_proofs` starts with the two
inductions it needs, over numbers and over the subsets of a finite set, with a set in
the place of the predicate (`Numbers`, `Subsets`, from the least-number principle).
With them it shows that the fold is the sum that it should be: what a sum is of a set
with one more element (`TotalAdds`), of two disjoint sets, of two sums, and that the
order of a double sum may be changed.

Only model-checked:

* `HeldBlockReachesPool`, `ShutdownCompletes` and `MiningResumes`: liveness under
  fairness is out of TLAPS's reach.

Every invariant and every action property of the passing runs is stated by a theorem.

## 8. Not modelled

* Dashboard and console, diagnostics, scripts: they read and print.
* The other settings: read once at a start; they are constants here.
* The legacy GPU bridge: it starts an external program.
* Key strategies: random keys without state of interest (the fibonacci strategy
  repeats its keys in a respawned worker).
* The hashing kernels and third-party headers; of the native engine only what it
  allocates (`VramPlan`).
* Of the miner: the choice of one hit of a batch (`cuda_native.py:739`), the order
  of two publications of the poller (`poller.py:100`), `timelapse.py` and
  `woodyminer_stats.py` (figures drawn from counters, with a back-off).
* Of the platform: authentication, pricing, reputation, dashboards, the simulator and
  the hash-API benchmarks: formulas over one row, read-only views and load generators.

Four hazards have a step in the models and no property, because the repository
promises nothing about them: an aborted batch that carries a hit loses it
(`supervisor.py:1594`), a block confirmed by 409 is taken up at every start
(`store.py:235`), a lease that is stopped by somebody it is forbidden to is completed
and never settled (`routers/rental.py:61`), and a message to a worker is lost with its
session (`broker.py:256`).

## 9. Plan

Done: the pipeline with its ledger, the GPU loop, the lock, the CPU backend, the
planner, the power limit, the records and reporters, the platform's money, leases,
migration and charts; the proofs above.

Left, in this order: a fault model of the poller (two publications in any order,
refined to `Poll`); several hits of one CUDA batch; a composition of `Marketplace`
and `Rental`, so that a block that counts pays the worker whose lease it was mined
under; the timelapse.
