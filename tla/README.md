# Verification of the Gyanam collector

TLA+ models of the GPU observability collector under `collector/src`, the TLC
runs that check them and TLAPS proofs of the safety properties.  Paths are relative
to `src/collector/src/` unless they start with `docs/` or `scripts/`, which are relative to `src/`.

## The system

Collector processes poll BMCs over Redfish, turn the answers into metrics and
write them to InfluxDB.  Targets, alerts, logs and the coordination tables live
in one SQLite file shared by every collector and the API process.

| Component | State | Operations | What makes it correct |
|---|---|---|---|
| Sharding (`shard_manager.py`, `database/repository.py` 966-1335, `collector_main._init_sharding`) | `shard_leases`, `collector_slots`, `collector_stats`; the pass in progress | claim a slot, renew, read membership, reconcile or claim, release | one collector per target; fresh leases and ordinals are not stolen; every enabled target is covered |
| HRW allocation (`shard_alloc.py`) | none | `allocate`, `effective_cap` | within the cap, covers the fleet, respects preference |
| InfluxDB exporter (`exporters/influxdb.py`) | buffer, running flush, connection, counters | write, flush, bisect, requeue, reconnect, close | no point vanishes uncounted; only bad points are rejected; writes resume |
| Poller (`redfish/poller.py`) | schedule, in-flight polls, client cache and locks, pending status | schedule, poll, evict, flush status, stop | one client per target, none leaked; latest outcome reaches the database; nobody starves |
| Result pipeline (`collector_main.py`, `redfish/poller.py`) | result queue, batch, workers, shutdown phase | enqueue, collect, process, ordered shutdown | what was queued is exported before the exporter is closed |
| SSE metric streams (`redfish/sse_subscriber.py`) | connections, the targets of the round | sync, start, stop | every SSE target streams; the shutdown waits for none |
| Alert subscriptions (`alert_manager.py`, `redfish/alert_subscriber.py`, `redfish/webhook_subscriber.py`, `redfish/sse_capability_check.py`) | subscribers, fingerprints, failure marks; the subscriptions the BMCs hold | refresh, harvest, verify, connect, classify, stop | subscriptions follow the targets, none leaks, a healthy target delivers |
| Alert intake (`alert_manager.py`, `database/repository.py` 119-152 and 1523-1626) | rate window, queue, batch, alerts table | receive, enqueue, write, retry, stop, crash | no alert lost uncounted, none stored twice |
| Log baseline (`redfish/log_baseline.py`) | the pull in progress, `log_cursors` | list, read, advance the cursor | the cursor leaves no unread entry behind |
| CPER decoding (`cper_worker.py`, `redfish/cper_decoder.py`) | CPER columns of an alert, a worker's batch | select, fetch, write, requeue, finalize | final rows stay final, none stays pending |
| Log collection and policy (`log_collector.py`, `policy/engine.py`, `redfish/client.py`) | `collected_logs`, files, per-process locks, sessions and tasks on the BMC | collect, poll the task, prune, expire, delete | rows and files agree; the latest bundle survives; nothing stays on the BMC |
| Placement (`inventory/enricher.py`, `location/`, `api/routes/datahall.py`) | the `loc_*` columns of a target | enrich, test, resolve, place, import, clear | an operator's word stands |
| Bulk export (`scripts/export_influxdb_data.py`) | chunk files, staging file, output | count, query, retry, join, rename | the output is whole |
| API pages, parsing, heatmap cache, Prometheus, other scripts | see PROJECT.json | | |

How the parts meet: `get_active_targets` gives the poller, the SSE manager and the
alert manager the slice the leases grant this process.  Polls and SSE streams put
results into the queue of the poller, `result_processor_task` takes them out and
calls `exporter.write`, and `_shutdown_collector` stops all of it in order.  Hard
to test: two processes and one table, with lock waits and stalls; one event loop in
which any await may interleave a manual poll, an eviction or a cancellation; errors
of InfluxDB, BMCs and SQLite in the middle of a step; shutdown at any time.
PROJECT.json lists the hazards line by line.

## Modules

**ShardAlloc**, **MCShardAlloc** - the allocation as a recursive function over the
targets in id order.  The hash is a constant `Score`, an arbitrary preference, so a
result holds for every hash.  MCShardAlloc lets the initial state range over
preference orders, fleets, live sets and ceilings; `Representative` restricts the run, not the theorems, to
one order per renaming of the collectors.

**TargetOwnership** - what sharding promises: at most one process collects from a
target and a target changes hands only through a moment without a collector.

**ShardLeases**, **MCShardLeases** - the three tables, the life of a process (start,
slot, join, passes, sleep, release, crash) and both balance modes.  One transaction
is one action; reads before the last transaction of a pass are separate, so views
go stale.  A row's timestamp is its age, capped where no comparison can tell the
difference.  Functions that read the clock before waiting for the write lock
write a row that is already `w <= MaxWait` old.  `PassFails`, `RenewSlotError` are
database errors; `MaxStall` bounds the time between heartbeats of a running process
(a value above the cap means no bound).

**InfluxExporter** - points are numbers in order of production.  A flush is a sequence
of pieces; `Attempt` answers one piece with success, 4xx (bisection) or an error
(requeue); pieces of different batches go in any order, those of one batch in
sequence.  `stored` is what the server has, including writes whose answer was lost.
`api = "broken"` is a connection that fails until it is rebuilt.  Left out: delays,
the flush event, the batch semaphore (the batches already interleave freely), 
`write_immediate` (no caller), a client constructor that raises in `connect`.

**RedfishPoller**, **MCRedfishPoller** - one collector's event loop: an action is what runs
between two awaits.  A next poll time is `later`, `backoff` or `due` and becomes due
by itself.  `poll[t, k]` is the place of the scheduled poll of `t` and of each manual one: any number of
requests may poll a target at once (`Requests`), since nothing serializes `POST /poll/{id}`.
A client lock is an object (`Locks`): `_client_locks` names the one that a new poll takes, and a poll
that waits keeps the one it took when the scheduler has discarded it (`redfish/poller.py` 489).
From such a discard until the last poll with a Lock is through the target is in `split`; a client
that is overwritten in the cache then goes to `lost`.
`open` holds the sessions that exist on the BMC, named by `Clients`, whether or not
the poller still knows them.  `fails`, `latest` and `saved` are history variables, as `split` and `lost` are.
MCRedfishPoller adds the symmetry of the names of clients, Locks and requests, and `ClientView`.

**ResultPipeline** - producers, the bounded queue, `get_results` (which returns after a
second of silence), the workers and the phases of `_shutdown_collector`.

**SseStreams** - the SSE manager, a part of ResultPipeline: its rounds read the wanted targets,
stop what is no longer wanted and start what is missing, in the order of the query; a
target that cannot be decrypted ends the round.  Its connections are producers of the
result queue.

**AlertSubscriptions** - the refresh task with the locals of its pass (`refresh`), the subscribers of
both transports, the marks of permanent failures, the subscriptions on each BMC and `stop()`,
which may come between any two awaits.  A request to a BMC is served according to `health`, its
answer may be lost.  `lossy`, `cutOff` and `orphans` are history.

**AlertIngest** - two or more collectors with queue, batch, rate window and the shared table.  An
alert is its deduplication key (content and time, log identity, or time of receipt).  The
check for existing keys and the insert are two steps.  `Unstorable` alerts have no row: theirs cannot be
prepared, or it breaks a constraint of the table.  `handed` and `settled` are history.

**CperDecoding** - the CPER columns of the alerts and the loop of each worker; nothing claims a
row, so workers share it.  Ages of `cper_attempted_at` are the three classes the code tells apart.

**MCAlertStore** - AlertIngest and CperDecoding side by side on one configuration: they share only
the existence of a row.  The collectors come in two sizes, one of them with two events and both with one.

**LogBaseline**, **MCLogBaseline** - one log collection, pulled by collectors that share the cursor:
the listing (pages that may fail), the entries in their order, the GETs of entries that are listed
without time, and the read and the write of the cursor.

**LogCollection** - API and collectors with their own locks, one table and one directory; the workflow
of the Redfish client (session, task, polls, download, deletions) inside each collection.
`remote` holds what is on the BMCs and is still the code's to delete.  A deletion takes rows first and then,
in one go, their files (`doomed` holds a set of rows for each): any of these may stay, by a refused
path, a failure, or a failure before it in the loop.  `stray` remembers them.

**SystemPlacement** - one row and three writers; each write reads, decides by the trust of the sources
and updates the columns that differ from what it has read.

**BulkExport** - one run of the export command beside collectors that write.  A file is a
sequence of lines.

**MCOperatorTools** - MCShardAlloc, SystemPlacement and BulkExport side by side: three machines without
shared state, of which a behaviour runs one.

**MCResultExport** - ResultPipeline and InfluxExporter side by side, in the same way: a behaviour runs one of
them, and the other has been shut down.

**ShardLeasesProofs**, **FoldProofs** (InfluxExporter, MCShardAlloc, BulkExport), **RedfishPollerProofs**, **ResultPipelineProofs**,
**AlertSubscriptionsProofs**, **LogBaselineProofs**, **LogCollectionProofs**, **TableProofs** (AlertIngest,
CperDecoding, SystemPlacement) - the theorems about these modules and their proofs, see below.

Operators whose comment starts with "Mutant" are deliberately wrong variants of the
definition that follows them; nothing uses them, PROJECT.json says which property
each one breaks.

## Runs

| Run | Checks | Bounds and why they are enough |
|---|---|---|
| `alloc` | SliceWithinCap, SlicesCoverFleet, OnlyFullCollectorsAreSkipped | up to 4 targets, 3 collectors, ceilings 1 and 3: rounding, overflow to the next preference and a full fleet all occur; the preference of one target is fixed, which renames collectors |
| | OutputExact | a range of 3 times and one beyond it, one window or two, one retry: rows on a boundary, empty windows, writes during the export |
| | OperatorPlacementKept, PlacementSettles | one rack per source, three writers, locked and failing databases, silent BMCs |
| `static` | StaticWithinCap, StaticLeasesStayFresh | 2 processes, 3 targets, cap 2: contention for the third target, lock waits of one tick, crashes, targets switched off |
| `slotted` | IdentityHeld, NoDoubleOwnership, ImplementsOwnership | 2 processes, 2 ordinals, 1 target; heartbeats within the TTL of 2; restarts under another ordinal occur |
| `stalled` | FreshSlotKept, FreshLeaseKept | the same without a bound on the time between heartbeats, the target always enabled: a process returns after a successor has taken its ordinal and its lease |
| `live` | EnabledTargetsCovered | 2 dynamic processes, one of which crashes, stops and sees errors; 2 targets |
| `export` | FinalCycleBuffered, ShutdownCompletes, EventuallyStreaming | 3 results, queue of 2, 2 workers, one fruitless result: overflow, several batches, stop in each phase; 3 SSE targets, the middle one undecryptable |
| | Accounting, NoSilentLoss, OnlyBadRejected, InOrder, WritesResume | 5 points in writes of up to 3, batches of 3, buffer of 4, reset after 2 failed flushes: bisection of odd pieces with a bad point in either half or in both, requeue into a full buffer and a broken connection occur |
| `poller` | NoClientLeak, OneClientPerTarget | one target with the scheduled and two manual polls at once, 3 clients, 3 Locks: a poll waits for a Lock that is discarded, another takes a new one, both connect and a client is lost; failing database calls, stop at any time |
| `poller_live` | LatestStatusWins, EveryTargetPolled | two targets and one semaphore slot, one target with malformed tags, the other leaving and rejoining; one client name, so a reconnect waits for the close before it.  Without manual polls: they commit a status of their own and leave what the writer has pending alone, and one that is requested again and again would keep the scheduled poll from the target's Lock, which the model hands to any waiter and asyncio to the first |
| `subscriptions` | SubscriptionsMatchConfig, StopLeaksOnlyCutOff, NoUnknownSubscription, EventuallyDelivering | one target (a pass handles its targets one after the other and keeps nothing between them but per-target entries), two configurations, one with a wrong endpoint, room for 2 subscriptions on the BMC, webhook fallback and automatic retry on |
| `baseline` | CursorPassesOnlyRead, EntriesEventuallyRead | two collectors, three entries, two of one second, each listed in another way, two entries per pull |
| `ingest` | NoSilentLoss, StoredOnce, AlertsLeaveMemory | two collectors with one event for both, or one with that and one without a row; batches of 2, queue and rate of 1: every limit is reached, a batch holds an alert with a row and one without, the loop waits for a batch to fill; one collector stops and crashes |
| | TerminalFinal, PendingEnds | two workers on one row, two attempts: both count past the limit and neither sets a final status. Rows meet only in the limit of a batch |
| `logs` | FilesMatchRows, BundleKept, NothingLeftBehind | the API and one collector on one target, two rows, two consecutive errors |

`static`, `slotted` and `stalled` use symmetry over processes, which have the same configuration there; they check
only invariants and action properties (and the refinement, a safety property), and the
processes' names enter the allocation only in unslotted dynamic mode, which none of them uses.
`poller` uses symmetry over the names of clients, Locks and manual polls, which no definition
tells apart, and takes states that agree on `ClientView` for one: it leaves out the poll
status (`pending`, `drained`, `row`, `saved` and their like), which guards no step of a poll, a client or a Lock.

Deadlock is not checked in `alloc` and `logs`: an export ends, and the rows of `collected_logs` are bounded by `MaxLogs`.
Type invariants are stated in every module; the inductive invariants of the proofs contain them or the part they need.

### Fairness

- ShardLeases `FairSpec`: time passes, the claim loop of a running process is resumed
  (asyncio runs what is ready) and the database does not fail the same step of its
  passes for ever (strong fairness: an error aborts the pass and the next one
  tries again).  Nothing is owed by the operator, crashes or the statistics task.
  `FailingPeerSpec` drops the assumption about the database for unreliable processes.
- InfluxExporter: the flush loop is resumed and every write is answered or times out
  (`write_timeout_ms`).  Nothing is assumed of the server but in the property.
- RedfishPoller: ready tasks run, BMC requests end (they have timeouts), time passes;
  strong fairness for the semaphore, whose waiters asyncio serves in order.
- ResultPipeline and SseStreams: the shutdown goes on, and so do the rounds of the SSE manager; nothing is
  assumed of extraction.
- AlertSubscriptions: the refresh task and the subscribers are resumed, requests end by their
  timeouts, cooldowns and the interval of the verification pass.  EventuallyDelivering speaks of a target
  whose row and BMC stay as they are from some time on.
- AlertIngest: the batch interval passes; strong fairness for a write that succeeds, since a store that
  never answers cannot be retried into; `stop()` goes on.
- CperDecoding: a worker goes on, time passes, and the maintenance is due again and again (strong
  fairness).  PendingEnds starts when restarts and failing writes have ended.
- LogBaseline: the re-pull loop comes round and requests end; the property starts when the BMC and
  the store answer.
- SystemPlacement: the enricher's passes, the steps of a write and the age of the inventory.
- In the runs that put machines side by side fairness is asked of the one that runs.
- LogCollection and BulkExport have safety properties only.

## Claims that do not hold

What a comment or a document says and the model refutes.  Put the definition into the named
configuration, with the changes given, to see the behaviour.

- `OrphansCovered` (`MCShardLeases_live.cfg`, `SPECIFICATION FailingPeerSpec`, `MaxStall = 9`): the sweep of
  `reconcile_shard_leases` is bounded by the fair share (`database/repository.py` 1134), so a peer that looks
  live but whose reconcile keeps failing leaves targets uncovered for ever, against "guarantees such
  orphans are covered within one pass" (1075-1077).
- `FinalFlushComplete` (`MCResultExport.cfg`, `Bad = {}`, `ServerStates = {"up"}`): `close()`
  cancels a flush that has taken the buffer (`exporters/influxdb.py` 336); its points are neither written
  nor counted, against "writes the drained buffer" (`collector_main.py` 841).
- `UnprocessedBounded` (`MCResultExport.cfg`): results less than a second apart keep
  `get_results` collecting (`redfish/poller.py` 917); its list outgrows the queue's limit, which is there "to
  prevent memory issues" (129).
- `AllSubscribersStopped` (`AlertSubscriptions.cfg`, `Spec`): a subscriber that the refresh starts while `stop()`
  awaits the others is stopped by nobody (`alert_manager.py` 345-347).
- `RemovalClearsMark` (`AlertSubscriptions.cfg`, `Spec`): the mark of a target that was never subscribed
  survives its removal (`alert_manager.py` 505-506).
- `CursorMonotone` (`MCLogBaseline.cfg`, `Spec`, with the entries at times 1, 2 and 3): two pulls that read the
  cursor before either writes set the "high-water mark" (`database/repository.py` 2105) back.  Entries are
  read again; none is lost.
- `PlacementSettles` with `Refreshed = FALSE` (`MCOperatorTools.cfg`): a pass that stored the inventory and
  failed to store the placement is not repeated when `refresh_interval_hours` is 0.
- `GapFreeHandoff` (`MCShardLeases_live.cfg`, `SPECIFICATION Spec`): between the expiry of a
  shed lease and the next pass of the new owner nobody owns the target, against
  "gap-free" in `docs/SCALABILITY.md` 269-272.
- `OwnedWithinCeiling` (`MCShardLeases_live.cfg` with `MaxPerShard = 1`, `Spec`): fresh leases of an
  earlier slice count beside those of the new one, against the "hard safety
  ceiling" of `shard_alloc.py` 51.
- `NoDoubleOwnership` without the timing assumption (`MCShardLeases_stalled.cfg`): a
  process stalled past the slot TTL and its successor share an id, hence a
  slice, until the stalled one's next renewal; `docs/SCALABILITY.md` 257-259 says "no
  target is ever double-owned".
- `OneClientAlways` (`MCRedfishPoller.cfg`): the target leaves when a poll has just connected and
  another waits for its Lock; the scheduler evicts the client and discards the Lock (`redfish/poller.py` 488-489),
  and a later poll makes another (231): two polls connect, against "don't both build a client at the same time" (228-230).  The client that is cached first is
  overwritten and its session stays open.  The model serves waiters of a Lock in any order; in asyncio's
  order the same takes one waiting poll more.
- `EveryPollRecorded` (`MCRedfishPoller_live.cfg`, `SPECIFICATION Spec`): malformed tags make the handler of
  `_poll_target` use the unbound `target_tags` (`redfish/poller.py` 833); the poll leaves no status
  and never backs off, against the comment at 636-641.
- `BreakerNotEarly` (`MCRedfishPoller_live.cfg`, `SPECIFICATION Spec`, `BreakerThreshold = 2`): the breaker trips at
  threshold - 1 when the status writer commits the failure before the poll
  re-reads the count (`redfish/poller.py` 427).
- `StatusFlushedAtStop` (`MCRedfishPoller_live.cfg`, `SPECIFICATION Spec`): `stop()` cancels the writer in the middle of a commit
  (`redfish/poller.py` 198).
- `GoneClientsClosed` (`MCRedfishPoller_live.cfg` with `Targets = {t1}`, `Malformed = {}`): when
  no target is active `_schedule_due_polls` returns before its cleanup (`redfish/poller.py` 444).

Built into the models as they are in the code, and excluded from the properties by name:

- An automated write that read the row before an operator's commit overwrites it, column by column
  (`overtaken`), against "never clobbered" (`database/repository.py` 545-547, `inventory/enricher.py` 57).
- The client of a target whose Lock was discarded under its polls may leak (`split`, `lost`), see `OneClientAlways`.
- An alert whose row cannot be prepared, or breaks a constraint other than the unique key, is dropped without
  being counted, and logged as "deduplicated" (`database/repository.py` 1584-1588 and 1624, `alert_manager.py` 1043);
  a `Message` that is null is such a case (`redfish/alert_subscriber.py` 559, `redfish/webhook_subscriber.py` 475).
  A value that the database refuses in another way each time fails its whole batch at every retry, until the cap drops
  it; the fairness of `AlertsLeaveMemory` rules this out.
- A file that `delete_file` refuses to delete or fails on stays without a row, and so do those after it in
  the loop (`log_collector.py` 237, `api_main.py` 155); when a later chunk of expired rows fails, the files of the earlier ones
  stay, too (`stray`).
- A target after the first one that cannot be decrypted gets no SSE connection (`redfish/sse_subscriber.py` 357).
- Two processes that prune at the same time, or a user who deletes a row that is being collected, cost
  the latest bundle (`owed` is given up there); a policy's re-arm time is bypassed when a manual collection
  prunes the policy's row or two evaluations race (`policy/engine.py` 72).
- A failed record keeps its file when the update of the row fails after the file was written
  (`database/repository.py` 1436-1450 says otherwise).
- The task of a POST whose answer is lost, or of a 202 without an address, stays on the BMC, against
  "MUST be deleted on every exit path" (`redfish/client.py` 308).
- The header of a windowed export is lost when its first window is empty (`_concat_chunk_files`); when a
  windowed export is interrupted the message promises "Partial output", but only a join in progress leaves
  one (`scripts/export_influxdb_data.py` 1177-1182), and the comment at 1193 keeps a
  directory that 1198-1200 removes.
- An edited target keeps its old SSE connection (`redfish/sse_subscriber.py` 348); `SSEConnection.stop()`
  swallows a cancellation of the manager (98).
- A CPER row that keeps failing is older than the rest and is chosen first: with more such rows than
  `batch_size`, newer ones wait until their attempts are used up.

## Proofs

Each theorem holds for every value of the constants that the module's `ASSUME` admits: any number of
processes, targets, entries or points, any limits.  The assumptions say that the constants have
their types, that limits are numbers and that the marks for "nothing" (`None`, `Nil`, `NoId`) are none of the
things they stand beside.  Every theorem about `Spec` follows from one inductive invariant per
module, which TLC checked on the run's instance before it was proved.

| Theorem | States | Module |
|---|---|---|
| `TypeCorrect` | TypeOK | ShardLeases |
| `FreshLeaseTheorem`, `FreshSlotTheorem` | FreshLeaseKept, FreshSlotKept | |
| `IdentityTheorem` (T), `NoDoubleOwnershipTheorem` (T) | IdentityHeld, NoDoubleOwnership | |
| `OwnershipTheorem` (T) | ImplementsOwnership, the refinement of TargetOwnership | |
| `StaticCapTheorem`, `StaticFreshTheorem` (T) | StaticWithinCap, StaticLeasesStayFresh | |
| `SlicesFit`, `FleetCovered`, `OnlyFullSkipped` | SliceWithinCap, SlicesCoverFleet, OnlyFullCollectorsAreSkipped | MCShardAlloc |
| `BooksBalance`, `PointsNotLost`, `GoodPointsNotRejected`, `OrderKept` | Accounting, NoSilentLoss, OnlyBadRejected, InOrder | InfluxExporter |
| `NoSessionLeaks`, `SingleClient`, `LatestOutcomeSaved` | NoClientLeak, OneClientPerTarget, LatestStatusWins | RedfishPoller |
| `PipelineTypeCorrect`, `FinalCycleExported` | PipelineTypeOK, FinalCycleBuffered | ResultPipeline |
| `ConfigFollowed`, `EverySubscriptionKnown`, `StopCleansUp` | SubscriptionsMatchConfig, NoUnknownSubscription, StopLeaksOnlyCutOff | AlertSubscriptions |
| `MemoryBounded`, `AlertsNotLost`, `AlertsStoredOnce` | TypeOK, NoSilentLoss, StoredOnce | AlertIngest |
| `DecodeTypeCorrect`, `TerminalRowsFinal` | DecodeInv, TerminalFinal | CperDecoding |
| `NothingLeftUnread` | CursorPassesOnlyRead | LogBaseline |
| `FilesHaveRows`, `LatestBundleKept`, `BmcLeftClean` | FilesMatchRows, BundleKept, NothingLeftBehind | LogCollection |
| `OperatorWins` | OperatorPlacementKept | SystemPlacement |
| `ExportExact` | OutputExact | BulkExport |

The theorems marked (T) also assume `Timed`: heartbeats come within the TTL, lock waits included.

**Sharding.**  NoDoubleOwnership is not inductive: it says nothing of a process that is about to renew
an ordinal another one holds.  The inductive invariant is
`IInv == TypeOK /\ IdOK /\ IdentityHeld`.  IdOK ties a process's id to its place in
the loop: the live set a pass reads is a set of ids only because the process has one.
IdentityHeld says that the slot row of a process
is there, carries its token and is exactly as old as the process's last heartbeat;
with heartbeats within the TTL nobody may reap it, so ids are unique, and unique ids
make the owned slices disjoint.  For the refinement, a target's holder is the one process
that owns it; a step changes at most one process's id, and a lease that is taken over
was stale, hence held by nobody.  For the cap, the claims of a pass are at most the
room left (`LowestBound`, about `LIMIT n`, rests on the cardinality theorems of
FiniteSetTheorems).  The steal guards are proved as action properties, with no timing
assumption, and the run `stalled` checks them without one for the dynamic mode; the proof of `FreshLeaseTheorem` covers the
claims of the static mode, too.  `slotted` bounds how long a process may stall, since its properties need that.

**The allocation.**  The three properties speak of what a fold computes, so the induction is over the targets,
not over the steps.  `AllocateServes` shows that the fold places one target after the other in the order of
their ids, `AllocatePlaces` that each placement keeps `Placed`: a collector holds at most its limit,
and a target served so far is on the collector it scores highest on among those that were not filled
by smaller ids.  Cover follows by counting: a target left out means that every slice is full, and then the limit is
`max_targets_per_shard` (`EffectiveCap`), since the fair share rounded up has room for all.  The assumptions are that the ids are
numbers, the fleet is finite and limits are numbers; `FleetInv` keeps the weights of a target distinct.

**InfluxExporter.**  `ExporterInv` says that only a running flush holds pieces, and that the books balance
(`Books`): the pieces, one after the other, and then the buffer are in increasing order, the lengths add
up, every point is somewhere and only bad ones are rejected.  The steps move parts of sequences: cutting the
buffer into batches, cutting a piece in two, removing one, putting all back in front of the buffer and
dropping the overflow.  What FlattenSeq makes of them (`FlatBatches`, `FlatSplit`, `FlatCat`) is proved by
induction.  The library's induction theorems have an operator as a parameter, which the provers cannot
instantiate; `Induction` is stated for a set of numbers instead and follows from
`LeastNumber`, which rests on the well-foundedness of strict inclusion between finite sets.

**RedfishPoller.**  `ClientInv`: a poll has a Lock while it waits for it and while it connects (`HasLock`), and the polls of a
target that is not split share the one that `_client_locks` names (`OneLock`); so while one of them connects the cache has no client of that target, and
a client is not overwritten.  The scheduler splits a target when it discards a Lock that polls have, and such a target becomes
whole again when none has one: then the next takes its Lock from `_client_locks`.  `StatusInv` says of every target which of `pending`, `drained` and `saved` has its
latest outcome, in this order.

**ResultPipeline.**  `PipelineInv` follows every result from the queue through the batch to a worker (`Flow`), ties the
list `get_results` is building to its place (`Gathering`), what is processed to the buffer (`Buffering`) and
the phases of the shutdown to what has stopped by then (`StopOrder`): FinalCycleBuffered alone says nothing before the
exporter closes.

**AlertSubscriptions.**  `SubscriptionInv` describes what the manager may hold of a target at each await of the refresh
task (`Stages`, `TargetOK`): the fingerprint, the subscriber of one transport, and the
subscriptions on the BMC, which are those a subscriber or the removal in hand knows unless a request to that BMC
failed.  The three properties look at it between passes and after `stop()`.

**AlertIngest.**  `IngestInv` adds to NoSilentLoss the shapes of queue and batch and that rows have different keys, made
as `_compute_alert_dedup_key` makes them; an event with a time has one such key, whoever receives it.  What is in the table is
settled (`RowsSettled`), so a batch that leaves memory is settled but for its alerts without a row.

**CperDecoding.**  `DecodeInv` is the type invariant with what a worker holds at each step; TerminalFinal is an
action property over it.  A batch is bounded because rows selected in one order are told apart by how many precede
them, the same argument as for `LIMIT n` above.

**LogBaseline.**  `BaselineInv` says of a pull in progress which entries it has accounted for (handed over, not wanted or
passed) and how far its next cursor may reach; the cursor alone would not do, since a pull writes what it
computed from a cursor it read earlier (`PullOK`).

**LogCollection.**  `LogInv` ties each collection to a row of its own (`RowsOfJobs`, `OwnRows`), what is on a BMC to the
stage of the collection that put it there (`RemoteHeld`), and files about to be deleted to deleted rows (`DoomedDeleted`).

**SystemPlacement.**  `PlacementInv` says that an automatic writer that has decided to write has read the row as it
is now, or is marked as overtaken (`DecidedBefore`).

**BulkExport.**  `BulkInv` says that every chunk file holds rows of its own window, among them all that were there at the
start (`ChunksOK`), that no chunk is missing when they are joined, and that the file about to be renamed is the
join.  What the join holds (`JoinedExact`) is again an induction over data: the windows follow one another and leave no time of the
range out (`WindowsTile`, where the number of windows is a quotient rounded up), a finite set of times has one increasing
sequence (`SortedExists`), increasing files each before the next make an increasing file
(`FlattenIncreasing`), and only the first keeps its header (`FlattenFront`).  A file that is increasing has no row twice.

Only model-checked: liveness, which TLAPS does not prove.  Every safety invariant and action property of the runs has
a theorem.

## Not modelled

Byte- and string-level code (CPER decoders, archive unpacking, metric extraction, hostname and
Location parsing, event payloads), HTTP and SSH I/O (`redfish/ssh_transport.py` has no caller), the UI, its
read-only routes and authentication, configuration loading, dashboards, the heatmap cache (a
per-process maximum), the Prometheus gauges, `test_bmc_alerts.py`, `gyanam.sh` and the commands of
`export_influxdb_data.py` other than the export; the export's relative ranges, aggregation and
confirmation prompt (a confirmed export is one with a larger `LargeThreshold`).

Manual polls' inline commits and the writer's commits are in the model, but the code promises no
order between them, and none is checked.  The threads of a cancelled extraction are not followed:
`extract_pool.shutdown(wait=True)`, after the exporter is closed, waits for them.  AlertIngest starts
where an event has passed the allow-lists.  `mark_eligible_cper_pending` and `set_cper_result` have no caller.
The composition of ShardLeases with the subscriptions is reduced to its effect, two collectors
that receive the same alert.

## Plan

A composition of ShardLeases with the poller's view of its slice.
