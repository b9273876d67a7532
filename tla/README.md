# TLA+ models of VarveDB

VarveDB is InfluxDB 3 Core with clustering added: any number of nodes share one
object store and nothing else. This directory models the protocols that keep
those nodes, and the data they acknowledge, consistent; checks them with TLC on
small instances; and proves their safety properties with TLAPS for every size of the
instance: the file index log and its publisher, the catalog, the write path of a node, the
compaction hand-off and the read of a peer's rows.

Paths below are relative to `src/`. `PROJECT.json` maps every definition to the
lines it models.

## 1. The system

| Part | State | Operations | Talks to |
|---|---|---|---|
| Write-ahead log (`influxdb3_wal`) | write buffer, next file number, snapshot tracker, one snapshot permit, file remover; WAL files in the store | `write_ops`, `flush_buffer` (background and forced), `replay`, `cleanup_snapshot`, `reserve_snapshot_sequence_number`, `shutdown` | queryable buffer, object store |
| Queryable buffer (`influxdb3_write/.../queryable_buffer.rs`, `table_buffer.rs`) | open chunks, snapshotting chunks, persisted files | buffer contents, freeze chunks, persist jobs, manifest | WAL, persister, publisher (watch channel) |
| Write buffer (`.../write_buffer/mod.rs`) | composition of the two | start-up, `write_lp`, memory check | catalog, WAL |
| Persister (`persister.rs`), checkpoints | manifests, monthly checkpoints in the store | persist, list, load, checkpoint | object store |
| File index (`influxdb3_cluster/src/file_index.rs`) | per node: files, watermarks, time bounds, position | `apply`, `merge_from`, `reset_from`, `restore`, `to_snapshot` | log, queries |
| File index log (`file_index/log.rs`) | log objects, one rollup snapshot | `load`, `sync`, `append` (compare-and-swap), `write_snapshot`, `prune_logs_through` | object store, file index |
| Publisher (`file_index/publisher.rs`) | none of its own: the watermark is in the index | `publish_pending` on start, watch and tick | persister, log |
| Compactor (`compactor.rs`) | pending deletions, in memory and in the store | `compact_once`, `notify_owner`, `InputDeleter` | file index, owner's RPC, object store |
| Peer RPC (`rpc/`) | channels, counters | `do_get` (buffered rows), `do_action` (compaction notice), coverage | write buffer, persister |
| Catalog (`influxdb3_catalog`) | log of batches and a checkpoint in the store, a copy per node | update by compare-and-swap, catch up, checkpoint | every part |
| Retention, hard deletion, table indices | files to remove | background loops | persisted files, object store |
| Caches, processing engine, servers, query executor | derived or request-local | | |

What is hard in it:

* one step per object-store request, any number of tasks between two of them; two
  tasks of a node share one index;
* creates whose answer is lost, deletes that fail, listings that see part of a
  prune;
* crashes between a WAL file, its snapshot's Parquet files, its manifest and the
  removal of the WAL file;
* numbers (log sequences, WAL files, snapshot manifests) that two parties take
  from one sequence, one of them a compaction that may overtake a snapshot;
* a lock held across a wait for a permit;
* a query put together from three reads at three moments, on two nodes, while the rows
  move from buffer to file to merged file;
* a deletion that follows from an acknowledgement, with crashes of either side and
  answers lost in between.

`PROJECT.json` lists these as hazards, each at its line with the properties that
would show it going wrong.

## 2. The modules

| Module | Models | Checked by |
|---|---|---|
| `FileIndex` | the index as pure operators | with `FileIndexLog` |
| `FileIndexLog` | log, rollup, prune, sync and append tasks, faults, restarts | TLC; proved until the first rollup |
| `Publisher` | composition: manifests drained into the log | TLC; proved until the first rollup |
| `SnapshotTracker`, `WriteBuffer` | WAL, buffer, snapshots, replay, crashes, compaction manifests | TLC; proved |
| `MergePlan` | `select_merges` | TLC, against a declarative definition |
| `Manifests` | what a node's manifests mean to the code that reads them | with the two below |
| `Handoff` | merge, notice, swap and manifest on the owner, acknowledgement, grace period, `InputDeleter`, across restarts | TLC; proved |
| `PeerRead` | a query over a peer's rows, while the peer snapshots, compacts and publishes | TLC; proved |
| `CatalogState` | databases, their ids and names, records and their application | with `CatalogLog` |
| `CatalogLog` | the catalog's compare-and-swap log, its checkpoints, permits, transactions, catch-ups | TLC; proved |
| `OneCatalog` | what the catalog promises | implemented by `CatalogLog`, checked and proved |

The `MC` modules instantiate them for TLC. The proofs are in `FileIndexProofs` (log and
publisher), `CatalogProofs`, `HandoffProofs`, `PeerReadProofs` and, for the write path,
`WriteBufferFlush`, `WriteBufferReplay` and `WriteBufferProofs`, whose invariants
`WriteBufferInv` defines. `NumberLemmas` has the facts about maxima and intervals they share.

## 3. Modules and the code

**`FileIndex`** is `Inner` of `file_index.rs`: an index is a record of a position
(`sequence`), the files it holds, a watermark and a time bound per node. `Apply`,
`Restore` and the others are one operator per acquisition of the lock.

**`FileIndexLog`** gives every node a task `<<n, "sync">>` (`spawn_file_index_sync`)
and every publisher a task `<<n, "append">>` (`run_publisher`). The two share
`index[n]`. A step is one request to the store or one acquisition of the lock; `pc`
says where a task is, `caller` for whom it syncs, `held` what it listed and has yet
to apply. The actions follow the code in order: `SyncList`, `SyncFetch` with the gap
check, `SyncApply`; `AppendSlot`, `Create` with its conflict and its retries; the
rollup with its read, its PUT and one delete per step. `Faults` lets requests fail
(a failed PUT may have landed), deletes fail, or listings come back unordered.
`created` is a history variable: every log object ever created.

**`Publisher`** extends it: `persisted` is the set of manifests a node has written,
`PublishRead` and `PublishPending` are the two halves of `publish_pending` around its
awaits, and `Drain` is `deltas_from_snapshot` over a batch of manifests.

**`SnapshotTracker`** is `snapshot_tracker.rs` as operators on a tracker record, and
the rounding that files a row under its chunk.

**`WriteBuffer`** is the write path of one node. The objects (`walFiles`, `parquet`,
`manifests`) survive a `Crash`; every other variable does not. `FlushTake` is the
critical section of `flush_buffer`, which keeps its lock while it waits for the
permit (`FlushPermit`); `FlushPut` and `FlushNotify` follow without the lock;
`FlushAbandon` is the end of the retries, after which `FlushGiveUp` waits for the lock again,
with the permit if the flush has one. `NotifyAndSnapshot` freezes chunks,
`PersistChunk` is one persist job, `PersistManifest` the manifest, and `CleanupStart`,
`CleanupDelete`, `CleanupEnd` the removal of WAL files, one request per step.
`StartUp` and `Replay` are `WriteBufferImpl::new` and `WalObjectStore::replay`, and may
crash at every step themselves. `CompactReserve`, `CompactStamp` and `CompactPersist`
are what `apply_compaction_locally` does to the same number sequence. A PUT that finds
its WAL file already there shuts the node down; `FreshNumber` shows that a node does not
do this to itself, so the model has no such step.

A row is a model value with a time. A Parquet file is its path, the chunk time and the
last WAL number of its snapshot as in the code, with the rows last written there.

**`MergePlan`** is `select_merges`: the cold, small files in chunk order, packed greedily
under the two limits. A merged file is named by its inputs, as its path is a hash of theirs.

**`Handoff`** has a compactor and the node whose files it merges. `objects`, `manifests` and
`queue` (the saved deletions) are in the store; the owner's `memory` and its running
`handlers` die with it, as the compactor's `plan`, `pending` and `due` do. `Merge` is
`compact_group` up to the notice; `HandlerSwap`, `HandlerReserve` and
`HandlerPersist` are `apply_compaction_locally` between its awaits, and `Answer` is how the
result gets back; `Unheard` and `NotifyFails` are answers that do not. `Schedule`, `Save`,
`Reclaim` and `Delete` are the `InputDeleter`, whose grace period is counted in passes. The
compactor plans from an index that lags behind (`Publish`, `SyncIndex`). A compactor that
crashes, or whose call times out, leaves the call running on the owner, until the server drops
it (`HandlerDropped`); so a notice may come again while the first one is being handled. The
manifest's PUT may fail, landed or not (`PersistFails`). `Faults` names the requests that may fail.

`Next` has all of it, and `Spec` loses rows: nothing in the code keeps it from either of two
timings. `TimelySpec` is `Spec` without them, and is what the run checks and the theorems are about:

* `Unrecorded`: a notice is handled whose inputs were swapped out before, while the manifest that
  should say so is still under way or has failed. It changes nothing, so it is acknowledged at the
  early return of `apply_compaction_locally` (`v_redelivered`);
* `Overtakes`: the publisher polls while a manifest is stored above a number that a compaction has
  reserved and not stored yet. It never goes back for it, so the index keeps the inputs
  (`VOvertaken.cfg`).

Other redeliveries, overlapping handlers and manifests stored out of the order of their numbers
are in `TimelySpec`.

**`PeerRead`** follows rows of one table from the peer's open chunks (`Write`) through
`Freeze`, `JobWrite` (the file has its id), `JobHandOver` (chunk and file change places under
the lock) and `PersistManifest` to the reader's index (`Publish`, `Sync`), with a compaction
in four steps beside them. A query reads three times: `QueryTicket` the highest id its index
knows, `QueryPlan` the files of the index, `QueryFetch`, when the plan is executed, the
peer's buffer and files above that id. `QueryStart` decides by `PersistedMaxTime` whether the
peer is asked at all. `missing` is what the query still has no source for. Here too `TimelySpec`
leaves one timing out of `Spec` (`Overtakes`): a poll of the publisher that finds a compaction's
manifest stored and that of a snapshot numbered below it not yet. The manifests may be stored in
that order; they are not published in it.

**`CatalogState`** is one repository of the catalog, that of the databases, with create, soft
delete and restore; it stands for the others, which share its code. **`CatalogLog`** has a step
per store request. `task[n]` is what holds the write permit of node `n`, or how far its start
is; `permit[n]` is the number under it, `inner[n]` the catalog in memory, `slot[n]` the
checkpoint that holds the checkpoint slot, `txn[n]` a transaction opened outside the permit.
`Update` and `PutLog` are the loop of `update_committed`, `CatchUp` what a refused PUT leads
to, `Follow` the background update, `MaybeCheckpoint` and `ForceCheckpoint` the two ways to a
checkpoint. `versions` is a history variable: the log's catalog at each number.
**`OneCatalog`** is the promise: one catalog, each write prepared against its latest version,
each node moving only forward through its versions.

## 4. Runs

| Run | Instance | Shows |
|---|---|---|
| `log_solo` | a publisher, a reader; failing requests; one restart; no rollup; fair | types; a time bound is never below a visible file; no index skips an entry; the reader is exact; no manifest is published twice; once the failures end every manifest is drained, files arrive everywhere and removed files leave every reader, for good |
| `log_pair` | two publishers, two tasks each | one entry per sequence, nobody skips one |
| `log_rollup` | one publisher that stays up, a rollup every second entry, a reader that restarts | rollup, prune, gap detection and reset lose nothing |
| `wal_durable` | the background flusher alone, no compaction, no PUT given up; four rows over three chunks, two crashes | acknowledged rows are recoverable at every instant and queryable whenever the node is up; no WAL number is used twice; no manifest is replaced |
| `wal_live` | both flushers, a compaction, abandoned PUTs, a crash, fair | every write is answered, unless a flush that gives up holds the permit another one awaits (`Wedged`); every start gets through its replay |
| `handoff` | three files of one unit or two, a crash of each side, lost answers, dropped calls, failing manifest PUTs, merges, saves, deletes and loads; `TimelySpec`, fair | what is to be deleted is out of the owner's manifests; a restart always finds every row; the running owner always serves every row; a plan is a greedy packing; what the saved queue names is deleted in the end |
| `peer_read` | three rows in two chunks, late ones included, a compaction, queries with and without a bound; `TimelySpec`, fair | a query that asks the peer misses nothing, one that skips it misses late rows alone; what a snapshot took reaches the reader's index |
| `catalog` | two nodes, three calls, one crash or failed request; fair | every copy of the catalog is exact; ids and names are unique; the nodes implement `OneCatalog`; every node catches up |
| `v_total_order` | two publishers with rollups | a pruned slot is created a second time |
| `v_flush_race` | both flushers, no crash | a forced snapshot overtakes the PUT of an earlier file, whose acknowledged row no restart would replay |
| `v_redelivered` | `Handoff` with every timing, no crash | the notice, delivered again before the manifest of the first is stored or after its PUT has failed, is acknowledged without a manifest, and the inputs are deleted |
| `v_catch_up` | two nodes, a catch-up that fails half-way | the records it had applied are applied again and the sequence number falls |

The `v_` runs are disagreements between the code and its own comments, quoted in
`PROJECT.json` under findings. More were met that have no run in `PROJECT.json`. Eight have
a configuration here, to be run with the module named:

* `VStuckReader.cfg` (`MCPublisher`, `FilesArrive`): a reader behind a fully pruned log
  never catches up, because it lists no entry at which it could see a gap;
* `VOvertake.cfg` (`MCPublisher`, `Drained`): a compaction manifest published ahead of the
  snapshot numbered before it leaves that snapshot's manifest unpublished for good;
* `VReserved.cfg` (`MCWriteBuffer`, `Durable`): after such a compaction and a crash the
  replay takes the unfinished snapshot for done and deletes its WAL files;
* `VGiveUp.cfg` (`MCWriteBuffer`, `Durable`): after an abandoned PUT and a crash the replay
  repeats a snapshot without counting it, and the next one replaces its manifest;
* `VBeforeEpoch.cfg` (`MCWriteBuffer`, `Durable`): a time before 1970 is rounded up by the
  remainder (`influxdb3_wal/src/lib.rs:215`), so a marker can equal the chunk it should lie
  above, and a WAL file is given up whose rows stay in memory;
* `VWedged.cfg` (`MCWriteBuffer`, `AlwaysAnswered`): a flush that gives up its PUT answers its
  writers and awaits the flush lock (`object_store.rs:402`) with its snapshot's permit in hand,
  while the other flusher holds that lock and awaits the permit (`:773`). Neither goes on, and the
  writers of the next buffer are never answered, nor does anyone get in after them;
* `VPeerOvertaken.cfg` (`MCPeerRead`, `Complete`): the reader of a compaction manifest that
  overtook a snapshot's knows a higher id than the snapshot's file and does not ask for it;
* `VOvertaken.cfg` (`MCOvertaken`, `OnlyRetired`): twice the publisher overtakes a compaction,
  whose inputs stay in the compactor's index. Merges of them and of their neighbours then lead to
  a file of the owner's manifests that is to be deleted. It takes seven files, more than a full
  search reaches, so `MCOvertaken` walks through one behaviour of `Handoff`, step by step.

Two more take a changed constant: a failed delete below deleted ones leaves a hole the gap check
does not see, and more waiting manifests than one pass loads leave the oldest unpublished. The
hazards say how to reproduce each.

A comment is also wider than the code: `influxdb3_cluster/src/lib.rs:135` says of a peer's
buffer that nothing in it predates the peer's highest persisted timestamp. Rows may arrive
late, so it can; `Complete` states what does hold of a query that skips the peer.

`wal_durable` holds under four restrictions, and each is there because `Durable` fails
without it: a second flusher beside the first (`v_flush_race`), compactions (`VReserved.cfg`),
abandoned PUTs (`VGiveUp.cfg`) and times before 1970 (`VBeforeEpoch.cfg`) are left out. They
are also the hypothesis of the proofs (`DurableWhen` in `WriteBufferInv`). `ManifestsKept` fails with abandoned PUTs and
one crash too, and with two compactions, two crashes and `MaxWal = 5`. `Queryable` and
`FreshNumber` were also checked with abandoned PUTs and one crash, and hold there. In the same
way `handoff` and `peer_read` check `TimelySpec`, and `log_solo` sees manifests in the order of
their numbers.

**Bounds.** Three manifests (two snapshots and the compaction of both) and two nodes are
the least in which an addition, its removal, a restart and a racing append all meet; two
publishers with one and two manifests make them race for three slots. Four rows over
three chunks with a snapshot size of 1 give snapshots in order, snapshots of everything
(three periods), late rows and chunks with two rows; four WAL files and two crashes let a
crash hit a snapshot and then its repetition. `Keep = 0` is the strictest setting: all
files that may be removed are. Three files of one unit or two, with a target of three units and two
inputs per group, give `handoff` groups that either limit closes, a file left over and merges of
merged files; three rows in two
chunks give `peer_read` two jobs in one snapshot, late rows and a row that arrives during a
compaction; three catalog calls are the least in which a create, its drop and a racing restore
or transaction meet. Larger instances were run once and pass: `handoff`,
for safety, with two crashes of each side (487,145 states) and with four files of one unit, a target
of four, a crash of each side, dropped calls and failing manifest PUTs (739,235); `peer_read` with
three timestamps (1,228,933). `MaxWal` bounds the writes begun, `MaxCrashes`,
`MaxRestarts`, `MaxCompactions` what their names say. No symmetry is used: nodes, rows
and files differ in role or time. Deadlock is not checked in the runs of `WriteBuffer`,
whose bounded clients run out of work, where `Answered` and `ComesUp` take its place, and in
those of `CatalogLog`, where `CaughtUp` does.

**Fairness.** Weak fairness of every step of a spawned task: tokio schedules a ready
task, the intervals of the sync loop, the publisher and the flush loop keep ticking, and
a crashed node is started again. Of the publisher in `handoff` and `peer_read` it is assumed of the
polls that overtake nothing; a call of the compactor times out, so fairness of its loop is enough
for a notice whose handler may not run. None is assumed of a client's write, of a crash, of an
abandoned PUT, of a persisted manifest, of a lost answer, of a query, or of the beginning of
a forced flush, which needs memory pressure. In `log_solo` requests may fail, and the liveness
properties assume that from some point on they do not: a store that never answers again
publishes nothing. The catalog's faults are bounded by `MaxFaults`.

## 5. Proofs

A theorem holds for every value of the constants that the named assumptions of its modules
allow, under the hypotheses it states. TLC has checked every inductive invariant below on the
instances of section 4 before it was proved.

### The file index log and the publisher

`FileIndexProofs`, for any nodes, publishers, deltas, attempts, restarts and faults. The
assumptions say what the constants are, that a delta's files belong to its node and lie within
its time bound, and that draining manifests yields such a delta.

| Theorem | Says |
|---|---|
| `TypeCorrect` | `[]TypeOK` |
| `TimesCovered` | `[]TimesCoverFiles`, with rollups, resets and every fault |
| `NothingSkipped` | `[]ReplayComplete`: until the first rollup no index misses anything at or below its position |
| `ReplayIsExact` | `[]ReplayExact`: until then a reader's index is exactly the log's meaning at its position |
| `AppendsTotallyOrdered` | `[]CreatedOnce`: until then every append has a sequence of its own |
| `PublisherImplementsLog` | `PubSpec => Spec`: the composition takes only steps of the log, so all of the above holds of it |
| `ManifestsPublishedOnce` | `[]PublishedOnce`: until the first rollup a publisher's entries carry its manifests once and in order |

The first lemmas say what the index operators do to the declarative meaning of a
set of entries (`Upto`, `Present`, `Watermarks`, `Times`): applying the next entry keeps
an index complete and exact, merging two complete indexes gives a complete one.

`ReplayComplete` is not inductive: what `sync` is about to apply lies in `held`, what
`append` is about to create in `slot`, what `load` has built in `view`. `ReplayInv` adds them:

* `LogInv`: nothing is deleted, sequences are unique and contiguous;
* `IndexInv`, `LoadInv`: every shared or private index stands at 0 or at an existing
  entry, and is complete (exact, where only one task moves it);
* `HeldInv`: what a task has fetched has no hole above the position it will be applied
  to, although the other task of the node may have moved that position in between;
* `NoGapInv`: no task is recovering from a gap or pruning;
* `SlotInv`: the slot an append tries is at most one above its node's position, so a
  create that succeeds extends the log by one, and a create found to be the task's own
  is in the log.

A step touches this in one of three ways, each a lemma: not at all (`QuietStep`), by
raising an index (`RaiseStep`), by creating an entry (`GrowStep`). One lemma per group of
actions reduces it to one of the three.

`PublishedOnce` needs more, because the watermark a publisher drains from was read before its
awaits. `OwnInv`: only a publisher's own task appends for it, and it holds a watermark only
between its sync and its drain. `DrainInv`: from the end of that sync to the PUT the node's
index has every entry the publisher ever created, a PUT that failed and landed included, so
watermark and delta lie above all of them.

### The catalog

`CatalogProofs`, for any nodes, names, numbers of calls and of faults, and all the faults of
`Next` (crashes, lost answers, failing checkpoints and follower reads; not a catch-up that fails
half-way, which `v_catch_up` shows to break it), from `CatalogAssumption`:

| Theorem | Says |
|---|---|
| `CatalogInvariant` | `[]Inv`, the inductive invariant below |
| `CatalogTypeOK` | `[]TypeOK` |
| `CopiesAlwaysExact` | `[]CopiesExact`: every copy, in memory, in the snapshot file or on its way there, is the log's catalog at its number |
| `IdsAssignedOnce` | `[]IdsOnce`: no version has two databases with one id, or two in use with one name |
| `ImplementsOneCatalog` | `CatalogLog` implements `OneCatalog` |

`CopiesExact` is not inductive: a copy is exact after a step only if the record applied
was the log's next one and had been prepared against that very version. `Inv` adds:

* `LogInv`: the log has no hole, each version follows from the one before by its record,
  and each is well formed;
* `TaskInv`: except within a catch-up the permit is the copy's number, a record on its way
  was prepared against the copy, and a start will not end below what the node has seen;
* `TxnInv`: a transaction's records were prepared against versions between the one it began
  at and the node's own, so a commit that finds its number unchanged finds them current;
* `SlotInv`: a checkpoint on its way is exact;
* `BlankInv`: before there is a snapshot no node is up, so the loser of the race to
  initialise has nothing of its own to lose.

`TypeOK` also needs `CountInv`, the counters' ranges. Each action has a lemma. It concerns the
node that acts; the other nodes' parts follow from `Frame`: what was prepared against an old
version stays so as the log grows. The refinement maps a landing record to `Write`, every other
change of a copy to `CatchUp`, and the rest to stuttering.

### The write path

For any rows, chunk duration, snapshot size, number of kept files, number of writes and of
crashes:

| Theorem | Says | Under |
|---|---|---|
| `WriteBufferTypeOK` | `[]TypeOK` | nothing: both flushers, compactions and every fault included |
| `WalNumbersFresh` | `[]FreshNumber`: no flush PUTs a WAL file under a number that is taken, after any number of restarts | nothing |
| `AckedRowsDurable` | `[]Durable`: at every instant an acknowledged row is in a file of a manifest or in a WAL file the next start replays | `DurableWhen` |
| `AckedRowsQueryable` | `[]Queryable`: a running node serves it | `DurableWhen` |
| `SnapshotManifestsKept` | `ManifestsKept`: no step replaces a manifest by a different one | `DurableWhen` |

`DurableWhen` is one flusher, no compaction, no abandoned PUT and no time before 1970. None of
the four can be dropped: section 4 names the configuration in which `Durable` fails without it.
The assumptions are `Gen1Assumption` and `SnapshotSizeAssumption` (both positive),
`FlushersAssumption`, `KeepAssumption` and `TimesAssumption`.

`NumberInv` is what `FreshNumber` needs: the numbers in the store are below the next one, or
replay has them still to load. `Durable` speaks of the store at a crash, so what makes it
inductive must say that a replay, from whichever manifest is the newest at that crash,
decides what the flushes before it decided. `DurableInv` has:

* `FileInv`: the WAL files after the newest manifest's are all there, with none left out;
* `ManifestInv`, `SeqInv`: manifests have numbers of their own, and at most one snapshot is
  recorded by a WAL file and covered by no manifest; it has the next number, and is being
  persisted, about to be, or yet to be replayed;
* `TrackInv`: the tracker has one period for each file it has not given up. A recorded
  snapshot is what the tracker would take if it started after the newest manifest (`Made`),
  and at a file whose snapshot is through it would take nothing (`Settled`). This is the core
  of the argument: the replay's tracker starts with fewer periods than the one that decided;
* `TaskInv`: the snapshot task persists that snapshot and holds the permit; what it cleans up
  lies below the newest manifest;
* `DataInv`: the rows of a WAL file that is not covered are in the buffer, in a frozen chunk,
  in a file of the running snapshot or in one of a manifest; the rows the running snapshot
  covers are not in the buffer alone;
* `CalmInv`: only a running node flushes and buffers; with `DoomInv`, only a clean-up removes.

`WriteBufferFlush` proves what a flush decides (`Decided`) and that its steps keep the
invariant, `WriteBufferReplay` the same of a replay (`Replayed`), of the snapshot task and of
crashes, and `WriteBufferProofs` has types, numbers and the theorems.

### The compaction hand-off

`HandoffProofs`, for any times, file sizes, merge limits, grace period, faults and number of crashes.
The first three are about `TimelySpec`, without the two timings `Unrecorded` and `Overtakes` of
section 3, with which they fail; redelivered notices, overlapping handlers, dropped calls, failed
PUTs, lost answers and crashes are in it.

| Theorem | Says | Of |
|---|---|---|
| `HandoffOnlyRetired` | `[]OnlyRetired`: what is to be deleted is no file of the owner's manifests | `TimelySpec` |
| `HandoffRecoverable` | `[]Recoverable`: a restart of the owner finds every row, in objects that exist | `TimelySpec` |
| `HandoffServed` | `[]Served`: so does a query of the running owner, between swap and manifest too | `TimelySpec` |
| `HandoffTypeOK` | `[]TypeOK` | `Spec`, every behaviour |

`TypeInv` (`NumberInv`, `ControlInv`, and every path anybody knows is one) is inductive by itself.
The rest is harder: the compactor plans from an index that lags behind, so its group may have been
merged and retired, or be in the hands of an earlier handler, by the time the owner sees the
notice. `Inv` says why that does no harm:

* `OrderInv`: the index has every manifest up to its position, and no handler has a number below it;
* `OnceInv`: a file is added by one manifest and removed only by later ones, so the view of any
  prefix of the manifests is what they added without what they removed. This is what lets manifests
  be stored in any order;
* `RetiredInv`: a manifest that adds a merged file removes its inputs, unless one below it has;
* `HandlerInv`: each running handler has swapped its group for a merge no manifest has added yet, and
  its number is above those of the manifests that added or removed the group's files; two handlers
  have nothing in common;
* `PlanInv`: the groups of a pass come from one view no newer than the index's, and every file
  ever removed, or swapped out, was added in or before that view, so a group is either untouched or
  its output is no news; after the acknowledgement the group is removed;
* `OwedInv`: what is pending, queued or due is removed; `StoreInv`: `Recoverable`, `Served`, and
  the owner's memory has nothing that is removed.

`PackedFrom` and `SelectsFrom` show of `select_merges`' fold that its groups are nonempty sets of
files of the index.

### The read of a peer's rows

`PeerReadProofs`, for any rows in any order, chunk duration, number of compactions and position
of the reader, of `TimelySpec`: the publisher does not poll while a compaction's manifest is stored
and that of a snapshot numbered below it is not (with such a poll `Complete` fails,
`VPeerOvertaken.cfg`):

| Theorem | Says |
|---|---|
| `PeerReadComplete` | `[]Complete`: a query that asks the peer misses nothing the peer had when it was planned; one that skips it misses late rows alone |
| `PeerReadTypeOK` | `[]TypeOK` |

A query reads three times while the rows move. `QueryInv` says after each read what it can
still be missing. It rests on `OrderInv`: a file with an id at or below that of a published one
is covered by manifests up to that one, which is why "above the highest id I know" asks for all
the rest; a stored manifest that has overtaken the snapshot under way is the exception, until the
snapshot has its own. That needs `SnapInv` and `CompInv` (one snapshot and one compaction at a time, and what
lies below their numbers), `StoredInv`, `BufferInv` and `FileInv` (every row is in an open
chunk, a frozen one or a file; ids are unique) and `ManifestInv` (a compaction puts back the rows
of what it removes). `LateInv` is for the query that skips: a row that was not late was taken no
later than any row as new as it.

### Only model-checked

* Every liveness property: fairness and `ENABLED` are out of the prover's reach.
* `RollupComplete`, which holds only for one publisher that stays up and for ordered deletes:
  its argument needs, beside `ReplayInv`, an account of which entries each prune may have
  removed while a reader is loading; it has not been written.
* `SequenceMonotone`, which fails, as do the properties of the other `v_` runs.
* What a fold returns for every input. `PlanSound` compares `select_merges` with a
  declarative definition; the proofs above use only the part of it that they need. Induction
  over the naturals is available as a fact about sets (`SetInduction`), which is how that
  part is proved.

## 6. Not modelled

* Compaction: which peer and table a pass takes (`select_targets`, `is_compactable`), several
  compactors, the merge of the rows itself, the reader that plans a file after its grace
  period is over.
* Peer reads: a peer that is down (the query fails), several peers and tables, the coverage
  check, which counts and warns and changes no answer.
* Catalog: the other repositories, limits, hard deletion, feature levels, the backup view, the
  migration from version 2, the collection of old logs, the broadcast to subscribers.
* Write path: monthly checkpoints (`WriteBuffer` starts from the manifests themselves, the
  code's path when there is no checkpoint), table indices, retention and hard deletion, WAL
  and Parquet encoding, corrupt WAL files, unconfirmed writes, dropped tables, chunk splits.
* Line-protocol parsing, caches, the processing engine and its placement, servers, query
  planning and vendored libraries: data structures or plumbing without state shared between
  nodes.

The object store is strongly consistent; a create that reports an error may have taken effect.
