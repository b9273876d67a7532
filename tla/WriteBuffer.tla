----------------------------- MODULE WriteBuffer -----------------------------
(***************************************************************************)
(* The write path of one ingesting node: the WAL (influxdb3_wal), the      *)
(* queryable buffer and its snapshots (influxdb3_write), start-up replay,  *)
(* and the manifests a compaction writes between the WAL's own.            *)
(*                                                                         *)
(* A step is one object-store request or one critical section of the flush *)
(* buffer's or the queryable buffer's lock.  A crash loses every variable  *)
(* but the objects and the history.  One table: a row is filed under its   *)
(* chunk time.                                                             *)
(***************************************************************************)
EXTENDS SnapshotTracker

CONSTANTS Rows,            \* what clients may write
          TimeOf,          \* [Rows -> Int]
          Flushers,        \* "background" and, where memory is short, "forced"
          NoopTime,        \* the time a forced flush of an empty buffer records
          Keep,            \* snapshotted_wal_files_to_keep
          MaxWal,          \* bound: the last WAL file begun
          MaxCrashes,      \* bound
          MaxCompactions,  \* bound: compactions recorded on this node
          Faults           \* "put": a WAL file's PUT may be given up

ASSUME FlushersAssumption == Flushers \subseteq {"background", "forced"}
ASSUME KeepAssumption == Keep \in Nat
ASSUME TimesAssumption == TimeOf \in [Rows -> Int] /\ NoopTime \in Nat

VARIABLES
  walFiles,      \* object store: the WAL files
  parquet,       \* object store: the Parquet files, [path, rows]
  manifests,     \* object store: the snapshot manifests, [seq, wal, paths]
  status,        \* "down", "replay" or "up"
  todo,          \* the WAL files replay has still to load
  highWater,     \* last_snapshot_sequence_number before the replay
  pending,       \* WalBuffer: rows buffered, their writers waiting
  walNumber,     \* WalBuffer: the number of the next WAL file
  tracker,
  permit,        \* snapshot_semaphore has its permit
  oldest, last,  \* WalFileRemover, 0 is None
  pc, inflight,  \* [Flushers -> ...]: where a flush is, and its WalContents
  buffer,        \* QueryableBuffer: rows in chunks still open
  snapshotting,  \* QueryableBuffer: rows in snapshotting_chunks
  files,         \* PersistedFiles, as paths
  task,          \* the snapshot being taken and cleaned up after
  compaction,    \* the compaction being recorded
  crashes, compactions,
  acked          \* history: rows whose write returned Ok

objects == <<walFiles, parquet, manifests>>
wal == <<pending, walNumber, tracker, permit>>
remover == <<oldest, last>>
flush == <<pc, inflight>>
queryable == <<buffer, snapshotting, files>>
start == <<status, todo, highWater>>
record == <<compaction, compactions>>
vars == <<walFiles, parquet, manifests, status, todo, highWater, pending, walNumber,
          tracker, permit, oldest, last, pc, inflight, buffer, snapshotting, files,
          task, compaction, crashes, compactions, acked>>

RowChunk(r) == ChunkTime(TimeOf[r])
ChunksOf(S) == {RowChunk(r) : r \in S}
RowsAt(P) == UNION {f.rows : f \in {g \in parquet : g.path \in P}}
FileNumbers == {f.num : f \in walFiles}

NoFile == [num |-> 0, rows |-> {}, max |-> 0, snap |-> {}]
NoTask == [phase |-> "none", details |-> {}, jobs |-> {}, paths |-> {},
           cleanup |-> {}, doomed |-> {}]
NoCompaction == [phase |-> "none", seq |-> 0, wal |-> 0]

\* Put an object under its name, whatever was there.
PutParquet(path, rows) ==
  {f \in parquet : f.path # path} \cup {[path |-> path, rows |-> rows]}
PutManifest(m) == {n \in manifests : n.seq # m.seq} \cup {m}

(* What a start takes from the manifests: the newest one's numbers.        *)
LastSnapshot == IF manifests = {} THEN 0 ELSE Highest({m.seq : m \in manifests})
LastWal == LET newest == {m \in manifests : m.seq = LastSnapshot}
           IN IF newest = {} THEN 0 ELSE (CHOOSE m \in newest : TRUE).wal

Init ==
  /\ walFiles = {} /\ parquet = {} /\ manifests = {}
  /\ status = "up" /\ todo = {} /\ highWater = 0
  /\ pending = {} /\ walNumber = 1 /\ tracker = NewTracker(0) /\ permit = TRUE
  /\ oldest = 0 /\ last = 0
  /\ pc = [f \in Flushers |-> "idle"] /\ inflight = [f \in Flushers |-> NoFile]
  /\ buffer = {} /\ snapshotting = {} /\ files = {}
  /\ task = NoTask /\ compaction = NoCompaction
  /\ crashes = 0 /\ compactions = 0
  /\ acked = {}

-----------------------------------------------------------------------------
(* Writes and flushes                                                      *)

FlushLocked == \E f \in Flushers : pc[f] = "permit"

\* write_ops, up to the wait for its response.
Write(r) ==
  /\ status = "up" /\ ~ FlushLocked /\ walNumber <= MaxWal
  /\ r \notin acked \cup pending \cup UNION {inflight[f].rows : f \in Flushers}
  /\ pending' = pending \cup {r}
  /\ UNCHANGED <<objects, start, walNumber, tracker, permit, remover, flush, queryable,
                 task, record, crashes, acked>>

(* flush_buffer under its lock: the buffered rows become a WAL file, the
   tracker decides on a snapshot, and the lock is kept until a snapshot has
   the permit.  A forced flush of an empty buffer writes a no-op.          *)
FlushTake(f) ==
  /\ status = "up" /\ pc[f] = "idle" /\ ~ FlushLocked
  /\ pending # {} \/ (f = "forced" /\ walNumber <= MaxWal)
  /\ LET max == IF pending = {} THEN NoopTime + 1 ELSE Highest({TimeOf[r] : r \in pending})
         s == Snapshot(AddWalPeriod(tracker, walNumber, max), f = "forced")
     IN /\ tracker' = s.tracker
        /\ inflight' = [inflight EXCEPT ![f] =
             [num |-> walNumber, rows |-> pending, max |-> max, snap |-> s.details]]
        /\ pc' = [pc EXCEPT ![f] = IF s.details = {} \/ permit THEN "put" ELSE "permit"]
        /\ permit' = (permit /\ s.details = {})
  /\ pending' = {}
  /\ walNumber' = walNumber + 1
  /\ UNCHANGED <<objects, start, remover, queryable, task, record, crashes, acked>>

\* acquire_snapshot_permit returns.
FlushPermit(f) ==
  /\ status = "up" /\ pc[f] = "permit" /\ permit
  /\ permit' = FALSE
  /\ pc' = [pc EXCEPT ![f] = "put"]
  /\ UNCHANGED <<objects, start, pending, walNumber, tracker, remover, inflight, queryable,
                 task, record, crashes, acked>>

\* The conditional PUT of the WAL file.
FlushPut(f) ==
  /\ status = "up" /\ pc[f] = "put"
  /\ walFiles' = walFiles \cup {inflight[f]}
  /\ pc' = [pc EXCEPT ![f] = "notify"]
  /\ UNCHANGED <<parquet, manifests, start, wal, remover, inflight, queryable, task,
                 record, crashes, acked>>

(* More than 100 attempts failed, though one may have landed: the writers are
   told.  A snapshot's permit is still owned.                              *)
FlushAbandon(f) ==
  /\ status = "up" /\ pc[f] = "put" /\ "put" \in Faults
  /\ walFiles' \in {walFiles, walFiles \cup {inflight[f]}}
  /\ inflight' = [inflight EXCEPT ![f].rows = {}]
  /\ pc' = [pc EXCEPT ![f] = "giveup"]
  /\ UNCHANGED <<parquet, manifests, start, wal, remover, queryable, task, record, crashes,
                 acked>>

(* flush_buffer_with_failure, once the flush lock is free: the writers of the
   next buffer are told too, its number is used up, and the permit goes.   *)
FlushGiveUp(f) ==
  /\ status = "up" /\ pc[f] = "giveup" /\ ~ FlushLocked
  /\ permit' = (permit \/ inflight[f].snap # {})
  /\ pending' = {}
  /\ walNumber' = walNumber + 1
  /\ pc' = [pc EXCEPT ![f] = "idle"]
  /\ inflight' = [inflight EXCEPT ![f] = NoFile]
  /\ UNCHANGED <<objects, start, tracker, remover, queryable, task, record, crashes, acked>>

(* buffer_wal_contents                                                     *)
Notify(rows) ==
  /\ buffer' = buffer \cup rows
  /\ UNCHANGED snapshotting

\* TableBuffer::snapshot: the rows of the chunks older than the marker.
Frozen(S, marker) == {r \in S : RowChunk(r) < marker}

(* buffer_wal_contents_and_persist_snapshotted_data: the rows are buffered,
   then the chunks before the marker replace snapshotting_chunks.          *)
NotifyAndSnapshot(rows, details, cleanup) ==
  LET all == buffer \cup rows
      frozen == Frozen(all, details.marker)
  IN /\ buffer' = all \ frozen
     /\ snapshotting' = frozen
     /\ task' = [NoTask EXCEPT !.phase = "persist", !.details = {details},
                               !.jobs = ChunksOf(frozen), !.cleanup = cleanup]

(* The file is durable: its rows become queryable, its snapshot is started
   and its writers are answered.                                           *)
FlushNotify(f) ==
  /\ status = "up" /\ pc[f] = "notify"
  /\ \/ /\ inflight[f].snap = {}
        /\ Notify(inflight[f].rows)
        /\ UNCHANGED task
     \/ \E d \in inflight[f].snap : NotifyAndSnapshot(inflight[f].rows, d, {d})
  /\ acked' = acked \cup inflight[f].rows
  /\ pc' = [pc EXCEPT ![f] = "idle"]
  /\ inflight' = [inflight EXCEPT ![f] = NoFile]
  /\ UNCHANGED <<objects, start, wal, remover, files, record, crashes>>

-----------------------------------------------------------------------------
(* A snapshot: persist jobs, manifest, removal of the WAL files            *)

Running == status # "down"

\* Mutant of PersistChunk: the first job to finish drops every frozen chunk.
PersistChunkClearsAll(c) ==
  /\ Running /\ task.phase = "persist" /\ c \in task.jobs
  /\ \E d \in task.details :
       LET path == <<c, d.last>>
           rows == {r \in snapshotting : RowChunk(r) = c}
       IN /\ parquet' = PutParquet(path, rows)
          /\ files' = files \cup {path}
          /\ snapshotting' = {}
          /\ task' = [task EXCEPT !.jobs = @ \ {c}, !.paths = @ \cup {path}]
  /\ UNCHANGED <<walFiles, manifests, start, wal, remover, flush, buffer, record, crashes,
                 acked>>

(* One persist job: PUT the chunk's Parquet file, then, under the buffer's
   lock, add it to PersistedFiles and drop the chunk it covers.            *)
PersistChunk(c) ==
  /\ Running /\ task.phase = "persist" /\ c \in task.jobs
  /\ \E d \in task.details :
       LET path == <<c, d.last>>
           rows == {r \in snapshotting : RowChunk(r) = c}
       IN /\ parquet' = PutParquet(path, rows)
          /\ files' = files \cup {path}
          /\ snapshotting' = snapshotting \ rows
          /\ task' = [task EXCEPT !.jobs = @ \ {c}, !.paths = @ \cup {path}]
  /\ UNCHANGED <<walFiles, manifests, start, wal, remover, flush, buffer, record, crashes,
                 acked>>

(* persist_snapshot once every job is done, retried until it succeeds.  A
   replayed snapshot may have nothing to clean up.                         *)
PersistManifest ==
  /\ Running /\ task.phase = "persist" /\ task.jobs = {}
  /\ \E d \in task.details :
       manifests' = PutManifest([seq |-> d.seq, wal |-> d.last, paths |-> task.paths])
  /\ task' = IF task.cleanup = {} THEN NoTask ELSE [task EXCEPT !.phase = "cleanup"]
  /\ UNCHANGED <<walFiles, parquet, start, wal, remover, flush, queryable, record, crashes,
                 acked>>

FirstWal == IF oldest = 0 THEN 1 ELSE oldest

(* remove_snapshot_wal_files: the files up to the snapshot's last, less the
   number to keep, from the oldest on.                                     *)
CleanupStart ==
  /\ Running /\ task.phase = "cleanup"
  /\ \E d \in task.cleanup :
       /\ last' = d.last
       /\ task' = [task EXCEPT !.phase = "delete", !.doomed = FirstWal..(d.last - Keep - 1)]
  /\ UNCHANGED <<objects, start, wal, oldest, flush, queryable, record, crashes, acked>>

\* Mutant of CleanupDelete: a file that is not there is retried like any error.
CleanupDeleteRetries ==
  /\ Running /\ task.phase = "delete" /\ task.doomed # {}
  /\ LET n == Lowest(task.doomed)
     IN /\ n \in FileNumbers
        /\ walFiles' = {f \in walFiles : f.num # n}
        /\ task' = [task EXCEPT !.doomed = @ \ {n}]
  /\ UNCHANGED <<parquet, manifests, start, wal, remover, flush, queryable, record, crashes,
                 acked>>

CleanupDelete ==
  /\ Running /\ task.phase = "delete" /\ task.doomed # {}
  /\ LET n == Lowest(task.doomed)
     IN /\ walFiles' = {f \in walFiles : f.num # n}
        /\ task' = [task EXCEPT !.doomed = @ \ {n}]
  /\ UNCHANGED <<parquet, manifests, start, wal, remover, flush, queryable, record, crashes,
                 acked>>

\* Mutant of CleanupEnd: the permit is not given back.
CleanupEndKeepsPermit ==
  /\ Running /\ task.phase = "delete" /\ task.doomed = {}
  /\ oldest' = IF last - FirstWal > Keep THEN last - Keep ELSE oldest
  /\ task' = NoTask
  /\ UNCHANGED <<objects, start, wal, last, flush, queryable, record, crashes, acked>>

\* The permit goes back last.
CleanupEnd ==
  /\ Running /\ task.phase = "delete" /\ task.doomed = {}
  /\ oldest' = IF last - FirstWal > Keep THEN last - Keep ELSE oldest
  /\ permit' = TRUE
  /\ task' = NoTask
  /\ UNCHANGED <<objects, start, pending, walNumber, tracker, last, flush, queryable, record,
                 crashes, acked>>

-----------------------------------------------------------------------------
(* apply_compaction_locally, as far as the WAL sees it: a number is        *)
(* reserved, the replay watermark is read, the manifest is PUT or not.  It *)
(* merges files of this node and keeps their rows, so paths stay as they   *)
(* are.                                                                    *)

CompactReserve ==
  /\ status = "up" /\ compaction = NoCompaction /\ ~ FlushLocked
  /\ Cardinality(files) >= 2 /\ compactions < MaxCompactions
  /\ compactions' = compactions + 1
  /\ tracker' = ReserveSnapshotSequenceNumber(tracker)
  /\ compaction' = [phase |-> "reserved", seq |-> tracker'.snap, wal |-> 0]
  /\ UNCHANGED <<objects, start, pending, walNumber, permit, remover, flush, queryable,
                 task, crashes, acked>>

CompactStamp ==
  /\ status = "up" /\ compaction.phase = "reserved"
  /\ compaction' = [compaction EXCEPT !.phase = "stamped", !.wal = last]
  /\ UNCHANGED <<objects, start, wal, remover, flush, queryable, task, crashes,
                 compactions, acked>>

CompactPersist ==
  /\ status = "up" /\ compaction.phase = "stamped"
  /\ \/ manifests' = PutManifest([seq |-> compaction.seq, wal |-> compaction.wal, paths |-> {}])
     \/ UNCHANGED manifests
  /\ compaction' = NoCompaction
  /\ UNCHANGED <<walFiles, parquet, start, wal, remover, flush, queryable, task, crashes,
                 compactions, acked>>

-----------------------------------------------------------------------------
(* Crash and start                                                         *)

Crash ==
  /\ Running /\ crashes < MaxCrashes
  /\ crashes' = crashes + 1
  /\ status' = "down" /\ todo' = {} /\ highWater' = 0
  /\ pending' = {} /\ walNumber' = 1 /\ tracker' = NewTracker(0) /\ permit' = TRUE
  /\ oldest' = 0 /\ last' = 0
  /\ pc' = [f \in Flushers |-> "idle"] /\ inflight' = [f \in Flushers |-> NoFile]
  /\ buffer' = {} /\ snapshotting' = {} /\ files' = {}
  /\ task' = NoTask /\ compaction' = NoCompaction
  /\ UNCHANGED <<objects, compactions, acked>>

\* Mutant of StartUp: the snapshot numbers begin again.
StartUpForgetsSnapshots ==
  /\ status = "down"
  /\ status' = "replay"
  /\ todo' = {n \in FileNumbers : n > LastWal}
  /\ highWater' = LastSnapshot
  /\ walNumber' = LastWal + 1
  /\ tracker' = NewTracker(0)
  /\ oldest' = IF walFiles = {} THEN 0 ELSE Lowest(FileNumbers)
  /\ last' = LastWal
  /\ files' = UNION {m.paths : m \in manifests}
  /\ UNCHANGED <<objects, pending, permit, flush, buffer, snapshotting, task, record, crashes,
                 acked>>

\* Mutant of StartUp: the next WAL file takes the number of the last persisted one.
StartUpReusesNumber ==
  /\ status = "down"
  /\ status' = "replay"
  /\ todo' = {n \in FileNumbers : n > LastWal}
  /\ highWater' = LastSnapshot
  /\ walNumber' = LastWal
  /\ tracker' = NewTracker(LastSnapshot)
  /\ oldest' = IF walFiles = {} THEN 0 ELSE Lowest(FileNumbers)
  /\ last' = LastWal
  /\ files' = UNION {m.paths : m \in manifests}
  /\ UNCHANGED <<objects, pending, permit, flush, buffer, snapshotting, task, record, crashes,
                 acked>>

(* WriteBufferImpl::new and WalObjectStore::new_without_replay: everything
   is seeded from the newest manifest and the list of WAL files.           *)
StartUp ==
  /\ status = "down"
  /\ status' = "replay"
  /\ todo' = {n \in FileNumbers : n > LastWal}
  /\ highWater' = LastSnapshot
  /\ walNumber' = LastWal + 1
  /\ tracker' = NewTracker(LastSnapshot)
  /\ oldest' = IF walFiles = {} THEN 0 ELSE Lowest(FileNumbers)
  /\ last' = LastWal
  /\ files' = UNION {m.paths : m \in manifests}
  /\ UNCHANGED <<objects, pending, permit, flush, buffer, snapshotting, task, record, crashes,
                 acked>>

(* One WAL file of replay, in order.  A snapshot it records is repeated
   unless its number is within the high-water mark, and the WAL files the
   tracker gives up are removed in either case.                            *)
Replay(w) ==
  /\ status = "replay" /\ task = NoTask
  /\ w \in walFiles /\ todo # {} /\ w.num = Lowest(todo)
  /\ todo' = todo \ {w.num}
  /\ walNumber' = w.num + 1
  /\ LET added == AddWalPeriod(tracker, w.num, w.max)
     IN \/ /\ w.snap = {}
           /\ Notify(w.rows)
           /\ tracker' = added
           /\ UNCHANGED <<task, permit>>
        \/ \E d \in w.snap :
             LET s == Snapshot(added, d.forced)
             IN /\ permit \/ s.details = {}
                /\ tracker' = s.tracker
                /\ permit' = (permit /\ s.details = {})
                /\ IF d.seq <= highWater
                   THEN /\ Notify(w.rows)
                        /\ task' = IF s.details = {} THEN NoTask
                                   ELSE [NoTask EXCEPT !.phase = "cleanup",
                                                       !.cleanup = s.details]
                   ELSE NotifyAndSnapshot(w.rows, d, s.details)
  /\ UNCHANGED <<objects, status, highWater, pending, remover, flush, files, record, crashes,
                 acked>>

ReplayDone ==
  /\ status = "replay" /\ task = NoTask /\ todo = {}
  /\ status' = "up"
  /\ UNCHANGED <<objects, todo, highWater, wal, remover, flush, queryable, task, record,
                 crashes, acked>>

Flush(f) ==
  \/ FlushTake(f) \/ FlushPermit(f) \/ FlushPut(f) \/ FlushNotify(f)
  \/ FlushAbandon(f) \/ FlushGiveUp(f)
TakeSnapshot == (\E c \in task.jobs : PersistChunk(c)) \/ PersistManifest
Cleanup == CleanupStart \/ CleanupDelete \/ CleanupEnd
Compact == CompactReserve \/ CompactStamp \/ CompactPersist

Next ==
  \/ \E r \in Rows : Write(r)
  \/ \E f \in Flushers : Flush(f)
  \/ TakeSnapshot
  \/ Cleanup
  \/ Compact
  \/ Crash
  \/ StartUp
  \/ \E w \in walFiles : Replay(w)
  \/ ReplayDone

Spec == Init /\ [][Next]_vars

(* tokio schedules every spawned task, the flush interval keeps ticking and
   PUTs are retried until they land or are given up; a crashed node is started again.  Memory need never run
   short, so nothing makes a forced flush begin.                           *)
Fairness ==
  /\ WF_vars(\E f \in Flushers \ {"forced"} : FlushTake(f))
  /\ \A f \in Flushers :
       /\ WF_vars(FlushPermit(f)) /\ WF_vars(FlushPut(f) \/ FlushAbandon(f))
       /\ WF_vars(FlushNotify(f)) /\ WF_vars(FlushGiveUp(f))
  /\ WF_vars(TakeSnapshot) /\ WF_vars(Cleanup)
  /\ WF_vars(StartUp) /\ WF_vars(\E w \in walFiles : Replay(w)) /\ WF_vars(ReplayDone)

FairSpec == Spec /\ Fairness

-----------------------------------------------------------------------------
(* Properties                                                              *)

WalFile == [num: Nat \ {0}, rows: SUBSET Rows, max: Int, snap: SUBSET SnapshotDetails]
Path == Int \X Nat

TypeOK ==
  /\ walFiles \subseteq WalFile
  /\ \A f \in parquet : f.path \in Path /\ f.rows \subseteq Rows
  /\ \A m \in manifests : m.seq \in Nat /\ m.wal \in Nat /\ m.paths \subseteq Path
  /\ status \in {"down", "replay", "up"}
  /\ todo \subseteq Nat /\ highWater \in Nat
  /\ pending \subseteq Rows /\ walNumber \in Nat \ {0}
  /\ tracker.snap \in Nat /\ \A i \in DOMAIN tracker.periods : tracker.periods[i] \in WalPeriod
  /\ permit \in BOOLEAN
  /\ oldest \in Nat /\ last \in Nat
  /\ \A f \in Flushers : pc[f] \in {"idle", "permit", "put", "notify", "giveup"}
  /\ \A f \in Flushers : inflight[f] = NoFile \/ inflight[f] \in WalFile
  /\ buffer \subseteq Rows /\ snapshotting \subseteq Rows /\ files \subseteq Path
  /\ task.phase \in {"none", "persist", "cleanup", "delete"}
  /\ acked \subseteq Rows

\* The rows a start would have: those of the manifests' files, and those of
\* the WAL files it would replay.
Recoverable ==
  RowsAt(UNION {m.paths : m \in manifests})
    \cup UNION {f.rows : f \in {g \in walFiles : g.num > LastWal}}

(* A write that returned Ok is durable: whenever the node crashes, a start
   finds the row.                                                          *)
Durable == acked \subseteq Recoverable

(* ... and queryable: from the moment the write returned, and again once a
   replay is through, the row is in the buffer, in a chunk being persisted
   or in a persisted file.                                                 *)
Queryable == status = "up" => acked \subseteq buffer \cup snapshotting \cup RowsAt(files)

(* A WAL file is never written over another: the PUT's AlreadyExists, which
   shuts the node down, is not this node's own doing.                      *)
FreshNumber == \A f \in Flushers : pc[f] = "put" => inflight[f].num \notin FileNumbers

Buffered(r) == r \in pending \/ \E f \in Flushers : r \in inflight[f].rows

(* A flush that gives up awaits the flush lock (object_store.rs:402) with its
   snapshot's permit, and the flush that has the lock awaits that permit
   (object_store.rs:773).                                                  *)
Wedged ==
  \E f, g \in Flushers : pc[f] = "giveup" /\ inflight[f].snap # {} /\ pc[g] = "permit"

(* A write is answered: it is flushed and acknowledged, or its writers are
   told of an error or lose the node.  A snapshot's wait for the permit, with
   the flush lock held, ends, unless a flush that gives up holds the permit:
   that wedge is the only thing that leaves a writer waiting.              *)
Answered == \A r \in Rows : Buffered(r) ~> (~ Buffered(r) \/ Wedged)

(* Without the exception: "we're over max retries, the object store must be
   down, so drop all these responses and any in the new buffer"
   (object_store.rs:395).  The writers of the new buffer are told.         *)
AlwaysAnswered == \A r \in Rows : Buffered(r) ~> ~ Buffered(r)

(* A start gets through its replay, the snapshots it repeats included. *)
ComesUp == (status # "up") ~> (status = "up")

(* A manifest is never replaced by a different one under its number.       *)
ManifestsKept ==
  [][\A m \in manifests : \A n \in manifests' : n.seq = m.seq => n = m]_vars
==============================================================================
