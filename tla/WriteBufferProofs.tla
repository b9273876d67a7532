------------------------- MODULE WriteBufferProofs --------------------------
(***************************************************************************)
(* What WriteBuffer keeps whatever happens, its types and the order of its *)
(* numbers, and what it keeps when DurableWhen holds: no acknowledged row  *)
(* is lost.                                                                *)
(***************************************************************************)
EXTENDS WriteBufferReplay

-----------------------------------------------------------------------------
(* Types and fresh numbers                                                 *)

LEMMA ChunkTimeInt ==
  ASSUME NEW t \in Int
  PROVE  ChunkTime(t) \in Int
BY Gen1Assumption DEF ChunkTime

LEMMA SnapshotType ==
  ASSUME NEW tr \in Tracker, NEW force \in BOOLEAN
  PROVE  Snapshot(tr, force).tracker \in Tracker
           /\ Snapshot(tr, force).details \subseteq SnapshotDetails
<1>1. Nothing(tr).tracker \in Tracker /\ Nothing(tr).details \subseteq SnapshotDetails
  BY Zenon DEF Nothing
<1>2. tr.snap \in Nat /\ tr.periods \in Seq(WalPeriod)
  BY Zenon DEF Tracker
<1>3. ASSUME tr.periods # <<>>
      PROVE  LastPeriod(tr).wal \in Nat /\ LastPeriod(tr).max \in Int
  <2>1. Len(tr.periods) \in 1..Len(tr.periods)
    BY <1>2, <1>3
  <2> QED BY <1>2, <2>1, PeriodAt, Zenon DEF LastPeriod
<1>4. ASSUME tr.periods # <<>>
      PROVE  SnapshotAll(tr).tracker \in Tracker /\ SnapshotAll(tr).details \subseteq SnapshotDetails
  <2> DEFINE top == Highest({tr.periods[i].max : i \in DOMAIN tr.periods})
  <2>1. top \in Int
    BY <1>2, <1>4, TopIs, Zenon
  <2>2. SnapshotAll(tr) = [tracker |-> [snap |-> tr.snap + 1, periods |-> <<>>],
      details |-> {[seq |-> tr.snap + 1, marker |-> ChunkTime(top) + Gen1,
                    last |-> LastPeriod(tr).wal, forced |-> TRUE]}]
    BY Zenon DEF SnapshotAll
  <2> HIDE DEF top
  <2>3. ChunkTime(top) + Gen1 \in Int
    BY <2>1, ChunkTimeInt, Gen1Assumption
  <2>4. SnapshotAll(tr).tracker = [snap |-> tr.snap + 1, periods |-> <<>>]
        /\ SnapshotAll(tr).details = {[seq |-> tr.snap + 1, marker |-> ChunkTime(top) + Gen1,
                    last |-> LastPeriod(tr).wal, forced |-> TRUE]}
    BY <2>2
  <2> QED BY <1>2, <1>3, <1>4, <2>3, <2>4 DEF Tracker, SnapshotDetails
<1>5. ASSUME tr.periods # <<>>
      PROVE  SnapshotInOrder(tr).tracker \in Tracker
               /\ SnapshotInOrder(tr).details \subseteq SnapshotDetails
  <2>1. PICK t : t = ChunkTime(LastPeriod(tr).max)
    BY Zenon
  <2>2. t \in Int
    BY <1>3, <1>5, <2>1, ChunkTimeInt, Zenon
  <2>3. PICK k : k = TakeWhile(tr.periods, t)
    BY Zenon
  <2>4. k \in 0..Len(tr.periods)
    BY <1>2, <2>2, <2>3, TakeWhileIs, Zenon
  <2>5. CASE k = 0
    BY <1>1, <2>1, <2>3, <2>5, Zenon DEF SnapshotInOrder
  <2>6. CASE k # 0
    <3>1. SnapshotInOrder(tr) =
            [tracker |-> [snap |-> tr.snap + 1,
                        periods |-> SubSeq(tr.periods, k + 1, Len(tr.periods))],
             details |-> {[seq |-> tr.snap + 1, marker |-> t,
                         last |-> tr.periods[k].wal, forced |-> FALSE]}]
      BY <2>1, <2>3, <2>6, Zenon DEF SnapshotInOrder
    <3>2. SubSeq(tr.periods, k + 1, Len(tr.periods)) \in Seq(WalPeriod)
      BY <1>2, <2>4
    <3>3. tr.periods[k].wal \in Nat
      BY <1>2, <2>4, <2>6, PeriodAt
    <3> QED BY <1>2, <2>2, <3>1, <3>2, <3>3 DEF Tracker, SnapshotDetails
  <2> QED BY <2>5, <2>6, Zenon
<1>6. CASE ~ ShouldRunSnapshot(tr, force)
  BY <1>1, <1>6, Zenon DEF Snapshot
<1>7. CASE ShouldRunSnapshot(tr, force)
  BY <1>4, <1>5, <1>7, Zenon DEF Snapshot, ShouldRunSnapshot
<1> QED BY <1>6, <1>7, Zenon

LEMMA NoTaskType ==
  NoTask \in TaskType
BY Zenon DEF NoTask, TaskType

LEMMA TypeInit ==
  Init => TypeInv
<1> SUFFICES ASSUME Init PROVE TypeInv
  BY Zenon
<1>1. NewTracker(0) \in Tracker
  BY DEF NewTracker, Tracker
<1>2. NoCompaction \in CompactionType
  BY Zenon DEF NoCompaction, CompactionType
<1>3. 0 \in Nat /\ 0 \in Int /\ 1 \in Nat \ {0}
  OBVIOUS
<1>4. (\E b \in Nat : \A m \in manifests : m.seq <= b) /\ \E b \in Int : \A r \in pending : TimeOf[r] <= b
  BY <1>3, Zenon DEF Init
<1>5. pc \in [Flushers -> FlushStates]
      /\ inflight \in [Flushers -> WalFile \cup {NoFile}]
  BY Zenon DEF Init, FlushStates
<1> QED BY <1>1, <1>2, <1>3, <1>4, <1>5, NoTaskType, Zenon DEF Init, TypeInv

LEMMA TypeWrite ==
  ASSUME TypeInv, NEW r \in Rows, Write(r)
  PROVE  TypeInv'
<1>1. PICK b \in Int : \A q \in pending : TimeOf[q] <= b
  BY Zenon DEF TypeInv
<1>2. TimeOf[r] \in Int /\ \A q \in pending : TimeOf[q] \in Int
  BY TimesAssumption, Zenon DEF TypeInv
<1>3. PICK c \in Int : b <= c /\ TimeOf[r] <= c
  BY <1>2
<1>4. \A q \in pending' : TimeOf[q] <= c
  BY <1>1, <1>2, <1>3 DEF Write
<1>5. pending' \subseteq Rows /\ \E d \in Int : \A q \in pending' : TimeOf[q] <= d
  BY <1>4, Zenon DEF Write, TypeInv
<1>6. UNCHANGED <<walFiles, parquet, manifests, status, todo, highWater, walNumber,
          tracker, permit, oldest, last, pc, inflight, buffer, snapshotting, files,
          task, compaction, acked>>
  BY Zenon DEF Write, objects, start, remover, flush, queryable, record
<1> QED BY <1>5, <1>6, Zenon DEF TypeInv

LEMMA TypeFlushTake ==
  ASSUME TypeInv, NEW f \in Flushers, FlushTake(f)
  PROVE  TypeInv'
<1>1. PICK max : max = IF pending = {} THEN NoopTime + 1 ELSE Highest({TimeOf[r] : r \in pending})
  BY Zenon
<1>2. max \in Int
  <2>1. CASE pending = {}
    BY <1>1, <2>1, TimesAssumption
  <2>2. CASE pending # {}
    <3>1. PICK b \in Int : \A q \in pending : TimeOf[q] <= b
      BY Zenon DEF TypeInv
    <3> DEFINE S == {TimeOf[r] : r \in pending}
    <3>2. S \in SUBSET Int /\ S # {} /\ \A x \in S : x <= b
      BY <2>2, <3>1, TimesAssumption DEF TypeInv
    <3>3. max = Highest(S)
      BY <1>1, <2>2, Zenon
    <3> HIDE DEF S
    <3>4. Highest(S) \in S
      BY <3>2, HighestIs, Zenon
    <3> QED BY <3>2, <3>3, <3>4, Zenon
  <2> QED BY <2>1, <2>2, Zenon
<1>3. PICK tr : tr = AddWalPeriod(tracker, walNumber, max)
  BY Zenon
<1>4. tr \in Tracker
  <2>1. [wal |-> walNumber, max |-> max] \in WalPeriod
    BY <1>2, Zenon DEF TypeInv, WalPeriod
  <2>2. tracker.periods \in Seq(WalPeriod) /\ tracker.snap \in Nat /\ tracker \in Tracker
    BY Zenon DEF TypeInv, Tracker
  <2>3. Append(tracker.periods, [wal |-> walNumber, max |-> max]) \in Seq(WalPeriod)
    BY <2>1, <2>2
  <2> QED BY <1>3, <2>2, <2>3, Zenon DEF AddWalPeriod, Tracker
<1>5. PICK force \in BOOLEAN : force = (f = "forced")
  BY Zenon
<1>6. PICK s : s = Snapshot(tr, force)
  BY Zenon
<1>7. s.tracker \in Tracker /\ s.details \subseteq SnapshotDetails
  BY <1>4, <1>6, SnapshotType, Zenon
<1>8. /\ tracker' = s.tracker
      /\ inflight' = [inflight EXCEPT ![f] =
             [num |-> walNumber, rows |-> pending, max |-> max, snap |-> s.details]]
      /\ pc' = [pc EXCEPT ![f] = IF s.details = {} \/ permit THEN "put" ELSE "permit"]
      /\ permit' = (permit /\ s.details = {})
      /\ pending' = {} /\ walNumber' = walNumber + 1
  BY <1>1, <1>3, <1>5, <1>6, Zenon DEF FlushTake
<1>9. [num |-> walNumber, rows |-> pending, max |-> max, snap |-> s.details] \in WalFile
  BY <1>2, <1>7, Zenon DEF WalFile, TypeInv
<1>10. inflight' \in [Flushers -> WalFile \cup {NoFile}]
  BY <1>8, <1>9, Zenon DEF TypeInv
<1>11. pc' \in [Flushers -> FlushStates]
  BY <1>8, Zenon DEF TypeInv, FlushStates
<1>12. permit' \in BOOLEAN /\ pending' \subseteq Rows /\ walNumber' \in Nat \ {0}
       /\ \E d \in Int : \A q \in pending' : TimeOf[q] <= d
  BY <1>8 DEF TypeInv
<1>13. UNCHANGED <<walFiles, parquet, manifests, status, todo, highWater,
          oldest, last, buffer, snapshotting, files, task, compaction, acked>>
  BY Zenon DEF FlushTake, objects, start, remover, queryable, record
<1> QED BY <1>7, <1>8, <1>10, <1>11, <1>12, <1>13, Zenon DEF TypeInv

LEMMA ChunksInt ==
  ASSUME NEW S \in SUBSET Rows
  PROVE  ChunksOf(S) \subseteq Int
<1>1. \A r \in S : TimeOf[r] \in Int
  BY TimesAssumption, Zenon
<1>2. \A r \in S : RowChunk(r) \in Int
  BY <1>1, ChunkTimeInt, Zenon DEF RowChunk
<1> QED BY <1>2, Zenon DEF ChunksOf

LEMMA TypeNotify ==
  ASSUME TypeInv, NEW rows \in SUBSET Rows, NEW d \in SnapshotDetails,
         NEW cleanup \in SUBSET SnapshotDetails, NotifyAndSnapshot(rows, d, cleanup)
  PROVE  buffer' \subseteq Rows /\ snapshotting' \subseteq Rows /\ task' \in TaskType
<1>1. PICK frozen : frozen = Frozen(buffer \cup rows, d.marker)
  BY Zenon
<1>2. /\ buffer' = (buffer \cup rows) \ frozen
      /\ snapshotting' = frozen
      /\ task' = [NoTask EXCEPT !.phase = "persist", !.details = {d},
                               !.jobs = ChunksOf(frozen), !.cleanup = cleanup]
  BY <1>1, Zenon DEF NotifyAndSnapshot
<1>3. frozen \in SUBSET Rows
  BY <1>1, Zenon DEF Frozen, TypeInv
<1>4. ChunksOf(frozen) \subseteq Int
  BY <1>3, ChunksInt, Zenon
<1>5. task' \in TaskType
  BY <1>2, <1>4, NoTaskType, Zenon DEF TaskType
<1> QED BY <1>2, <1>3, <1>5, Zenon DEF TypeInv

LEMMA TypeFlush ==
  ASSUME TypeInv, NumberInv, NEW f \in Flushers,
         \/ FlushPermit(f) \/ FlushPut(f) \/ FlushNotify(f)
         \/ FlushAbandon(f) \/ FlushGiveUp(f)
  PROVE  TypeInv'
<1>0. pc[f] # "idle" => inflight[f] \in WalFile
  BY Zenon DEF TypeInv, NumberInv
<1>1. CASE FlushPermit(f)
  <2>1. permit' \in BOOLEAN /\ pc' \in [Flushers -> FlushStates]
    BY <1>1, Zenon DEF FlushPermit, TypeInv, FlushStates
  <2>2. UNCHANGED <<walFiles, parquet, manifests, status, todo, highWater, pending, walNumber,
          tracker, oldest, last, inflight, buffer, snapshotting, files,
          task, compaction, acked>>
    BY <1>1, Zenon DEF FlushPermit, objects, start, remover, queryable, record
  <2> QED BY <2>1, <2>2, Zenon DEF TypeInv
<1>2. CASE FlushPut(f)
  <2>1. pc' \in [Flushers -> FlushStates]
    BY <1>2, Zenon DEF FlushPut, TypeInv, FlushStates
  <2>2. pc[f] = "put" /\ walFiles' = walFiles \cup {inflight[f]}
    BY <1>2, Zenon DEF FlushPut
  <2>3. walFiles' \subseteq WalFile
    BY <1>0, <2>2, Zenon DEF TypeInv
  <2>4. UNCHANGED <<parquet, manifests, status, todo, highWater, pending, walNumber,
          tracker, permit, oldest, last, inflight, buffer, snapshotting, files,
          task, compaction, acked>>
    BY <1>2, Zenon DEF FlushPut, start, wal, remover, queryable, record
  <2> QED BY <2>1, <2>3, <2>4, Zenon DEF TypeInv
<1>3. CASE FlushGiveUp(f)
  <2>1. pc' \in [Flushers -> FlushStates]
        /\ inflight' \in [Flushers -> WalFile \cup {NoFile}]
    BY <1>3, Zenon DEF FlushGiveUp, TypeInv, FlushStates
  <2>2. permit' = (permit \/ inflight[f].snap # {}) /\ pending' = {} /\ walNumber' = walNumber + 1
    BY <1>3, Zenon DEF FlushGiveUp
  <2>3. permit' \in BOOLEAN /\ pending' \subseteq Rows /\ walNumber' \in Nat \ {0}
        /\ \E d \in Int : \A q \in pending' : TimeOf[q] <= d
    BY <2>2 DEF TypeInv
  <2>4. UNCHANGED <<walFiles, parquet, manifests, status, todo, highWater,
          tracker, oldest, last, buffer, snapshotting, files, task, compaction, acked>>
    BY <1>3, Zenon DEF FlushGiveUp, objects, start, remover, queryable, record
  <2> QED BY <2>1, <2>3, <2>4, Zenon DEF TypeInv
<1>5. CASE FlushAbandon(f)
  <2>1. "put" \in Faults /\ pc[f] = "put" /\ walFiles' \in {walFiles, walFiles \cup {inflight[f]}}
        /\ pc' = [pc EXCEPT ![f] = "giveup"] /\ inflight' = [inflight EXCEPT ![f].rows = {}]
    BY <1>5, Zenon DEF FlushAbandon
  <2>2. pc' \in [Flushers -> FlushStates]
    BY <2>1, Zenon DEF TypeInv, FlushStates
  <2>3. inflight[f] \in WalFile
    BY <1>0, <2>1, Zenon
  <2>4. [inflight[f] EXCEPT !.rows = {}] \in WalFile
    BY <2>3, Zenon DEF WalFile
  <2>5. inflight' \in [Flushers -> WalFile \cup {NoFile}]
    BY <2>1, <2>4, Zenon DEF TypeInv
  <2>6. walFiles' \subseteq WalFile
    BY <2>1, <2>3, Zenon DEF TypeInv
  <2>7. UNCHANGED <<parquet, manifests, status, todo, highWater, pending, walNumber, permit,
          tracker, oldest, last, buffer, snapshotting, files, task, compaction, acked>>
    BY <1>5, Zenon DEF FlushAbandon, start, wal, remover, queryable, record
  <2> QED BY <2>2, <2>5, <2>6, <2>7, Zenon DEF TypeInv
<1>4. CASE FlushNotify(f)
  <2>1. pc' \in [Flushers -> FlushStates]
        /\ inflight' \in [Flushers -> WalFile \cup {NoFile}]
    BY <1>4, Zenon DEF FlushNotify, TypeInv, FlushStates
  <2>2. pc[f] = "notify"
    BY <1>4, Zenon DEF FlushNotify
  <2>3. inflight[f].rows \in SUBSET Rows /\ inflight[f].snap \in SUBSET SnapshotDetails
    BY <1>0, <2>2, Zenon DEF WalFile
  <2>4. acked' \subseteq Rows
    BY <1>4, <2>3, Zenon DEF FlushNotify, TypeInv
  <2>5. buffer' \subseteq Rows /\ snapshotting' \subseteq Rows /\ task' \in TaskType
    <3>1. CASE Notify(inflight[f].rows) /\ UNCHANGED task
      BY <2>3, <3>1, Zenon DEF Notify, TypeInv
    <3>2. CASE \E d \in inflight[f].snap : NotifyAndSnapshot(inflight[f].rows, d, {d})
      <4>1. PICK d \in inflight[f].snap : NotifyAndSnapshot(inflight[f].rows, d, {d})
        BY <3>2, Zenon
      <4>2. d \in SnapshotDetails /\ {d} \in SUBSET SnapshotDetails
        BY <2>3, Zenon
      <4> QED BY <2>3, <4>1, <4>2, TypeNotify, Zenon
    <3> QED BY <1>4, <3>1, <3>2, Zenon DEF FlushNotify
  <2>6. UNCHANGED <<walFiles, parquet, manifests, status, todo, highWater, pending, walNumber,
          tracker, permit, oldest, last, files, compaction>>
    BY <1>4, Zenon DEF FlushNotify, objects, start, wal, remover, record
  <2> QED BY <2>1, <2>4, <2>5, <2>6, Zenon DEF TypeInv
<1> QED BY <1>1, <1>2, <1>3, <1>4, <1>5, Zenon

LEMMA TypeSnapshot ==
  ASSUME TypeInv, TakeSnapshot
  PROVE  TypeInv'
<1>0. task.details \subseteq SnapshotDetails /\ task.jobs \subseteq Int /\ task.paths \subseteq Path
  BY Zenon DEF TypeInv, TaskType
<1>1. ASSUME NEW c \in task.jobs, PersistChunk(c) PROVE TypeInv'
  <2>1. PICK d \in task.details :
       LET path == <<c, d.last>>
           rows == {r \in snapshotting : RowChunk(r) = c}
       IN /\ parquet' = PutParquet(path, rows)
          /\ files' = files \cup {path}
          /\ snapshotting' = snapshotting \ rows
          /\ task' = [task EXCEPT !.jobs = @ \ {c}, !.paths = @ \cup {path}]
    BY <1>1, Zenon DEF PersistChunk
  <2>2. PICK rows \in SUBSET Rows : rows = {r \in snapshotting : RowChunk(r) = c}
    BY Zenon DEF TypeInv
  <2>3. d.last \in Nat /\ c \in Int
    BY <1>0, Zenon DEF SnapshotDetails
  <2>4. PICK path \in Path : path = <<c, d.last>>
    BY <2>3, Zenon DEF Path
  <2>5. [path |-> path, rows |-> rows] \in ParquetFile
    BY Zenon DEF ParquetFile
  <2>6. parquet' = {g \in parquet : g.path # path} \cup {[path |-> path, rows |-> rows]}
    BY <2>1, <2>2, <2>4, Zenon DEF PutParquet
  <2>7. parquet' \subseteq ParquetFile
    BY <2>5, <2>6, Zenon DEF TypeInv
  <2>8. files' \subseteq Path /\ snapshotting' \subseteq Rows
    BY <2>1, <2>4, Zenon DEF TypeInv
  <2>9. task' = [task EXCEPT !.jobs = @ \ {c}, !.paths = @ \cup {path}]
    BY <2>1, <2>4, Zenon
  <2>10. task' \in TaskType
    BY <2>9, Zenon DEF TypeInv, TaskType
  <2>11. UNCHANGED <<walFiles, manifests, status, todo, highWater, pending, walNumber,
          tracker, permit, oldest, last, pc, inflight, buffer, compaction, acked>>
    BY <1>1, Zenon DEF PersistChunk, start, wal, remover, flush, record
  <2> QED BY <2>7, <2>8, <2>10, <2>11, Zenon DEF TypeInv
<1>2. ASSUME PersistManifest PROVE TypeInv'
  <2>1. PICK d \in task.details :
          manifests' = PutManifest([seq |-> d.seq, wal |-> d.last, paths |-> task.paths])
    BY <1>2, Zenon DEF PersistManifest
  <2>2. PICK m : m = [seq |-> d.seq, wal |-> d.last, paths |-> task.paths]
    BY Zenon
  <2>3. m \in Manifest /\ m.seq = d.seq /\ d.seq \in Nat
    BY <1>0, <2>2, Zenon DEF Manifest, SnapshotDetails
  <2>4. manifests' = {n \in manifests : n.seq # m.seq} \cup {m}
    BY <2>1, <2>2, Zenon DEF PutManifest
  <2>5. manifests' \subseteq Manifest
    BY <2>3, <2>4, Zenon DEF TypeInv
  <2>6. PICK b \in Nat : \A n \in manifests : n.seq <= b
    BY Zenon DEF TypeInv
  <2>7. \A n \in manifests' : n.seq \in Nat
    BY <2>5, Zenon DEF Manifest
  <2>8. PICK c \in Nat : b <= c /\ d.seq <= c
    BY <2>3
  <2>9. ASSUME NEW n \in manifests' PROVE n.seq <= c
    <3>1. CASE n = m
      BY <2>3, <2>8, <3>1, Zenon
    <3>2. CASE n \in manifests
      BY <2>6, <2>7, <2>8, <3>2
    <3> QED BY <2>4, <3>1, <3>2, Zenon
  <2>10. task' \in TaskType
    BY <1>2, NoTaskType, Zenon DEF PersistManifest, TypeInv, TaskType
  <2>11. UNCHANGED <<walFiles, parquet, status, todo, highWater, pending, walNumber,
          tracker, permit, oldest, last, pc, inflight, buffer, snapshotting, files,
          compaction, acked>>
    BY <1>2, Zenon DEF PersistManifest, start, wal, remover, flush, queryable, record
  <2>12. \E c1 \in Nat : \A n \in manifests' : n.seq <= c1
    BY <2>9, Zenon
  <2> QED BY <2>5, <2>10, <2>11, <2>12, Zenon DEF TypeInv
<1> QED BY <1>1, <1>2, Zenon DEF TakeSnapshot

LEMMA TypeCleanup ==
  ASSUME TypeInv, Cleanup
  PROVE  TypeInv'
<1>0. task \in TaskType /\ task.cleanup \subseteq SnapshotDetails
  BY Zenon DEF TypeInv, TaskType
<1>1. FirstWal \in Nat \ {0}
  BY DEF FirstWal, TypeInv
<1>2. CASE CleanupStart
  <2>1. PICK d \in task.cleanup :
          /\ last' = d.last
          /\ task' = [task EXCEPT !.phase = "delete", !.doomed = FirstWal..(d.last - Keep - 1)]
    BY <1>2, Zenon DEF CleanupStart
  <2>2. d.last \in Nat
    BY <1>0, Zenon DEF SnapshotDetails
  <2>3. FirstWal..(d.last - Keep - 1) \subseteq Int
    OBVIOUS
  <2>4. task' \in TaskType
    BY <1>0, <2>1, <2>3, Zenon DEF TaskType
  <2>5. UNCHANGED <<walFiles, parquet, manifests, status, todo, highWater, pending, walNumber,
          tracker, permit, oldest, pc, inflight, buffer, snapshotting, files,
          compaction, acked>>
    BY <1>2, Zenon DEF CleanupStart, objects, start, wal, flush, queryable, record
  <2>6. last' \in Nat
    BY <2>1, <2>2, Zenon
  <2> QED BY <2>4, <2>5, <2>6, Zenon DEF TypeInv
<1>3. CASE CleanupDelete
  <2>1. walFiles' \subseteq WalFile
    BY <1>3, Zenon DEF CleanupDelete, TypeInv
  <2>2. PICK n : task' = [task EXCEPT !.doomed = @ \ {n}]
    BY <1>3, Zenon DEF CleanupDelete
  <2>3. task' \in TaskType
    BY <1>0, <2>2, Zenon DEF TaskType
  <2>4. UNCHANGED <<parquet, manifests, status, todo, highWater, pending, walNumber,
          tracker, permit, oldest, last, pc, inflight, buffer, snapshotting, files,
          compaction, acked>>
    BY <1>3, Zenon DEF CleanupDelete, start, wal, remover, flush, queryable, record
  <2> QED BY <2>1, <2>3, <2>4, Zenon DEF TypeInv
<1>4. CASE CleanupEnd
  <2>1. oldest' = (IF last - FirstWal > Keep THEN last - Keep ELSE oldest)
        /\ permit' = TRUE /\ task' = NoTask
    BY <1>4, Zenon DEF CleanupEnd
  <2>2. oldest' \in Nat
    BY <1>1, <2>1, KeepAssumption DEF TypeInv
  <2>3. UNCHANGED <<walFiles, parquet, manifests, status, todo, highWater, pending, walNumber,
          tracker, last, pc, inflight, buffer, snapshotting, files, compaction, acked>>
    BY <1>4, Zenon DEF CleanupEnd, objects, start, flush, queryable, record
  <2>4. permit' \in BOOLEAN /\ task' \in TaskType
    BY <2>1, NoTaskType, Zenon
  <2> QED BY <2>2, <2>3, <2>4, Zenon DEF TypeInv
<1> QED BY <1>2, <1>3, <1>4, Zenon DEF Cleanup

LEMMA TypeCompact ==
  ASSUME TypeInv, Compact
  PROVE  TypeInv'
<1>0. compaction \in CompactionType /\ compaction.seq \in Nat /\ compaction.wal \in Nat
  BY Zenon DEF TypeInv, CompactionType
<1>1. CASE CompactReserve
  <2>1. tracker' = [tracker EXCEPT !.snap = @ + 1]
        /\ compaction' = [phase |-> "reserved", seq |-> tracker'.snap, wal |-> 0]
    BY <1>1, Zenon DEF CompactReserve, ReserveSnapshotSequenceNumber
  <2>2. tracker' \in Tracker
    BY <2>1 DEF TypeInv, Tracker
  <2>3. compaction' \in CompactionType
    BY <2>1, <2>2, Zenon DEF CompactionType, Tracker
  <2>4. UNCHANGED <<walFiles, parquet, manifests, status, todo, highWater, pending, walNumber,
          permit, oldest, last, pc, inflight, buffer, snapshotting, files, task, acked>>
    BY <1>1, Zenon DEF CompactReserve, objects, start, remover, flush, queryable
  <2> QED BY <2>2, <2>3, <2>4, Zenon DEF TypeInv
<1>2. CASE CompactStamp
  <2>1. compaction' \in CompactionType
    BY <1>0, <1>2, Zenon DEF CompactStamp, CompactionType, TypeInv
  <2>2. UNCHANGED <<walFiles, parquet, manifests, status, todo, highWater, pending, walNumber,
          tracker, permit, oldest, last, pc, inflight, buffer, snapshotting, files, task, acked>>
    BY <1>2, Zenon DEF CompactStamp, objects, start, wal, remover, flush, queryable
  <2> QED BY <2>1, <2>2, Zenon DEF TypeInv
<1>3. CASE CompactPersist
  <2>1. PICK m : m = [seq |-> compaction.seq, wal |-> compaction.wal, paths |-> {}]
    BY Zenon
  <2>2. m \in Manifest /\ m.seq \in Nat
    BY <1>0, <2>1, Zenon DEF Manifest
  <2>3. manifests' = manifests \/ manifests' = {n \in manifests : n.seq # m.seq} \cup {m}
    BY <1>3, <2>1, Zenon DEF CompactPersist, PutManifest
  <2>4. manifests' \subseteq Manifest
    BY <2>2, <2>3, Zenon DEF TypeInv
  <2>5. PICK b \in Nat : \A n \in manifests : n.seq <= b
    BY Zenon DEF TypeInv
  <2>6. \A n \in manifests' : n.seq \in Nat
    BY <2>4, Zenon DEF Manifest
  <2>7. PICK c \in Nat : b <= c /\ m.seq <= c
    BY <2>2
  <2>8. ASSUME NEW n \in manifests' PROVE n.seq <= c
    <3>1. CASE n = m
      BY <2>7, <3>1, Zenon
    <3>2. CASE n \in manifests
      BY <2>5, <2>6, <2>7, <3>2
    <3> QED BY <2>3, <3>1, <3>2, Zenon
  <2>9. \E c1 \in Nat : \A n \in manifests' : n.seq <= c1
    BY <2>8, Zenon
  <2>10. compaction' \in CompactionType
    BY <1>3, Zenon DEF CompactPersist, NoCompaction, CompactionType
  <2>11. UNCHANGED <<walFiles, parquet, status, todo, highWater, pending, walNumber,
          tracker, permit, oldest, last, pc, inflight, buffer, snapshotting, files, task, acked>>
    BY <1>3, Zenon DEF CompactPersist, start, wal, remover, flush, queryable
  <2> QED BY <2>4, <2>9, <2>10, <2>11, Zenon DEF TypeInv
<1> QED BY <1>1, <1>2, <1>3, Zenon DEF Compact

LEMMA TypeStart ==
  ASSUME TypeInv, Crash \/ StartUp \/ ReplayDone
  PROVE  TypeInv'
<1>1. CASE Crash
  <2>1. NewTracker(0) \in Tracker
    BY DEF NewTracker, Tracker
  <2>2. NoCompaction \in CompactionType
    BY Zenon DEF NoCompaction, CompactionType
  <2>3. 0 \in Nat /\ 0 \in Int /\ 1 \in Nat \ {0}
    OBVIOUS
  <2>4. \E b \in Int : \A r \in pending' : TimeOf[r] <= b
    BY <1>1, <2>3, Zenon DEF Crash
  <2>5. pc' \in [Flushers -> FlushStates]
        /\ inflight' \in [Flushers -> WalFile \cup {NoFile}]
    BY <1>1, Zenon DEF Crash, FlushStates
  <2> QED BY <1>1, <2>1, <2>2, <2>3, <2>4, <2>5, NoTaskType, Zenon DEF Crash, TypeInv, objects
<1>2. CASE StartUp
  <2>1. PICK b \in Nat : \A m \in manifests : m.seq <= b
    BY Zenon DEF TypeInv
  <2>2. manifests \subseteq Manifest
    BY Zenon DEF TypeInv
  <2>3. LastSnapshot \in Nat /\ LastWal \in Nat
    BY <2>1, <2>2, LastSnapshotIs, LastWalNat, Zenon
  <2>4. FileNumbers \in SUBSET Nat
    BY Zenon DEF TypeInv, FileNumbers, WalFile
  <2>5. walFiles # {} => FileNumbers # {}
    BY Zenon DEF FileNumbers
  <2>6. FileNumbers # {} => Lowest(FileNumbers) \in Nat
    BY <2>4, LowestIs, Zenon
  <2>7. oldest' \in Nat
    BY <1>2, <2>5, <2>6, Zenon DEF StartUp
  <2>8. NewTracker(LastSnapshot) \in Tracker
    BY <2>3 DEF NewTracker, Tracker
  <2>9. walNumber' \in Nat \ {0}
    BY <1>2, <2>3 DEF StartUp
  <2>10. todo' \subseteq Nat /\ highWater' \in Nat /\ last' \in Nat /\ tracker' \in Tracker
         /\ status' \in {"down", "replay", "up"}
    BY <1>2, <2>3, <2>4, <2>8, Zenon DEF StartUp
  <2>11. files' \subseteq Path
    BY <1>2, <2>2, Zenon DEF StartUp, Manifest
  <2>12. UNCHANGED <<walFiles, parquet, manifests, pending, permit, pc, inflight, buffer,
          snapshotting, task, compaction, acked>>
    BY <1>2, Zenon DEF StartUp, objects, flush, record
  <2> QED BY <2>7, <2>9, <2>10, <2>11, <2>12, Zenon DEF TypeInv
<1>3. CASE ReplayDone
  <2>1. status' = "up" /\ UNCHANGED <<walFiles, parquet, manifests, todo, highWater, pending, walNumber,
          tracker, permit, oldest, last, pc, inflight, buffer, snapshotting, files, task,
          compaction, acked>>
    BY <1>3, Zenon DEF ReplayDone, objects, wal, remover, flush, queryable, record
  <2> QED BY <2>1, Zenon DEF TypeInv
<1> QED BY <1>1, <1>2, <1>3, Zenon

LEMMA TypeReplay ==
  ASSUME TypeInv, NEW w \in walFiles, Replay(w)
  PROVE  TypeInv'
<1>1. w.num \in Nat \ {0} /\ w.rows \in SUBSET Rows /\ w.max \in Int /\ w.snap \in SUBSET SnapshotDetails
  BY Zenon DEF TypeInv, WalFile
<1>2. PICK added : added = AddWalPeriod(tracker, w.num, w.max)
  BY Zenon
<1>3. added \in Tracker
  BY <1>1, <1>2, AddType, Zenon
<1>4. todo' \subseteq Nat /\ walNumber' \in Nat \ {0}
  <2>1. todo' = todo \ {w.num} /\ walNumber' = w.num + 1
    BY Zenon DEF Replay
  <2>2. walNumber' \in Nat \ {0}
    BY <1>1, <2>1
  <2> QED BY <2>1, <2>2, Zenon DEF TypeInv
<1>5. UNCHANGED <<walFiles, parquet, manifests, status, highWater, pending,
          oldest, last, pc, inflight, files, compaction, acked>>
  BY Zenon DEF Replay, objects, remover, flush, record
<1>6. /\ buffer' \subseteq Rows /\ snapshotting' \subseteq Rows /\ task' \in TaskType
      /\ tracker' \in Tracker /\ permit' \in BOOLEAN
  <2>1. CASE Notify(w.rows) /\ tracker' = added /\ UNCHANGED <<task, permit>>
    BY <1>1, <1>3, <2>1, Zenon DEF Notify, TypeInv
  <2>2. ASSUME NEW d \in w.snap,
             LET s == Snapshot(added, d.forced)
             IN /\ permit \/ s.details = {}
                /\ tracker' = s.tracker
                /\ permit' = (permit /\ s.details = {})
                /\ IF d.seq <= highWater
                   THEN /\ Notify(w.rows)
                        /\ task' = IF s.details = {} THEN NoTask
                                   ELSE [NoTask EXCEPT !.phase = "cleanup",
                                                       !.cleanup = s.details]
                   ELSE NotifyAndSnapshot(w.rows, d, s.details)
        PROVE  /\ buffer' \subseteq Rows /\ snapshotting' \subseteq Rows /\ task' \in TaskType
               /\ tracker' \in Tracker /\ permit' \in BOOLEAN
    <3>1. d \in SnapshotDetails /\ d.forced \in BOOLEAN
      BY <1>1, Zenon DEF SnapshotDetails
    <3>2. PICK s : s = Snapshot(added, d.forced)
      BY Zenon
    <3>3. s.tracker \in Tracker /\ s.details \in SUBSET SnapshotDetails
      BY <1>3, <3>1, <3>2, SnapshotType, Zenon
    <3>4. /\ tracker' = s.tracker
          /\ permit' = (permit /\ s.details = {})
          /\ IF d.seq <= highWater
             THEN /\ Notify(w.rows)
                  /\ task' = IF s.details = {} THEN NoTask
                             ELSE [NoTask EXCEPT !.phase = "cleanup", !.cleanup = s.details]
             ELSE NotifyAndSnapshot(w.rows, d, s.details)
      BY <2>2, <3>2, Zenon
    <3>5. tracker' \in Tracker /\ permit' \in BOOLEAN
      BY <3>3, <3>4, Zenon DEF TypeInv
    <3>6. CASE d.seq <= highWater
      <4>1. buffer' \subseteq Rows /\ snapshotting' \subseteq Rows
        BY <1>1, <3>4, <3>6, Zenon DEF Notify, TypeInv
      <4>2. [NoTask EXCEPT !.phase = "cleanup", !.cleanup = s.details] \in TaskType
        BY <3>3, NoTaskType, Zenon DEF TaskType
      <4>3. task' \in TaskType
        BY <3>4, <3>6, <4>2, NoTaskType, Zenon
      <4> QED BY <3>5, <4>1, <4>3, Zenon
    <3>7. CASE ~ (d.seq <= highWater)
      <4>1. NotifyAndSnapshot(w.rows, d, s.details)
        BY <3>4, <3>7, Zenon
      <4> QED BY <1>1, <3>1, <3>3, <3>5, <4>1, TypeNotify, Zenon
    <3> QED BY <3>6, <3>7, Zenon
  <2> QED BY <1>2, <2>1, <2>2, Zenon DEF Replay
<1> QED BY <1>4, <1>5, <1>6, Zenon DEF TypeInv

LEMMA NumberInit ==
  Init => NumberInv
BY Zenon DEF Init, NumberInv, FileNumbers

LEMMA NumberFlush ==
  ASSUME TypeInv, NumberInv, NEW f \in Flushers, Flush(f)
  PROVE  NumberInv'
<1>0. /\ \A g \in Flushers : pc[g] # "idle" => inflight[g] \in WalFile /\ inflight[g].num \in Nat
      /\ walNumber \in Nat /\ FileNumbers \subseteq Nat
  <2>1. \A g \in Flushers : pc[g] # "idle" => inflight[g] \in WalFile
    BY Zenon DEF TypeInv, NumberInv
  <2>2. walNumber \in Nat /\ FileNumbers \subseteq Nat
    BY Zenon DEF TypeInv, FileNumbers, WalFile
  <2>3. \A w \in WalFile : w.num \in Nat
    BY Zenon DEF WalFile
  <2> QED BY <2>1, <2>2, <2>3, Zenon
<1>1. CASE FlushTake(f)
  <2>1. PICK v, c :
          /\ v.num = walNumber /\ c \in {"put", "permit"}
          /\ inflight' = [inflight EXCEPT ![f] = v] /\ pc' = [pc EXCEPT ![f] = c]
    <3>1. PICK max, s :
            /\ inflight' = [inflight EXCEPT ![f] =
                 [num |-> walNumber, rows |-> pending, max |-> max, snap |-> s.details]]
            /\ pc' = [pc EXCEPT ![f] = IF s.details = {} \/ permit THEN "put" ELSE "permit"]
      BY <1>1, Zenon DEF FlushTake
    <3>2. [num |-> walNumber, rows |-> pending, max |-> max, snap |-> s.details].num = walNumber
      BY Zenon
    <3>3. (IF s.details = {} \/ permit THEN "put" ELSE "permit") \in {"put", "permit"}
      BY Zenon
    <3> QED BY <3>1, <3>2, <3>3, Zenon
  <2>2. walNumber' = walNumber + 1 /\ UNCHANGED <<walFiles, status, todo>> /\ status = "up" /\ pc[f] = "idle"
    BY <1>1, Zenon DEF FlushTake, objects, start
  <2>3. v # NoFile
    BY <2>1 DEF NoFile, TypeInv
  <2>4. pc'[f] = c /\ inflight'[f] = v /\ \A g \in Flushers : g # f => pc'[g] = pc[g] /\ inflight'[g] = inflight[g]
    BY <2>1, Zenon DEF TypeInv
  <2>5. FileNumbers' = FileNumbers
    BY <2>2, Zenon DEF FileNumbers
  <2>6. ASSUME NEW g \in Flushers PROVE pc'[g] = "idle" <=> inflight'[g] = NoFile
    BY <2>1, <2>3, <2>4, Zenon DEF NumberInv
  <2>7. ASSUME NEW g \in Flushers, pc'[g] # "idle" PROVE status' = "up" /\ inflight'[g].num < walNumber'
    <3>1. CASE g = f
      BY <1>0, <2>1, <2>2, <2>4, <3>1
    <3>2. CASE g # f
      BY <1>0, <2>2, <2>4, <2>7, <3>2 DEF NumberInv
    <3> QED BY <3>1, <3>2, Zenon
  <2>8. ASSUME NEW g \in Flushers, NEW h \in Flushers, g # h, pc'[g] # "idle", pc'[h] # "idle"
        PROVE inflight'[g].num # inflight'[h].num
    <3>1. \A i \in Flushers : pc[i] # "idle" => inflight[i].num # walNumber
      BY <1>0 DEF NumberInv
    <3> QED BY <2>1, <2>4, <2>8, <3>1 DEF NumberInv
  <2>9. ASSUME NEW g \in Flushers, pc'[g] \in {"permit", "put"} PROVE inflight'[g].num \notin FileNumbers
    <3>1. CASE g = f
      BY <1>0, <2>1, <2>2, <2>4, <3>1 DEF NumberInv
    <3>2. CASE g # f
      BY <2>4, <2>9, <3>2, Zenon DEF NumberInv
    <3> QED BY <3>1, <3>2, Zenon
  <2>10. ASSUME NEW n \in FileNumbers PROVE n < walNumber'
    <3>1. n < walNumber /\ n \in Nat
      BY <1>0, <2>2, Zenon DEF NumberInv
    <3> QED BY <1>0, <2>2, <3>1
  <2> QED BY <2>2, <2>5, <2>6, <2>7, <2>8, <2>9, <2>10, Zenon DEF NumberInv
<1>2. CASE FlushPermit(f)
  <2>1. UNCHANGED <<walFiles, status, todo, inflight, walNumber>> /\ pc[f] = "permit" /\ pc' = [pc EXCEPT ![f] = "put"]
    BY <1>2, Zenon DEF FlushPermit, objects, start
  <2>2. FileNumbers' = FileNumbers
    BY <2>1, Zenon DEF FileNumbers
  <2>3. pc'[f] = "put" /\ \A g \in Flushers : g # f => pc'[g] = pc[g]
    BY <2>1, Zenon DEF TypeInv
  <2> QED BY <2>1, <2>2, <2>3, Zenon DEF NumberInv
<1>3. CASE FlushPut(f)
  <2>1. UNCHANGED <<status, todo, inflight, walNumber>> /\ status = "up" /\ pc[f] = "put"
        /\ pc' = [pc EXCEPT ![f] = "notify"] /\ walFiles' = walFiles \cup {inflight[f]}
    BY <1>3, Zenon DEF FlushPut, start, wal
  <2>2. FileNumbers' = FileNumbers \cup {inflight[f].num}
    BY <2>1, Zenon DEF FileNumbers
  <2>3. pc'[f] = "notify" /\ \A g \in Flushers : g # f => pc'[g] = pc[g]
    BY <2>1, Zenon DEF TypeInv
  <2> QED BY <2>1, <2>2, <2>3, Zenon DEF NumberInv
<1>4. CASE FlushGiveUp(f)
  <2>1. UNCHANGED <<walFiles, status, todo>> /\ status = "up" /\ walNumber' = walNumber + 1
        /\ pc' = [pc EXCEPT ![f] = "idle"] /\ inflight' = [inflight EXCEPT ![f] = NoFile]
    BY <1>4, Zenon DEF FlushGiveUp, objects, start
  <2>2. FileNumbers' = FileNumbers
    BY <2>1, Zenon DEF FileNumbers
  <2>3. pc'[f] = "idle" /\ inflight'[f] = NoFile
        /\ \A g \in Flushers : g # f => pc'[g] = pc[g] /\ inflight'[g] = inflight[g]
    BY <2>1, Zenon DEF TypeInv
  <2>4. ASSUME NEW g \in Flushers, pc'[g] # "idle" PROVE status' = "up" /\ inflight'[g].num < walNumber'
    BY <1>0, <2>1, <2>3, <2>4 DEF NumberInv
  <2>5. ASSUME NEW n \in FileNumbers' PROVE n < walNumber'
    <3>1. n < walNumber /\ n \in Nat
      BY <1>0, <2>1, <2>2, Zenon DEF NumberInv
    <3> QED BY <1>0, <2>1, <3>1
  <2>6. ASSUME NEW g \in Flushers, pc'[g] \in {"permit", "put"} PROVE inflight'[g].num \notin FileNumbers'
    BY <2>2, <2>3, <2>6, Zenon DEF NumberInv
  <2> QED BY <2>1, <2>3, <2>4, <2>5, <2>6 DEF NumberInv
<1>6. CASE FlushAbandon(f)
  <2>1. UNCHANGED <<status, todo, walNumber>> /\ status = "up" /\ pc[f] = "put"
        /\ pc' = [pc EXCEPT ![f] = "giveup"] /\ inflight' = [inflight EXCEPT ![f].rows = {}]
        /\ walFiles' \in {walFiles, walFiles \cup {inflight[f]}}
    BY <1>6, Zenon DEF FlushAbandon, start, wal
  <2>2. FileNumbers' \subseteq FileNumbers \cup {inflight[f].num}
    BY <2>1, Zenon DEF FileNumbers
  <2>3. inflight[f] \in WalFile
    BY <1>0, <2>1, Zenon
  <2>4. [inflight[f] EXCEPT !.rows = {}].num = inflight[f].num
    BY <2>3, Zenon DEF WalFile
  <2>5. [inflight[f] EXCEPT !.rows = {}] # NoFile
    <3>1. NoFile.num = 0
      BY Zenon DEF NoFile
    <3>2. inflight[f].num # 0
      BY <2>3, Zenon DEF WalFile
    <3> QED BY <2>4, <3>1, <3>2, Zenon
  <2>6. pc'[f] = "giveup" /\ inflight'[f] # NoFile /\ inflight'[f].num = inflight[f].num
        /\ \A g \in Flushers : g # f => pc'[g] = pc[g] /\ inflight'[g] = inflight[g]
    BY <2>1, <2>4, <2>5, Zenon DEF TypeInv
  <2>7. \A g \in Flushers : /\ inflight'[g].num = inflight[g].num
                            /\ pc'[g] # "idle" <=> pc[g] # "idle"
                            /\ pc'[g] \in {"permit", "put"} => g # f /\ pc[g] \in {"permit", "put"}
    BY <2>1, <2>6, Zenon
  <2>8. ASSUME NEW g \in Flushers PROVE pc'[g] = "idle" <=> inflight'[g] = NoFile
    BY <2>1, <2>6, Zenon DEF NumberInv
  <2>9. ASSUME NEW g \in Flushers, pc'[g] \in {"permit", "put"} PROVE inflight'[g].num \notin FileNumbers'
    <3>1. g # f /\ pc[g] # "idle" /\ inflight[g].num \notin FileNumbers
      BY <2>7, <2>9, Zenon DEF NumberInv
    <3>2. inflight[g].num # inflight[f].num
      BY <2>1, <3>1, Zenon DEF NumberInv
    <3> QED BY <2>2, <2>7, <3>1, <3>2, Zenon
  <2>10. ASSUME NEW n \in FileNumbers' PROVE n < walNumber
    BY <2>1, <2>2, Zenon DEF NumberInv
  <2>11. ASSUME NEW g \in Flushers, pc'[g] # "idle" PROVE status' = "up" /\ inflight'[g].num < walNumber'
    BY <2>1, <2>7, <2>11, Zenon DEF NumberInv
  <2>12. ASSUME NEW g \in Flushers, NEW h \in Flushers, g # h, pc'[g] # "idle", pc'[h] # "idle"
         PROVE  inflight'[g].num # inflight'[h].num
    BY <2>7, <2>12, Zenon DEF NumberInv
  <2> QED BY <2>1, <2>8, <2>9, <2>10, <2>11, <2>12, Zenon DEF NumberInv
<1>5. CASE FlushNotify(f)
  <2>1. UNCHANGED <<walFiles, status, todo, walNumber>> /\ status = "up" /\ pc[f] = "notify"
        /\ pc' = [pc EXCEPT ![f] = "idle"] /\ inflight' = [inflight EXCEPT ![f] = NoFile]
    BY <1>5, Zenon DEF FlushNotify, objects, start, wal
  <2>2. FileNumbers' = FileNumbers
    BY <2>1, Zenon DEF FileNumbers
  <2>3. pc'[f] = "idle" /\ inflight'[f] = NoFile
        /\ \A g \in Flushers : g # f => pc'[g] = pc[g] /\ inflight'[g] = inflight[g]
    BY <2>1, Zenon DEF TypeInv
  <2> QED BY <2>1, <2>2, <2>3 DEF NumberInv
<1> QED BY <1>1, <1>2, <1>3, <1>4, <1>5, <1>6, Zenon DEF Flush

LEMMA NumberOthers ==
  ASSUME TypeInv, NumberInv,
         \/ \E r \in Rows : Write(r)
         \/ TakeSnapshot \/ Cleanup \/ Compact
  PROVE  NumberInv'
<1>1. UNCHANGED <<status, todo, walNumber, pc, inflight>> /\ walFiles' \subseteq walFiles
  <2>1. CASE \E r \in Rows : Write(r)
    BY <2>1, Zenon DEF Write, objects, start, flush
  <2>2. CASE TakeSnapshot
    BY <2>2, Zenon DEF TakeSnapshot, PersistChunk, PersistManifest, start, wal, flush
  <2>3. CASE Cleanup
    BY <2>3, Zenon DEF Cleanup, CleanupStart, CleanupDelete, CleanupEnd, objects, start, wal, flush
  <2>4. CASE Compact
    BY <2>4, Zenon DEF Compact, CompactReserve, CompactStamp, CompactPersist, objects, start, wal, flush
  <2> QED BY <2>1, <2>2, <2>3, <2>4, Zenon
<1>2. FileNumbers' \subseteq FileNumbers
  BY <1>1, Zenon DEF FileNumbers
<1> QED BY <1>1, <1>2, Zenon DEF NumberInv

LEMMA NumberStart ==
  ASSUME TypeInv, NumberInv, Crash \/ StartUp \/ ReplayDone
  PROVE  NumberInv'
<1>1. CASE Crash
  BY <1>1, Zenon DEF Crash, NumberInv
<1>2. CASE StartUp
  <2>1. status = "down" /\ status' = "replay" /\ UNCHANGED <<walFiles, pc, inflight>>
        /\ todo' = {n \in FileNumbers : n > LastWal} /\ walNumber' = LastWal + 1
    BY <1>2, Zenon DEF StartUp, objects, flush
  <2>2. FileNumbers' = FileNumbers
    BY <2>1, Zenon DEF FileNumbers
  <2>3. LastWal \in Nat /\ FileNumbers \subseteq Nat
    BY LastWalNat, Zenon DEF TypeInv, FileNumbers, WalFile
  <2>4. \A n \in FileNumbers : n < walNumber' \/ n \in todo'
    BY <2>1, <2>3
  <2>5. \A n \in todo' : n >= walNumber'
    BY <2>1, <2>3
  <2> QED BY <2>1, <2>2, <2>4, <2>5, Zenon DEF NumberInv
<1>3. CASE ReplayDone
  <2>1. status = "replay" /\ todo = {} /\ status' = "up" /\ UNCHANGED <<walFiles, pc, inflight, walNumber>>
    BY <1>3, Zenon DEF ReplayDone, objects, wal, flush
  <2>2. FileNumbers' = FileNumbers
    BY <2>1, Zenon DEF FileNumbers
  <2> QED BY <2>1, <2>2, Zenon DEF NumberInv
<1> QED BY <1>1, <1>2, <1>3, Zenon

LEMMA NumberReplay ==
  ASSUME TypeInv, NumberInv, NEW w \in walFiles, Replay(w)
  PROVE  NumberInv'
<1>1. /\ status = "replay" /\ UNCHANGED <<walFiles, status, pc, inflight>>
      /\ todo' = todo \ {w.num} /\ walNumber' = w.num + 1 /\ todo # {} /\ w.num = Lowest(todo)
  BY Zenon DEF Replay, objects, flush
<1>2. FileNumbers' = FileNumbers
  BY <1>1, Zenon DEF FileNumbers
<1>3. FileNumbers \subseteq Nat /\ todo \in SUBSET Nat /\ walNumber \in Nat
  BY Zenon DEF TypeInv, FileNumbers, WalFile
<1>4. w.num \in todo /\ \A n \in todo : w.num <= n
  BY <1>1, <1>3, LowestIs
<1>5. ASSUME NEW n \in FileNumbers PROVE n < walNumber' \/ n \in todo'
  <2>1. n \in Nat /\ w.num \in Nat /\ (n < walNumber \/ n \in todo) /\ w.num >= walNumber
    BY <1>1, <1>3, <1>4, Zenon DEF NumberInv
  <2> QED BY <1>1, <1>3, <1>4, <2>1
<1>6. ASSUME NEW n \in todo' PROVE n >= walNumber'
  <2>1. n \in Nat /\ w.num \in Nat /\ n # w.num /\ w.num <= n
    BY <1>1, <1>3, <1>4, Zenon
  <2> QED BY <1>1, <2>1
<1> QED BY <1>1, <1>2, <1>5, <1>6, Zenon DEF NumberInv

LEMMA TypeStep ==
  TypeInv /\ NumberInv /\ [Next]_vars => TypeInv' /\ NumberInv'
<1> SUFFICES ASSUME TypeInv, NumberInv, [Next]_vars PROVE TypeInv' /\ NumberInv'
  BY Zenon
<1>1. CASE \E r \in Rows : Write(r)
  BY <1>1, TypeWrite, NumberOthers, Zenon
<1>2. ASSUME NEW f \in Flushers, Flush(f) PROVE TypeInv' /\ NumberInv'
  BY <1>2, TypeFlushTake, TypeFlush, NumberFlush, Zenon DEF Flush
<1>3. CASE TakeSnapshot
  BY <1>3, TypeSnapshot, NumberOthers, Zenon
<1>4. CASE Cleanup
  BY <1>4, TypeCleanup, NumberOthers, Zenon
<1>5. CASE Compact
  BY <1>5, TypeCompact, NumberOthers, Zenon
<1>6. CASE Crash \/ StartUp \/ ReplayDone
  BY <1>6, TypeStart, NumberStart, Zenon
<1>7. ASSUME NEW w \in walFiles, Replay(w) PROVE TypeInv' /\ NumberInv'
  BY <1>7, TypeReplay, NumberReplay, Zenon
<1>8. CASE UNCHANGED vars
  <2>1. FileNumbers' = FileNumbers
    BY <1>8, Zenon DEF vars, FileNumbers
  <2> QED BY <1>8, <2>1, Zenon DEF vars, TypeInv, NumberInv
<1> QED BY <1>1, <1>2, <1>3, <1>4, <1>5, <1>6, <1>7, <1>8, Zenon DEF Next

LEMMA TypeAlways ==
  Spec => [](TypeInv /\ NumberInv)
BY TypeInit, NumberInit, TypeStep, PTL DEF Spec

(* The write path keeps its types, whatever flushes, forced flushes, abandoned
   PUTs, compactions and crashes come in between. *)
THEOREM WriteBufferTypeOK == Spec => []TypeOK
<1>1. TypeInv => TypeOK
  <2> SUFFICES ASSUME TypeInv PROVE TypeOK
    BY Zenon
  <2>1. \A g \in parquet : g.path \in Path /\ g.rows \subseteq Rows
    BY Zenon DEF TypeInv, ParquetFile
  <2>2. \A m \in manifests : m.seq \in Nat /\ m.wal \in Nat /\ m.paths \subseteq Path
    BY Zenon DEF TypeInv, Manifest
  <2>3. tracker.snap \in Nat /\ tracker.periods \in Seq(WalPeriod)
    BY Zenon DEF TypeInv, Tracker
  <2>4. \A i \in DOMAIN tracker.periods : tracker.periods[i] \in WalPeriod
    BY <2>3
  <2>5. task.phase \in {"none", "persist", "cleanup", "delete"}
    BY Zenon DEF TypeInv, TaskType
  <2>6. /\ \A f \in Flushers : pc[f] \in {"idle", "permit", "put", "notify", "giveup"}
        /\ \A f \in Flushers : inflight[f] = NoFile \/ inflight[f] \in WalFile
    BY Zenon DEF TypeInv, FlushStates
  <2> QED BY <2>1, <2>2, <2>3, <2>4, <2>5, <2>6, Zenon DEF TypeInv, TypeOK
<1> QED BY <1>1, TypeAlways, PTL

(* A flush never PUTs a WAL file under a number that is taken, not even after a
   start: the AlreadyExists that shuts the node down is another node's doing. *)
THEOREM WalNumbersFresh == Spec => []FreshNumber
<1>1. NumberInv => FreshNumber
  BY Zenon DEF NumberInv, FreshNumber
<1> QED BY <1>1, TypeAlways, PTL

-----------------------------------------------------------------------------
(* Durability                                                              *)

LEMMA DurableInit ==
  Init => DurableInv /\ DoomInv
<1> SUFFICES ASSUME Init PROVE DurableInv /\ DoomInv
  BY Zenon
<1>1. /\ walFiles = {} /\ parquet = {} /\ manifests = {} /\ status = "up" /\ walNumber = 1
      /\ tracker = NewTracker(0) /\ permit = TRUE /\ pc = [f \in Flushers |-> "idle"]
      /\ buffer = {} /\ snapshotting = {} /\ files = {} /\ task = NoTask /\ compaction = NoCompaction
      /\ compactions = 0 /\ acked = {}
  BY Zenon DEF Init
<1>2. /\ task.phase = "none" /\ task.doomed = {} /\ ~ Persisting
      /\ tracker.snap = 0 /\ Len(tracker.periods) = 0
      /\ \A f \in Flushers : pc[f] = "idle"
  BY <1>1, Zenon DEF NoTask, NewTracker, Persisting
<1>3. LastSnapshot = 0 /\ LastWal = 0 /\ ManifestPaths = {}
  <2>1. LastSnapshot = 0 /\ ManifestPaths = {}
    BY <1>1, Zenon DEF LastSnapshot, ManifestPaths
  <2> QED BY <1>1, <2>1, Zenon DEF LastWal
<1>4. Flying = {} /\ Begun = {} /\ FileNumbers = {} /\ Base = 0
  BY <1>1, <1>2, <1>3, Zenon DEF Flying, Begun, FileNumbers, Base
<1>5. Taken = 0
  BY <1>1, <1>2 DEF Taken
<1>6. CalmInv
  BY <1>1, Zenon DEF CalmInv
<1>7. FileInv
  <2>1. \A k : ~ (k \in LastWal + 1 .. walNumber - 1)
    BY <1>1, <1>3
  <2> QED BY <1>1, <1>4, <2>1, Zenon DEF FileInv
<1>8. ManifestInv
  BY <1>1, Zenon DEF ManifestInv
<1>9. SeqInv
  BY <1>1, <1>2, <1>3, <1>4 DEF SeqInv
<1>10. TrackInv
  <2>1. Settled(LastWal, Begun)
    BY <1>4, Zenon DEF Settled
  <2>2. \A i : ~ (i \in 1..Len(tracker.periods))
    BY <1>2
  <2> QED BY <1>1, <1>4, <1>5, <2>1, <2>2, Zenon DEF TrackInv
<1>11. TaskInv
  BY <1>1, <1>2, Zenon DEF TaskInv
<1>12. DataInv
  BY <1>1, <1>2, <1>3, Zenon DEF DataInv
<1>13. Durable /\ Queryable
  BY <1>1, Zenon DEF Durable, Queryable
<1>14. DoomInv
  BY <1>2, Zenon DEF DoomInv
<1> QED BY <1>6, <1>7, <1>8, <1>9, <1>10, <1>11, <1>12, <1>13, <1>14, Zenon DEF DurableInv

LEMMA DurableStep ==
  ASSUME DurableWhen, TypeInv, NumberInv, DurableInv, DoomInv, [Next]_vars
  PROVE  DurableInv' /\ DoomInv' /\ \A m \in manifests : \A n \in manifests' : n.seq = m.seq => n = m
<1>1. TypeInv' /\ NumberInv'
  BY TypeStep, Zenon
<1>2. DoomInv'
  BY DoomStep, Zenon
<1>3. CASE PersistManifest
  BY <1>2, <1>3, StepManifest, Zenon
<1>4. CASE ~ PersistManifest
  <2> SUFFICES DurableInv' /\ UNCHANGED manifests
    <3>1. \A m, n \in manifests : m.seq = n.seq => m = n
      BY Zenon DEF DurableInv, ManifestInv
    <3> QED BY <1>2, <3>1, Zenon
  <2>1. ~ Compact /\ \A f \in Flushers : ~ FlushAbandon(f) /\ ~ FlushGiveUp(f)
    BY NeverHappens, Zenon
  <2>2. CASE (\E r \in Rows : Write(r)) \/ UNCHANGED vars
    <3>1. UNCHANGED manifests
      BY <2>2, Zenon DEF Write, objects, vars
    <3> QED BY <2>2, <3>1, StepWrite, Zenon
  <2>3. ASSUME NEW f \in Flushers, Flush(f) PROVE DurableInv' /\ UNCHANGED manifests
    <3>1. UNCHANGED manifests
      BY <2>1, <2>3, Zenon DEF Flush, FlushTake, FlushPermit, FlushPut, FlushNotify, objects
    <3>2. DurableInv'
      BY <1>1, <2>1, <2>3, StepTake, StepPermit, StepPut, StepNotify, Zenon DEF Flush
    <3> QED BY <3>1, <3>2, Zenon
  <2>4. ASSUME NEW c \in task.jobs, PersistChunk(c) PROVE DurableInv' /\ UNCHANGED manifests
    <3>1. UNCHANGED manifests
      BY <2>4, Zenon DEF PersistChunk
    <3> QED BY <2>4, <3>1, StepChunk, Zenon
  <2>5. CASE Cleanup
    <3>1. UNCHANGED manifests
      BY <2>5, Zenon DEF Cleanup, CleanupStart, CleanupDelete, CleanupEnd, objects
    <3> QED BY <2>5, <3>1, StepCleanupStart, StepCleanupDelete, StepCleanupEnd, Zenon DEF Cleanup
  <2>6. CASE Crash \/ StartUp \/ ReplayDone
    <3>1. UNCHANGED manifests
      BY <2>6, Zenon DEF Crash, StartUp, ReplayDone, objects
    <3> QED BY <2>6, <3>1, StepCrash, StepStartUp, StepReplayDone, Zenon
  <2>7. ASSUME NEW w \in walFiles, Replay(w) PROVE DurableInv' /\ UNCHANGED manifests
    <3>1. UNCHANGED manifests
      BY <2>7, Zenon DEF Replay, objects
    <3> QED BY <2>7, <3>1, StepReplay, Zenon
  <2> QED BY <1>4, <2>1, <2>2, <2>3, <2>4, <2>5, <2>6, <2>7, Zenon DEF Next, TakeSnapshot
<1> QED BY <1>3, <1>4, Zenon

LEMMA DurableAlways ==
  ASSUME DurableWhen
  PROVE  Spec => [](TypeInv /\ NumberInv /\ DurableInv /\ DoomInv)
<1>1. TypeInv /\ NumberInv /\ DurableInv /\ DoomInv /\ [Next]_vars => DurableInv' /\ DoomInv'
  BY DurableStep, Zenon
<1> QED BY <1>1, TypeInit, NumberInit, TypeStep, DurableInit, PTL DEF Spec

(* A write that returned Ok survives: at any crash, the manifests' files and
   the WAL files a start replays hold the row, whether the crash falls between
   a flush's PUT and its answer, among the persist jobs, before or after the
   manifest, during the removal of WAL files or in a replay that repeats a
   snapshot. *)
THEOREM AckedRowsDurable ==
  ASSUME DurableWhen
  PROVE  Spec => []Durable
<1>1. DurableInv => Durable
  BY Zenon DEF DurableInv
<1> QED BY <1>1, DurableAlways, PTL

(* And a running node serves it: no snapshot loses a row between the chunk it
   freezes, the Parquet file it writes and the file list it adds that file to,
   and a replay brings back every row the start did not find in a manifest. *)
THEOREM AckedRowsQueryable ==
  ASSUME DurableWhen
  PROVE  Spec => []Queryable
<1>1. DurableInv => Queryable
  BY Zenon DEF DurableInv
<1> QED BY <1>1, DurableAlways, PTL

(* No manifest is replaced by a different one under its number: a snapshot that
   a replay repeats has the number it had before only if no manifest has it. *)
THEOREM SnapshotManifestsKept ==
  ASSUME DurableWhen
  PROVE  Spec => ManifestsKept
<1>1. TypeInv /\ NumberInv /\ DurableInv /\ DoomInv /\ [Next]_vars
        => [\A m \in manifests : \A n \in manifests' : n.seq = m.seq => n = m]_vars
  BY DurableStep, Zenon
<1> QED BY <1>1, DurableAlways, PTL DEF Spec, ManifestsKept
=============================================================================
