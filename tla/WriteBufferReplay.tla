------------------------- MODULE WriteBufferReplay --------------------------
(***************************************************************************)
(* A snapshot, its cleanup, a crash, a start and a replay keep DurableInv: *)
(* a replay decides what the flushes decided, and one lemma for each of the*)
(* actions.                                                                *)
(***************************************************************************)
EXTENDS WriteBufferFlush

-----------------------------------------------------------------------------
(* A snapshot                                                              *)

LEMMA DoomStep ==
  ASSUME TypeInv, DoomInv, [Next]_vars
  PROVE  DoomInv'
<1>1. CASE UNCHANGED task
  BY <1>1, Zenon DEF DoomInv
<1>2. CASE task' = NoTask
  BY <1>2, Zenon DEF DoomInv, NoTask
<1>3. ASSUME NEW rows, NEW d, NEW c, NotifyAndSnapshot(rows, d, c) PROVE DoomInv'
  BY <1>3, Zenon DEF NotifyAndSnapshot, DoomInv, NoTask
<1>4. ASSUME NEW f \in Flushers, Flush(f) PROVE DoomInv'
  BY <1>1, <1>3, <1>4, Zenon DEF Flush, FlushTake, FlushPermit, FlushPut, FlushAbandon, FlushGiveUp,
       FlushNotify
<1>5. ASSUME NEW c \in task.jobs, PersistChunk(c) PROVE DoomInv'
  BY <1>5, Zenon DEF PersistChunk, TypeInv, TaskType, DoomInv
<1>6. CASE PersistManifest
  <2>1. CASE task.cleanup = {}
    BY <1>2, <1>6, <2>1, Zenon DEF PersistManifest
  <2>2. CASE task.cleanup # {}
    BY <1>6, <2>2, Zenon DEF PersistManifest, TypeInv, TaskType, DoomInv
  <2> QED BY <2>1, <2>2, Zenon
<1>7. CASE CleanupStart
  <2>1. PICK d \in task.cleanup : task' = [task EXCEPT !.phase = "delete", !.doomed = FirstWal..(d.last - Keep - 1)]
    BY <1>7, Zenon DEF CleanupStart
  <2>2. FirstWal \in Nat
    BY Zenon DEF FirstWal, TypeInv
  <2>3. d.last - Keep - 1 \in Int
    BY KeepAssumption DEF TypeInv, TaskType, SnapshotDetails
  <2>4. FirstWal..(d.last - Keep - 1) \subseteq Nat
    BY <2>2, <2>3
  <2>5. task'.phase = "delete" /\ task'.doomed = FirstWal..(d.last - Keep - 1)
    BY <2>1, Zenon DEF TypeInv, TaskType
  <2> QED BY <2>4, <2>5, Zenon DEF DoomInv
<1>8. CASE CleanupDelete
  BY <1>8, Zenon DEF CleanupDelete, TypeInv, TaskType, DoomInv
<1>9. CASE CleanupEnd
  BY <1>2, <1>9, Zenon DEF CleanupEnd
<1>10. ASSUME NEW w \in walFiles, Replay(w) PROVE DoomInv'
  <2>1. CASE w.snap = {} /\ UNCHANGED task
    BY <1>1, <2>1, Zenon
  <2>2. ASSUME NEW d \in w.snap, NEW s, d.seq <= highWater,
               task' = IF s.details = {} THEN NoTask ELSE [NoTask EXCEPT !.phase = "cleanup", !.cleanup = s.details]
        PROVE  DoomInv'
    BY <2>2, Zenon DEF DoomInv, NoTask
  <2> QED BY <1>3, <1>10, <2>1, <2>2, Zenon DEF Replay
<1> QED BY <1>1, <1>2, <1>4, <1>5, <1>6, <1>7, <1>8, <1>9, <1>10, Zenon
   DEF Next, TakeSnapshot, Cleanup, Compact, Write, CompactReserve, CompactStamp, CompactPersist, Crash,
       StartUp, ReplayDone, vars

LEMMA ManifestAdded ==
  ASSUME NEW M \in SUBSET Manifest, NEW b \in Nat, \A m \in M : m.seq <= b,
         NEW m \in Manifest, m.seq = SeqOf(M) + 1
  PROVE  /\ {n \in M : n.seq # m.seq} \cup {m} = M \cup {m}
         /\ SeqOf(M \cup {m}) = m.seq /\ WalOf(M \cup {m}) = m.wal
         /\ \A n \in M : n.seq # m.seq
<1>0. \A n \in M \cup {m} : n.seq \in Nat
  BY Zenon DEF Manifest
<1>1. \A n \in M : n.seq <= SeqOf(M) /\ SeqOf(M) \in Nat
  <2>1. CASE M = {}
    BY <2>1, Zenon
  <2>2. CASE M # {}
    <3> DEFINE S == {n.seq : n \in M}
    <3>1. S \in SUBSET Int /\ S # {} /\ b \in Int /\ \A x \in S : x <= b
      BY <1>0, <2>2
    <3>2. SeqOf(M) = Highest(S)
      BY <2>2, Zenon DEF SeqOf
    <3> HIDE DEF S
    <3>3. Highest(S) \in S /\ \A x \in S : x <= Highest(S)
      BY <3>1, HighestIs, Zenon
    <3> QED BY <1>0, <3>2, <3>3, Zenon DEF S
  <2> QED BY <2>1, <2>2, Zenon
<1>2. \A n \in M : n.seq < m.seq
  BY <1>0, <1>1
<1>3. {n \in M : n.seq # m.seq} \cup {m} = M \cup {m} /\ \A n \in M : n.seq # m.seq
  BY <1>0, <1>2
<1>4. SeqOf(M \cup {m}) = m.seq
  <2> DEFINE S == {n.seq : n \in M \cup {m}}
  <2>1. S \in SUBSET Int /\ S # {} /\ m.seq \in Int /\ m.seq \in S /\ \A x \in S : x <= m.seq
    BY <1>0, <1>2
  <2>2. SeqOf(M \cup {m}) = Highest(S)
    BY Zenon DEF SeqOf
  <2> HIDE DEF S
  <2>3. Highest(S) \in S /\ \A x \in S : x <= Highest(S)
    BY <2>1, HighestIs, Zenon
  <2>4. Highest(S) \in Int /\ Highest(S) <= m.seq /\ m.seq <= Highest(S)
    BY <2>1, <2>3, Zenon
  <2> QED BY <2>1, <2>2, <2>4
<1>5. WalOf(M \cup {m}) = m.wal
  <2>1. {n \in M \cup {m} : n.seq = SeqOf(M \cup {m})} = {m}
    BY <1>3, <1>4, Zenon
  <2>2. (CHOOSE n \in {m} : TRUE) = m
    BY Zenon
  <2> QED BY <2>1, <2>2, Zenon DEF WalOf
<1> QED BY <1>3, <1>4, <1>5, Zenon

LEMMA PutRows ==
  ASSUME NEW path, NEW rows, parquet' = PutParquet(path, rows), NEW P, path \notin P
  PROVE  /\ UNION {f.rows : f \in {g \in parquet' : g.path \in P}} = RowsAt(P)
         /\ RowsAt(P) \cup rows \subseteq UNION {f.rows : f \in {g \in parquet' : g.path \in P \cup {path}}}
<1>1. \A f : f \in parquet' <=> (f \in parquet /\ f.path # path) \/ f = [path |-> path, rows |-> rows]
  BY Zenon DEF PutParquet
<1>2. [path |-> path, rows |-> rows].path = path /\ [path |-> path, rows |-> rows].rows = rows
  BY Zenon
<1>3. {g \in parquet' : g.path \in P} = {g \in parquet : g.path \in P}
  BY <1>1, <1>2, Zenon
<1>4. {g \in parquet : g.path \in P} \cup {[path |-> path, rows |-> rows]} \subseteq {g \in parquet' : g.path \in P \cup {path}}
  BY <1>1, <1>2, Zenon
<1> QED BY <1>2, <1>3, <1>4, ZenonT(30) DEF RowsAt

LEMMA StepChunk ==
  ASSUME TypeInv, NumberInv, DurableInv, NEW c \in task.jobs, PersistChunk(c)
  PROVE  DurableInv'
<1>1. /\ UNCHANGED <<walFiles, manifests, status, todo, highWater, pending, walNumber, tracker, permit, pc, inflight,
                     buffer, compaction, compactions, acked>>
      /\ status # "down" /\ task.phase = "persist"
  BY Zenon DEF PersistChunk, Running, start, wal, flush, record
<1>2. Persisting
  BY <1>1, Zenon DEF Persisting
<1>3. PICK d \in task.details :
        /\ task.details = {d} /\ \E w \in walFiles : w \notin Flying /\ d \in w.snap /\ w.num < walNumber
        /\ Unfinished(d)
        /\ \E e \in task.cleanup : task.cleanup = {e} /\ e.last = d.last
        /\ \A p \in task.paths : p[2] = d.last /\ p[1] \notin task.jobs
  BY <1>2, Zenon DEF DurableInv, TaskInv
<1>4. PICK path, rows :
        /\ path = <<c, d.last>> /\ rows = {r \in snapshotting : RowChunk(r) = c}
        /\ parquet' = PutParquet(path, rows) /\ files' = files \cup {path} /\ snapshotting' = snapshotting \ rows
        /\ task' = [task EXCEPT !.jobs = @ \ {c}, !.paths = @ \cup {path}]
  BY <1>3, Zenon DEF PersistChunk
<1>5. /\ task'.phase = "persist" /\ task'.details = {d} /\ task'.jobs = task.jobs \ {c}
      /\ task'.paths = task.paths \cup {path} /\ task'.cleanup = task.cleanup
  BY <1>1, <1>3, <1>4, Zenon DEF TypeInv, TaskType
<1>6. path[1] = c /\ path[2] = d.last
  BY <1>4, Zenon
<1>7. Persisting' /\ Base' = Base /\ Base = d.last
  BY <1>2, <1>3, <1>5, Zenon DEF Persisting, Base
<1>8. LastWal' = LastWal /\ LastSnapshot' = LastSnapshot /\ ManifestPaths' = ManifestPaths
  BY <1>1, SameManifests, Zenon
<1>9. Flying' = Flying
  BY <1>1, Zenon DEF Flying
<1>10. Begun' = Begun /\ FileNumbers' = FileNumbers /\ Taken' = Taken
  BY <1>1, <1>9, Zenon DEF Begun, FileNumbers, Taken
<1>11. d.last \in Nat /\ LastWal \in Nat /\ d.last > LastWal
  <2>1. d.last \in Nat
    BY <1>3, Numbers, Zenon DEF Begun
  <2> QED BY <1>3, <2>1, Numbers, Zenon DEF Unfinished
<1>12. path \notin task.paths
  BY <1>3, <1>6, Zenon
<1>13. path \notin ManifestPaths
  <2>1. \A p \in ManifestPaths : p[2] <= LastWal
    BY Zenon DEF DurableInv, ManifestInv, ManifestPaths
  <2> QED BY <1>6, <1>11, <2>1
<1>14. path \notin files
  <2>1. \A p \in files : p[2] <= LastWal \/ p \in task.paths
    BY <1>1, Zenon DEF DurableInv, DataInv
  <2> QED BY <1>6, <1>11, <1>12, <2>1
<1>15. Stored' = Stored
  <2>1. Stored' = UNION {f.rows : f \in {g \in parquet' : g.path \in ManifestPaths}}
    BY <1>8, Zenon DEF Stored, RowsAt
  <2>2. UNION {f.rows : f \in {g \in parquet' : g.path \in ManifestPaths}} = RowsAt(ManifestPaths)
    BY <1>4, <1>13, PutRows, Zenon
  <2> QED BY <2>1, <2>2, Zenon DEF Stored
<1>16. Written \cup rows \subseteq Written'
  <2>1. Written = RowsAt(task.paths)
    BY <1>2, Zenon DEF Written
  <2>2. Written' = UNION {f.rows : f \in {g \in parquet' : g.path \in task.paths \cup {path}}}
    BY <1>5, <1>7, Zenon DEF Written, RowsAt
  <2> QED BY <1>4, <1>12, <2>1, <2>2, PutRows
<1>17. RowsAt(files) \cup rows \subseteq UNION {f.rows : f \in {g \in parquet' : g.path \in files'}}
  BY <1>4, <1>14, PutRows
<1>18. snapshotting \subseteq snapshotting' \cup rows
  BY <1>4, Zenon
<1>19. CalmInv' /\ ManifestInv'
  BY <1>1, <1>8, Zenon DEF DurableInv, CalmInv, ManifestInv
<1>20. FileInv'
  BY <1>1, <1>8, <1>9, <1>10, Zenon DEF DurableInv, FileInv
<1>21. SeqInv'
  <2>1. task'.details = task.details
    BY <1>3, <1>5, Zenon
  <2>2. Persisting' = Persisting
    BY <1>2, <1>7
  <2> QED BY <1>1, <1>8, <1>9, <2>1, <2>2, Zenon DEF DurableInv, SeqInv, Unfinished
<1>22. TrackInv'
  BY <1>1, <1>7, <1>8, <1>9, <1>10, Zenon DEF DurableInv, TrackInv, Unfinished
<1>23. TaskInv'
  <2>1. \A p \in task'.paths : p[2] = d.last /\ p[1] \notin task'.jobs
    BY <1>3, <1>5, <1>6, Zenon
  <2>2. ~ permit /\ \A f \in Flushers : /\ ~ (pc[f] \in {"put", "notify"} /\ inflight[f].snap # {})
                                        /\ pc[f] = "permit" => inflight[f].snap # {}
                                        /\ pc[f] = "notify" => inflight[f] \in walFiles
    BY <1>1, Zenon DEF DurableInv, TaskInv
  <2>3. \E w \in walFiles' : w \notin Flying' /\ d \in w.snap /\ w.num < walNumber'
    BY <1>1, <1>3, <1>9, Zenon
  <2>4. Unfinished(d)' /\ \E e \in task'.cleanup : task'.cleanup = {e} /\ e.last = d.last
    BY <1>3, <1>5, <1>8, Zenon DEF Unfinished
  <2>5. task'.details = {d} /\ d \in task'.details /\ task'.phase = "persist"
    BY <1>5, Zenon
  <2> QED BY <1>1, <2>1, <2>2, <2>3, <2>4, <2>5, Zenon DEF TaskInv, Unfinished
<1>24. DataInv'
  <2>1. snapshotting' \subseteq {r \in Rows : Persisting' /\ RowChunk(r) \in task'.jobs}
    <3>1. snapshotting \subseteq {r \in Rows : RowChunk(r) \in task.jobs}
      BY Zenon DEF DurableInv, DataInv
    <3> QED BY <1>4, <1>5, <1>7, <3>1, Zenon
  <2>2. /\ ManifestPaths \subseteq files
        /\ \A p \in files : p[2] <= LastWal \/ p \in task.paths
        /\ task.paths \subseteq files
        /\ \A w \in walFiles \ Flying : LastWal < w.num /\ w.num < walNumber =>
             w.rows \subseteq buffer \cup snapshotting \cup Written \cup Stored
        /\ \A w \in walFiles : LastWal < w.num /\ w.num <= Base =>
             w.rows \subseteq snapshotting \cup Written \cup Stored
    BY <1>1, <1>2, Zenon DEF DurableInv, DataInv
  <2>3. /\ ManifestPaths' \subseteq files' /\ task'.paths \subseteq files'
        /\ \A p \in files' : p[2] <= LastWal' \/ p \in task'.paths
    BY <1>4, <1>5, <1>8, <2>2, Zenon
  <2>4. ASSUME NEW w \in walFiles' \ Flying', LastWal' < w.num, w.num < walNumber'
        PROVE  w.rows \subseteq buffer' \cup snapshotting' \cup Written' \cup Stored'
    <3>1. w.rows \subseteq buffer \cup snapshotting \cup Written \cup Stored
      BY <1>1, <1>8, <1>9, <2>2, <2>4, Zenon
    <3> QED BY <1>1, <1>15, <1>16, <1>18, <3>1, Zenon
  <2>5. ASSUME NEW w \in walFiles', LastWal' < w.num, w.num <= Base'
        PROVE  w.rows \subseteq snapshotting' \cup Written' \cup Stored'
    <3>1. w.rows \subseteq snapshotting \cup Written \cup Stored
      BY <1>1, <1>7, <1>8, <2>2, <2>5, Zenon
    <3> QED BY <1>15, <1>16, <1>18, <3>1, Zenon
  <2> QED BY <1>7, <2>1, <2>3, <2>4, <2>5, Zenon DEF DataInv, RowChunk
<1>25. Durable'
  <2>1. Recoverable' = Recoverable
    BY <1>1, <1>8, <1>15, Zenon DEF Recoverable, Stored, ManifestPaths
  <2> QED BY <1>1, <2>1, Zenon DEF DurableInv, Durable
<1>26. Queryable'
  BY <1>1, <1>17, <1>18, Zenon DEF DurableInv, Queryable, RowsAt
<1> QED BY <1>19, <1>20, <1>21, <1>22, <1>23, <1>24, <1>25, <1>26, Zenon DEF DurableInv

LEMMA StepManifest ==
  ASSUME TypeInv, NumberInv, DurableInv, DoomInv, PersistManifest
  PROVE  DurableInv' /\ \A m \in manifests : \A n \in manifests' : n.seq = m.seq => n = m
<1>1. /\ UNCHANGED <<walFiles, parquet, status, todo, highWater, pending, walNumber, tracker, permit, pc, inflight,
                     buffer, snapshotting, files, compaction, compactions, acked>>
      /\ status # "down" /\ task.phase = "persist" /\ task.jobs = {}
  BY Zenon DEF PersistManifest, Running, start, wal, flush, queryable, record
<1>2. Persisting
  BY <1>1, Zenon DEF Persisting
<1>3. PICK d \in task.details :
        /\ task.details = {d} /\ \E w \in walFiles : w \notin Flying /\ d \in w.snap /\ w.num < walNumber
        /\ Unfinished(d)
        /\ \E e \in task.cleanup : task.cleanup = {e} /\ e.last = d.last
        /\ \A p \in task.paths : p[2] = d.last /\ p[1] \notin task.jobs
  BY <1>2, Zenon DEF DurableInv, TaskInv
<1>4. PICK v \in walFiles : v \notin Flying /\ d \in v.snap /\ v.num < walNumber
  BY <1>3, Zenon
<1>5. /\ d.last \in Nat /\ d.seq \in Nat /\ LastWal \in Nat /\ LastSnapshot \in Nat /\ d.last > LastWal
      /\ v.num \in Nat /\ walNumber \in Nat
  <2>1. d.last \in Nat /\ d.seq \in Nat /\ v.num \in Nat
    BY <1>4, Numbers, Zenon DEF Begun
  <2> QED BY <1>3, <2>1, Numbers, Zenon DEF Unfinished
<1>6. v.num > LastWal
  <2>1. Made(v, d, LastWal, walFiles)
    BY <1>3, <1>4, Zenon DEF DurableInv, TrackInv
  <2>2. d.last <= v.num
    BY <2>1, Zenon DEF Made
  <2> QED BY <1>5, <2>2
<1>7. d.seq = LastSnapshot + 1
  BY <1>3, <1>4, <1>6, Zenon DEF DurableInv, SeqInv
<1>8. PICK m : m = [seq |-> d.seq, wal |-> d.last, paths |-> task.paths]
  BY Zenon
<1>9. m.seq = d.seq /\ m.wal = d.last /\ m.paths = task.paths /\ m \in Manifest
  BY <1>5, <1>8, Zenon DEF TypeInv, TaskType, Manifest
<1>10. manifests' = {n \in manifests : n.seq # m.seq} \cup {m}
  BY <1>3, <1>8, Zenon DEF PersistManifest, PutManifest
<1>11. /\ manifests' = manifests \cup {m} /\ LastSnapshot' = d.seq /\ LastWal' = d.last
       /\ \A n \in manifests : n.seq # m.seq
  <2>1. PICK b \in Nat : \A n \in manifests : n.seq <= b
    BY Zenon DEF TypeInv
  <2>2. LastSnapshot = SeqOf(manifests)
    BY Zenon DEF LastSnapshot, SeqOf
  <2>3. manifests \in SUBSET Manifest /\ m.seq = SeqOf(manifests) + 1
    BY <1>7, <1>9, <2>2, Zenon DEF TypeInv
  <2>4. /\ manifests' = manifests \cup {m}
        /\ SeqOf(manifests \cup {m}) = m.seq /\ WalOf(manifests \cup {m}) = m.wal
        /\ \A n \in manifests : n.seq # m.seq
    BY <1>9, <1>10, <2>1, <2>3, ManifestAdded, Zenon
  <2>5. LastSnapshot' = SeqOf(manifests')
    BY Zenon DEF LastSnapshot, SeqOf
  <2>6. LastWal' = WalOf(manifests')
    BY <2>5 DEF LastWal, WalOf
  <2> QED BY <1>9, <2>4, <2>5, <2>6, Zenon
<1>12. ManifestPaths' = ManifestPaths \cup task.paths
  BY <1>9, <1>11, Zenon DEF ManifestPaths
<1>13. task'.phase = "cleanup" /\ task'.cleanup = task.cleanup /\ task'.doomed = {}
  <2>1. task.cleanup # {} /\ task.doomed = {}
    BY <1>1, <1>3, Zenon DEF DoomInv
  <2> QED BY <2>1, Zenon DEF PersistManifest, TypeInv, TaskType
<1>14. ~ Persisting' /\ Base' = d.last /\ Base = d.last
  BY <1>2, <1>3, <1>11, <1>13, Zenon DEF Persisting, Base
<1>15. Flying' = Flying
  BY <1>1, Zenon DEF Flying
<1>16. Begun' = Begun /\ FileNumbers' = FileNumbers /\ Taken' = Taken
  BY <1>1, <1>15, Zenon DEF Begun, FileNumbers, Taken
<1>17. snapshotting = {}
  BY <1>1, Zenon DEF DurableInv, DataInv
<1>18. ASSUME NEW w \in walFiles, NEW e \in w.snap, Unfinished(e) PROVE w = v /\ e = d
  <2>1. w = v
    BY <1>3, <1>4, <1>18, Zenon DEF DurableInv, SeqInv
  <2> QED BY <1>4, <2>1, Zenon DEF DurableInv, FileInv, Begun
<1>19. ASSUME NEW w \in Begun, NEW e \in w.snap, e.last > d.last PROVE Unfinished(e) /\ w \notin walFiles
  <2>1. e.last \in Nat
    BY Numbers, Zenon
  <2>2. Unfinished(e)
    BY <1>5, <1>19, <2>1 DEF Unfinished
  <2> QED BY <1>5, <1>18, <1>19, <2>2
<1>20. CalmInv'
  BY <1>1, Zenon DEF DurableInv, CalmInv
<1>21. ManifestInv' /\ \A k \in manifests : \A n \in manifests' : n.seq = k.seq => n = k
  <2>1. ASSUME NEW k \in manifests, NEW n \in manifests, n.seq = k.seq PROVE n = k
    BY <2>1, Zenon DEF DurableInv, ManifestInv
  <2>2. \A n \in manifests : \A p \in n.paths : p[2] <= d.last
    <3>1. \A n \in manifests : \A p \in n.paths : p \in Path /\ p[2] \in Nat
      BY Zenon DEF TypeInv, Manifest, Path
    <3>2. \A n \in manifests : \A p \in n.paths : p[2] <= LastWal
      BY Zenon DEF DurableInv, ManifestInv
    <3> QED BY <1>5, <3>1, <3>2
  <2>3. \A p \in m.paths : p[2] <= d.last
    BY <1>3, <1>5, <1>9
  <2> QED BY <1>11, <2>1, <2>2, <2>3, Zenon DEF ManifestInv
<1>22. FileInv'
  <2>1. \A w \in Flying : w.num > d.last /\ w.num = walNumber - 1
    BY <1>1, <1>14, Zenon DEF DurableInv, FileInv, TrackInv
  <2>2. ASSUME NEW n \in FileNumbers, NEW k \in d.last + 1 .. n - 1 PROVE k \in FileNumbers
    <3>1. n \in Nat
      BY Numbers, Zenon
    <3>2. k \in LastWal + 1 .. n - 1
      BY <1>5, <2>2, <3>1
    <3> QED BY <3>2, Zenon DEF DurableInv, FileInv
  <2>3. ASSUME NEW k \in d.last + 1 .. walNumber - 1 PROVE \E w \in Begun : w.num = k
    <3>1. k \in LastWal + 1 .. walNumber - 1
      BY <1>5, <2>3
    <3> QED BY <1>1, <3>1, Zenon DEF DurableInv, FileInv
  <2> QED BY <1>1, <1>11, <1>15, <1>16, <2>1, <2>2, <2>3, Zenon DEF DurableInv, FileInv
<1>23. SeqInv'
  <2>1. ASSUME NEW w \in walFiles, NEW e \in w.snap PROVE ~ Unfinished(e)'
    BY <1>11, <1>19, Zenon DEF Begun, Unfinished
  <2>2. ASSUME NEW w \in walFiles, NEW e \in w.snap, w.num > d.last PROVE e.seq <= d.seq
    <3>1. e.seq \in Nat /\ w.num \in Nat
      BY Numbers, Zenon DEF Begun
    <3>2. w.num > LastWal
      BY <1>5, <2>2, <3>1
    <3>3. e.seq = LastSnapshot + 1 \/ e.seq <= LastSnapshot
      BY <3>2, Zenon DEF DurableInv, SeqInv
    <3> QED BY <1>5, <1>7, <3>1, <3>3
  <2>3. /\ (\A w \in Flying : w.snap = {}) => tracker.snap = d.seq
        /\ \A w \in Flying : \A e \in w.snap : e.seq = d.seq + 1 /\ tracker.snap = e.seq
    BY <1>1, <1>2, <1>7, Zenon DEF DurableInv, SeqInv
  <2>4. ASSUME status = "replay", NEW w \in walFiles, NEW e \in w.snap, w.num \in todo PROVE e.seq <= highWater
    <3>1. w # v
      <4>1. w.num >= walNumber
        BY <2>4, Zenon DEF NumberInv
      <4> QED BY <1>4, <1>5, <4>1
    <3>2. ~ Unfinished(e)
      BY <1>18, <3>1, Zenon
    <3> QED BY <2>4, <3>2, Zenon DEF DurableInv, SeqInv
  <2>5. d.seq + 0 = d.seq /\ d.seq + 0 + 1 = d.seq + 1
    BY <1>5
  <2> QED BY <1>1, <1>11, <1>14, <1>15, <2>1, <2>2, <2>3, <2>4, <2>5, Zenon DEF SeqInv
<1>24. TrackInv'
  <2>1. Settled(d.last, Begun)
    BY <1>3, <1>4, Zenon DEF DurableInv, TrackInv, Begun
  <2>2. ASSUME NEW w \in Begun, NEW e \in w.snap, e.last > d.last PROVE Settled(e.last, Begun)
    BY <1>19, <2>2, Zenon DEF DurableInv, TrackInv
  <2>3. \A w \in walFiles : \A e \in w.snap : ~ (e.last > d.last)
    BY <1>19, Zenon DEF Begun
  <2> QED BY <1>1, <1>11, <1>14, <1>15, <1>16, <2>1, <2>2, <2>3, Zenon DEF DurableInv, TrackInv, Unfinished
<1>25. TaskInv'
  <2>1. \A e \in task'.cleanup : e.last <= LastWal'
    BY <1>3, <1>5, <1>11, <1>13
  <2>2. ~ permit /\ \A f \in Flushers : /\ ~ (pc[f] \in {"put", "notify"} /\ inflight[f].snap # {})
                                        /\ pc[f] = "permit" => inflight[f].snap # {}
                                        /\ pc[f] = "notify" => inflight[f] \in walFiles
    BY <1>1, Zenon DEF DurableInv, TaskInv
  <2> QED BY <1>1, <1>13, <1>14, <2>1, <2>2, Zenon DEF TaskInv
<1>26. Written = RowsAt(task.paths) /\ Written' = {} /\ Stored' = Stored \cup Written
  <2>1. Written = RowsAt(task.paths) /\ Written' = {}
    BY <1>2, <1>14, Zenon DEF Written
  <2> QED BY <1>1, <1>12, <2>1, Zenon DEF Stored, RowsAt
<1>27. /\ ManifestPaths \subseteq files
       /\ \A p \in files : p[2] <= LastWal \/ p \in task.paths
       /\ task.paths \subseteq files
       /\ \A w \in walFiles \ Flying : LastWal < w.num /\ w.num < walNumber =>
            w.rows \subseteq buffer \cup snapshotting \cup Written \cup Stored
       /\ \A w \in walFiles : LastWal < w.num /\ w.num <= Base =>
            w.rows \subseteq snapshotting \cup Written \cup Stored
  BY <1>1, <1>2, Zenon DEF DurableInv, DataInv
<1>28. \A w \in walFiles : w.num \in Nat
  BY Numbers, Zenon DEF Begun
<1>29. DataInv'
  <2>1. ASSUME NEW p \in files PROVE p[2] <= d.last
    <3>1. p[2] \in Nat
      BY Zenon DEF TypeInv, Path
    <3> QED BY <1>3, <1>5, <1>27, <3>1
  <2>2. ASSUME NEW w \in walFiles \ Flying, d.last < w.num, w.num < walNumber
        PROVE  w.rows \subseteq buffer \cup Stored'
    <3>1. LastWal < w.num
      BY <1>5, <1>28, <2>2
    <3> QED BY <1>17, <1>26, <1>27, <2>2, <3>1, Zenon
  <2> QED BY <1>1, <1>11, <1>12, <1>14, <1>15, <1>17, <1>27, <2>1, <2>2, Zenon DEF DataInv
<1>30. Durable'
  <2> SUFFICES ASSUME NEW r \in acked
               PROVE  r \in Stored' \/ \E w \in walFiles : w.num > d.last /\ r \in w.rows
    BY <1>1, <1>11, Zenon DEF Durable, Recoverable, Stored, ManifestPaths
  <2>1. r \in Stored \/ \E w \in walFiles : w.num > LastWal /\ r \in w.rows
    BY Zenon DEF DurableInv, Durable, Recoverable, Stored, ManifestPaths
  <2>2. ASSUME NEW w \in walFiles, w.num > LastWal, r \in w.rows, ~ (w.num > d.last) PROVE r \in Stored'
    <3>1. LastWal < w.num /\ w.num <= Base
      BY <1>5, <1>14, <1>28, <2>2
    <3> QED BY <1>17, <1>26, <1>27, <2>2, <3>1, Zenon
  <2> QED BY <1>26, <2>1, <2>2, Zenon
<1>31. Queryable'
  BY <1>1, Zenon DEF DurableInv, Queryable, RowsAt
<1> QED BY <1>20, <1>21, <1>22, <1>23, <1>24, <1>25, <1>29, <1>30, <1>31, Zenon DEF DurableInv

LEMMA Shrinks ==
  ASSUME NEW F, NEW G \in SUBSET F
  PROVE  /\ \A x : Settled(x, F) => Settled(x, G)
         /\ \A w, d, x : Made(w, d, x, F) => Made(w, d, x, G)
<1>1. \A x : Settled(x, F) => Settled(x, G)
  BY Zenon DEF Settled
<1>2. \A w, d, x : Made(w, d, x, F) => Made(w, d, x, G)
  <2> SUFFICES ASSUME NEW w, NEW d, NEW x, Made(w, d, x, F) PROVE Made(w, d, x, G)
    BY Zenon
  <2>1. CASE d.forced /\ d.last = w.num
    BY <2>1, Zenon DEF Made
  <2>2. CASE ~ (d.forced /\ d.last = w.num)
    <3>1. /\ ~ d.forced /\ d.marker = ChunkTime(w.max) /\ d.last < w.num
          /\ PeriodsToSnapshotAfter <= w.num - x /\ w.num - x < 3 * SnapshotSize
          /\ \A u \in F : x < u.num /\ u.num <= d.last => u.max < d.marker
          /\ \A u \in F : u.num = d.last + 1 => u.max >= d.marker
      BY <2>2, Zenon DEF Made
    <3> QED BY <3>1, Zenon DEF Made
  <2> QED BY <2>1, <2>2, Zenon
<1> QED BY <1>1, <1>2, Zenon

LEMMA TakenNext ==
  ASSUME TypeInv, NumberInv, DurableInv, status # "down"
  PROVE  LastWal < walNumber
<1>1. Taken < walNumber /\ Taken \in Int
  BY Numbers DEF Taken
<1>2. Base \in Nat /\ LastWal <= Base
  BY BaseIs, Zenon
<1>3. CASE \A w \in Flying : w.snap = {}
  <2>1. Taken = Base
    BY <1>3, Zenon DEF DurableInv, TrackInv
  <2> QED BY <1>1, <1>2, <2>1, Numbers
<1>4. CASE \E w \in Flying : w.snap # {}
  <2>1. PICK w \in Flying : TRUE
    BY <1>4, Zenon
  <2>2. w.num > LastWal /\ w.num = walNumber - 1
    BY <2>1, Zenon DEF DurableInv, FileInv
  <2> QED BY <2>2, Numbers
<1> QED BY <1>3, <1>4, Zenon

(* A clean-up removes files whose rows the manifests have. *)
LEMMA StepCleanupDelete ==
  ASSUME TypeInv, NumberInv, DurableInv, DoomInv, CleanupDelete
  PROVE  DurableInv'
<1>1. /\ UNCHANGED <<parquet, manifests, status, todo, highWater, pending, walNumber, tracker, permit, pc, inflight,
                     buffer, snapshotting, files, compaction, compactions, acked>>
      /\ status # "down" /\ task.phase = "delete" /\ task.doomed # {}
  BY Zenon DEF CleanupDelete, Running, start, wal, flush, queryable, record
<1>2. PICK n : n = Lowest(task.doomed)
  BY Zenon
<1>3. n \in task.doomed /\ n \in Nat
  BY <1>1, <1>2, LowestIs, Zenon DEF DoomInv
<1>4. walFiles' = {f \in walFiles : f.num # n} /\ task' = [task EXCEPT !.doomed = @ \ {n}]
  BY <1>2, Zenon DEF CleanupDelete
<1>5. /\ task'.phase = "delete" /\ task'.doomed = task.doomed \ {n} /\ task'.cleanup = task.cleanup
  BY <1>1, <1>4, Zenon DEF TypeInv, TaskType
<1>6. ~ Persisting /\ ~ Persisting'
  BY <1>1, <1>5, Zenon DEF Persisting
<1>7. LastWal' = LastWal /\ LastSnapshot' = LastSnapshot /\ ManifestPaths' = ManifestPaths
  BY <1>1, SameManifests, Zenon
<1>8. n < LastWal /\ n < walNumber /\ LastWal \in Nat
  <2>1. n < LastWal
    BY <1>1, <1>3, Zenon DEF DurableInv, TaskInv
  <2>2. LastWal < walNumber
    BY <1>1, TakenNext, Zenon
  <2> QED BY <1>3, <2>1, <2>2, Numbers
<1>9. Flying' = Flying
  BY <1>1, Zenon DEF Flying
<1>10. \A w \in Flying : w.num # n
  <2>1. \A w \in Flying : w.num > LastWal /\ w.num \in Nat
    BY Numbers, Zenon DEF DurableInv, FileInv
  <2> QED BY <1>3, <1>8, <2>1
<1>11. walFiles' \subseteq walFiles /\ Begun' \subseteq Begun /\ \A w \in Begun : w.num # n => w \in Begun'
  BY <1>4, <1>9, Zenon DEF Begun
<1>12. FileNumbers' = FileNumbers \ {n}
  BY <1>4, Zenon DEF FileNumbers
<1>13. Taken' = Taken /\ Base' = Base
  BY <1>1, <1>6, <1>7, Zenon DEF Taken, Base
<1>14. CalmInv' /\ ManifestInv'
  BY <1>1, <1>7, Zenon DEF DurableInv, CalmInv, ManifestInv
<1>15. FileInv'
  <2>1. ASSUME NEW m \in FileNumbers', NEW k \in LastWal + 1 .. m - 1 PROVE k \in FileNumbers'
    <3>1. k \in FileNumbers
      BY <1>12, <2>1, Zenon DEF DurableInv, FileInv
    <3>2. k # n
      BY <1>3, <1>8, <2>1
    <3> QED BY <1>12, <3>1, <3>2, Zenon
  <2>2. ASSUME NEW k \in LastWal + 1 .. walNumber - 1 PROVE \E w \in Begun' : w.num = k
    <3>1. PICK w \in Begun : w.num = k
      BY <1>1, <2>2, Zenon DEF DurableInv, FileInv
    <3>2. k # n
      BY <1>3, <1>8, <2>2
    <3> QED BY <1>11, <3>1, <3>2, Zenon
  <2>3. ~ (n >= walNumber)
    BY <1>3, <1>8, Numbers
  <2>4. status = "replay" => todo = {k \in FileNumbers' : k >= walNumber}
    <3>1. status = "replay" => todo = {k \in FileNumbers : k >= walNumber}
      BY Zenon DEF DurableInv, FileInv
    <3> QED BY <1>12, <2>3, <3>1, Zenon
  <2> QED BY <1>1, <1>7, <1>9, <1>11, <2>1, <2>2, <2>4, Zenon DEF DurableInv, FileInv
<1>16. SeqInv'
  BY <1>1, <1>6, <1>7, <1>9, <1>11, Zenon DEF DurableInv, SeqInv, Unfinished
<1>17. TrackInv'
  <2>1. \A x : Settled(x, Begun) => Settled(x, Begun')
    BY <1>11, Shrinks, Zenon
  <2>2. \A w, d, x : Made(w, d, x, Begun) => Made(w, d, x, Begun')
    BY <1>11, Shrinks, Zenon
  <2>3. \A w, d, x : Made(w, d, x, walFiles) => Made(w, d, x, walFiles')
    BY <1>11, Shrinks, Zenon
  <2>4. Settled(LastWal, Begun')
    BY <2>1, Zenon DEF DurableInv, TrackInv
  <2>5. \A w \in Begun' : \A d \in w.snap : Unfinished(d) => Settled(d.last, Begun')
    BY <1>11, <2>1, Zenon DEF DurableInv, TrackInv
  <2>6. \A w \in walFiles' : \A d \in w.snap : Unfinished(d) => Made(w, d, LastWal, walFiles')
    BY <1>11, <2>3, Zenon DEF DurableInv, TrackInv
  <2>7. /\ \A i \in 1..Len(tracker.periods) :
             /\ tracker.periods[i].wal = Taken + i
             /\ \A u \in Begun' : u.num = Taken + i => tracker.periods[i].max = u.max
        /\ (\A w \in Flying : w.snap = {}) => Taken = Base
        /\ \A w \in Flying : w.num > Base
        /\ \A w \in Flying : \A d \in w.snap : Taken = d.last /\ Made(w, d, Base, Begun')
    BY <1>1, <1>11, <2>2, Zenon DEF DurableInv, TrackInv
  <2> QED BY <1>1, <1>7, <1>9, <1>13, <2>4, <2>5, <2>6, <2>7, Zenon DEF TrackInv, Unfinished
<1>18. TaskInv'
  <2>1. /\ \A c \in task'.cleanup : c.last <= LastWal'
        /\ \A k \in task'.doomed : k < LastWal'
    BY <1>1, <1>5, <1>7, Zenon DEF DurableInv, TaskInv
  <2>2. ~ permit /\ \A f \in Flushers : /\ ~ (pc[f] \in {"put", "notify"} /\ inflight[f].snap # {})
                                        /\ pc[f] = "permit" => inflight[f].snap # {}
                                        /\ pc[f] = "notify" => inflight[f] \in walFiles
    BY <1>1, Zenon DEF DurableInv, TaskInv
  <2>3. ASSUME NEW f \in Flushers, pc[f] = "notify" PROVE inflight[f] \in walFiles'
    <3>1. inflight[f] \in Flying
      BY <2>3, Zenon DEF Flying
    <3> QED BY <1>4, <1>10, <2>2, <2>3, <3>1, Zenon
  <2> QED BY <1>1, <1>5, <1>6, <2>1, <2>2, <2>3, Zenon DEF TaskInv
<1>19. Stored' = Stored /\ Written' = Written
  BY <1>1, <1>6, <1>7, Zenon DEF Stored, RowsAt, Written
<1>20. DataInv'
  BY <1>1, <1>6, <1>7, <1>9, <1>11, <1>19, Zenon DEF DurableInv, DataInv
<1>21. Durable'
  <2>1. \A w \in walFiles : w.num > LastWal => w \in walFiles'
    <3>1. \A w \in walFiles : w.num \in Nat
      BY Numbers, Zenon DEF Begun
    <3> QED BY <1>3, <1>4, <1>8, <3>1
  <2>2. Recoverable \subseteq Recoverable'
    BY <1>1, <1>7, <1>19, <2>1, Zenon DEF Recoverable, Stored, ManifestPaths
  <2> QED BY <1>1, <2>2, Zenon DEF DurableInv, Durable
<1>22. Queryable'
  BY <1>1, Zenon DEF DurableInv, Queryable, RowsAt
<1> QED BY <1>14, <1>15, <1>16, <1>17, <1>18, <1>20, <1>21, <1>22, Zenon DEF DurableInv

-----------------------------------------------------------------------------
(* Crash and start                                                         *)

LEMMA StepCrash ==
  ASSUME TypeInv, NumberInv, DurableInv, Crash
  PROVE  DurableInv'
<1>1. /\ UNCHANGED <<walFiles, parquet, manifests, compactions, acked>>
      /\ status' = "down" /\ pending' = {} /\ permit' = TRUE /\ compaction' = NoCompaction
      /\ buffer' = {} /\ snapshotting' = {} /\ task' = NoTask
      /\ pc' = [f \in Flushers |-> "idle"]
  BY Zenon DEF Crash, objects
<1>2. \A f \in Flushers : pc'[f] = "idle"
  BY <1>1, Zenon
<1>3. Flying' = {} /\ task'.phase = "none" /\ ~ Persisting'
  BY <1>1, <1>2, Zenon DEF Flying, Persisting, NoTask
<1>4. Begun' = walFiles /\ walFiles \subseteq Begun /\ FileNumbers' = FileNumbers
  BY <1>1, <1>3, Zenon DEF Begun, FileNumbers
<1>5. LastWal' = LastWal /\ LastSnapshot' = LastSnapshot /\ ManifestPaths' = ManifestPaths
  BY <1>1, SameManifests, Zenon
<1>6. CalmInv' /\ ManifestInv'
  BY <1>1, <1>2, <1>5, Zenon DEF DurableInv, CalmInv, ManifestInv
<1>7. FileInv'
  BY <1>1, <1>3, <1>4, <1>5, Zenon DEF DurableInv, FileInv
<1>8. SeqInv'
  <2>1. /\ \A w \in walFiles : \A d \in w.snap : w.num > LastWal =>
             IF Unfinished(d) THEN d.seq = LastSnapshot + 1 ELSE d.seq <= LastSnapshot
        /\ \A u, w \in walFiles : \A d \in u.snap : \A e \in w.snap :
             Unfinished(d) /\ Unfinished(e) => u = w
    BY Zenon DEF DurableInv, SeqInv
  <2> QED BY <1>1, <1>5, <2>1 DEF SeqInv, Unfinished
<1>9. TrackInv'
  <2>1. \A x : Settled(x, Begun) => Settled(x, walFiles)
    BY <1>4, Shrinks, Zenon
  <2>2. /\ Settled(LastWal, walFiles)
        /\ \A w \in walFiles : \A d \in w.snap : Unfinished(d) => Settled(d.last, walFiles)
        /\ \A w \in walFiles : \A d \in w.snap : Unfinished(d) => Made(w, d, LastWal, walFiles)
    BY <1>4, <2>1, Zenon DEF DurableInv, TrackInv
  <2> QED BY <1>1, <1>4, <1>5, <2>2, Zenon DEF TrackInv, Unfinished
<1>10. TaskInv'
  BY <1>1, <1>2, <1>3, Zenon DEF TaskInv
<1>11. DataInv'
  BY <1>1, Zenon DEF DataInv
<1>12. Durable' /\ Queryable'
  BY <1>1, <1>5, Zenon DEF DurableInv, Durable, Recoverable, Queryable, RowsAt
<1> QED BY <1>6, <1>7, <1>8, <1>9, <1>10, <1>11, <1>12, Zenon DEF DurableInv

LEMMA StepStartUp ==
  ASSUME TypeInv, NumberInv, DurableInv, StartUp
  PROVE  DurableInv'
<1>1. /\ UNCHANGED <<walFiles, parquet, manifests, pending, permit, pc, inflight, buffer, snapshotting, task,
                     compaction, compactions, acked>>
      /\ status = "down" /\ status' = "replay" /\ todo' = {n \in FileNumbers : n > LastWal}
      /\ highWater' = LastSnapshot /\ walNumber' = LastWal + 1 /\ tracker' = NewTracker(LastSnapshot)
      /\ files' = ManifestPaths
  BY Zenon DEF StartUp, objects, flush, record, ManifestPaths
<1>2. /\ task = NoTask /\ snapshotting = {} /\ \A f \in Flushers : pc[f] = "idle"
  BY <1>1, Zenon DEF DurableInv, CalmInv
<1>3. Flying' = {} /\ Flying = {} /\ ~ Persisting' /\ task.phase = "none"
  BY <1>1, <1>2, Zenon DEF Flying, Persisting, NoTask
<1>4. Begun' = walFiles /\ Begun = walFiles /\ FileNumbers' = FileNumbers
  BY <1>1, <1>3, Zenon DEF Begun, FileNumbers
<1>5. LastWal' = LastWal /\ LastSnapshot' = LastSnapshot /\ ManifestPaths' = ManifestPaths
  BY <1>1, SameManifests, Zenon
<1>6. LastWal \in Nat /\ LastSnapshot \in Nat /\ FileNumbers \subseteq Nat
  BY Numbers, Zenon
<1>7. tracker'.snap = LastSnapshot /\ Len(tracker'.periods) = 0
  BY <1>1, Zenon DEF NewTracker
<1>8. Taken' = LastWal /\ Base' = LastWal
  <2>1. Taken' = LastWal
    BY <1>1, <1>6, <1>7 DEF Taken
  <2> QED BY <1>3, <1>5, <2>1, Zenon DEF Base
<1>9. CalmInv' /\ ManifestInv'
  BY <1>1, <1>2, <1>5, Zenon DEF DurableInv, CalmInv, ManifestInv
<1>10. FileInv'
  <2>1. todo' = {n \in FileNumbers' : n >= walNumber'}
    <3>1. \A n \in FileNumbers : n > LastWal <=> n >= LastWal + 1
      BY <1>6
    <3> QED BY <1>1, <1>4, <3>1, Zenon
  <2>2. \A k : ~ (k \in LastWal' + 1 .. walNumber' - 1)
    BY <1>1, <1>5, <1>6
  <2> QED BY <1>1, <1>3, <1>4, <1>5, <2>1, <2>2, Zenon DEF DurableInv, FileInv
<1>11. ASSUME NEW w \in walFiles, NEW d \in w.snap, Unfinished(d) PROVE w.num > LastWal /\ w.num \in todo'
  <2>1. d.last \in Nat /\ w.num \in Nat
    BY <1>4, Numbers, Zenon
  <2>2. d.last <= w.num
    BY <1>11, Zenon DEF DurableInv, TrackInv, Made
  <2>3. w.num > LastWal
    BY <1>6, <1>11, <2>1, <2>2 DEF Unfinished
  <2> QED BY <1>1, <2>3, Zenon DEF FileNumbers
<1>12. SeqInv'
  <2>1. /\ \A w \in walFiles : \A d \in w.snap : w.num > LastWal =>
             IF Unfinished(d) THEN d.seq = LastSnapshot + 1 ELSE d.seq <= LastSnapshot
        /\ \A u, w \in walFiles : \A d \in u.snap : \A e \in w.snap :
             Unfinished(d) /\ Unfinished(e) => u = w
    BY Zenon DEF DurableInv, SeqInv
  <2>2. LastSnapshot + 0 = LastSnapshot /\ \A w \in walFiles : w.num \in todo' => w.num > LastWal
    BY <1>1, <1>6
  <2> QED BY <1>1, <1>3, <1>5, <1>7, <1>11, <2>1, <2>2, Zenon DEF SeqInv, Unfinished
<1>13. TrackInv'
  <2>1. \A i : ~ (i \in 1..Len(tracker'.periods))
    BY <1>7
  <2> QED BY <1>1, <1>3, <1>4, <1>5, <1>8, <2>1, Zenon DEF DurableInv, TrackInv, Unfinished
<1>14. TaskInv'
  BY <1>1, <1>2, <1>3, Zenon DEF TaskInv
<1>15. DataInv'
  <2>1. \A p \in files' : p[2] <= LastWal'
    BY <1>1, <1>5, Zenon DEF DurableInv, ManifestInv, ManifestPaths
  <2>2. \A w \in walFiles : ~ (LastWal' < w.num /\ w.num < walNumber')
    <3>1. \A w \in walFiles : w.num \in Nat
      BY <1>4, Numbers, Zenon
    <3> QED BY <1>1, <1>5, <1>6, <3>1
  <2> QED BY <1>1, <1>2, <1>3, <1>5, <2>1, <2>2, Zenon DEF DataInv
<1>16. Durable' /\ Queryable'
  BY <1>1, <1>5, Zenon DEF DurableInv, Durable, Recoverable, Queryable, RowsAt
<1> QED BY <1>9, <1>10, <1>12, <1>13, <1>14, <1>15, <1>16, Zenon DEF DurableInv

LEMMA StepReplayDone ==
  ASSUME TypeInv, NumberInv, DurableInv, ReplayDone
  PROVE  DurableInv'
<1>1. /\ UNCHANGED <<walFiles, parquet, manifests, todo, highWater, pending, walNumber, tracker, permit, pc, inflight,
                     buffer, snapshotting, files, task, compaction, compactions, acked>>
      /\ status = "replay" /\ status' = "up" /\ task = NoTask /\ todo = {}
  BY Zenon DEF ReplayDone, objects, wal, flush, queryable, record
<1>2. \A f \in Flushers : pc[f] = "idle"
  BY <1>1, Zenon DEF DurableInv, CalmInv
<1>3. Flying' = {} /\ Flying = {} /\ ~ Persisting' /\ ~ Persisting
  BY <1>1, <1>2, Zenon DEF Flying, Persisting, NoTask
<1>4. Begun' = Begun /\ FileNumbers' = FileNumbers /\ Taken' = Taken
  BY <1>1, <1>3, Zenon DEF Begun, FileNumbers, Taken
<1>5. LastWal' = LastWal /\ LastSnapshot' = LastSnapshot /\ ManifestPaths' = ManifestPaths
  BY <1>1, SameManifests, Zenon
<1>6. Base' = Base
  BY <1>3, <1>5, Zenon DEF Base
<1>7. CalmInv' /\ ManifestInv'
  BY <1>1, <1>5, Zenon DEF DurableInv, CalmInv, ManifestInv
<1>8. FileInv'
  BY <1>1, <1>3, <1>4, <1>5, Zenon DEF DurableInv, FileInv
<1>9. SeqInv'
  <2>1. ASSUME NEW w \in walFiles, NEW d \in w.snap PROVE ~ Unfinished(d)
    BY <1>1, <1>3, Zenon DEF DurableInv, SeqInv
  <2> QED BY <1>1, <1>3, <1>5, <2>1, Zenon DEF DurableInv, SeqInv, Unfinished
<1>10. TrackInv'
  BY <1>1, <1>3, <1>4, <1>5, <1>6, Zenon DEF DurableInv, TrackInv, Unfinished
<1>11. TaskInv'
  BY <1>1, <1>2, <1>3, <1>5, Zenon DEF DurableInv, TaskInv
<1>12. Written' = {} /\ Written = {} /\ Stored' = Stored
  BY <1>1, <1>3, <1>5, Zenon DEF Written, Stored, RowsAt
<1>13. DataInv'
  BY <1>1, <1>3, <1>5, <1>12, Zenon DEF DurableInv, DataInv
<1>14. Durable'
  BY <1>1, <1>5, Zenon DEF DurableInv, Durable, Recoverable, RowsAt
<1>15. Queryable'
  <2> SUFFICES ASSUME NEW r \in acked PROVE r \in buffer \cup snapshotting \cup RowsAt(files)
    BY <1>1, Zenon DEF Queryable, RowsAt
  <2>1. r \in Stored \/ \E w \in walFiles : w.num > LastWal /\ r \in w.rows
    BY Zenon DEF DurableInv, Durable, Recoverable, Stored, ManifestPaths
  <2>2. Stored \subseteq RowsAt(files)
    <3>1. ManifestPaths \subseteq files
      BY <1>1, Zenon DEF DurableInv, DataInv
    <3> QED BY <3>1, Zenon DEF Stored, RowsAt
  <2>3. ASSUME NEW w \in walFiles, w.num > LastWal PROVE w.rows \subseteq buffer \cup snapshotting \cup Stored
    <3>1. w.num < walNumber
      BY <1>1, Zenon DEF NumberInv, FileNumbers
    <3>2. w.num \in Nat /\ LastWal < w.num
      BY <2>3, Numbers, Zenon DEF Begun
    <3> QED BY <1>1, <1>3, <1>12, <3>1, <3>2, Zenon DEF DurableInv, DataInv
  <2> QED BY <2>1, <2>2, <2>3, Zenon
<1> QED BY <1>7, <1>8, <1>9, <1>10, <1>11, <1>13, <1>14, <1>15, Zenon DEF DurableInv

-----------------------------------------------------------------------------
(* Replay                                                                  *)

(* The same periods, with the same force, are taken again. *)
LEMMA SnapshotAgain ==
  ASSUME NEW tr \in Tracker, tr.periods # <<>>, \A i \in 1..Len(tr.periods) : tr.periods[i].max \in Nat,
         NEW d \in SnapshotDetails, NEW k \in 1..Len(tr.periods), Takes(tr.periods, k, d)
  PROVE  \E x : /\ Snapshot(tr, d.forced).details = {x} /\ x.last = d.last
                /\ Left(tr, k, Snapshot(tr, d.forced).tracker)
<1>0. tr.periods \in Seq(WalPeriod) /\ Len(tr.periods) \in Nat /\ d.forced \in BOOLEAN /\ d.marker \in Int
  BY DEF Tracker, SnapshotDetails
<1>1. CASE d.forced
  <2>1. k = Len(tr.periods) /\ d.last = tr.periods[k].wal
    BY <1>1, Zenon DEF Takes
  <2>2. Snapshot(tr, d.forced) = SnapshotAll(tr)
    BY <1>1, Zenon DEF Snapshot, ShouldRunSnapshot
  <2> QED BY <2>1, <2>2, SnapshotAllTakes, Zenon DEF Takes
<1>2. CASE ~ d.forced
  <2>0. PICK p : p = tr.periods
    BY Zenon
  <2>1. /\ d.last = p[k].wal /\ d.marker = ChunkTime(p[Len(p)].max) /\ k < Len(p)
        /\ PeriodsToSnapshotAfter <= Len(p) /\ Len(p) < 3 * SnapshotSize
        /\ \A i \in 1..k : p[i].max < d.marker
        /\ p[k + 1].max >= d.marker
    BY <1>2, <2>0, Zenon DEF Takes
  <2>2. Snapshot(tr, d.forced) = SnapshotInOrder(tr)
    BY <1>0, <1>2, <2>0, <2>1, SnapshotSizeAssumption DEF Snapshot, ShouldRunSnapshot, PeriodsToSnapshotAfter
  <2>3. PICK j : j = TakeWhile(p, d.marker)
    BY Zenon
  <2>4. j \in 0..Len(p) /\ (\A i \in 1..j : p[i].max < d.marker) /\ (j < Len(p) => ~ (p[j + 1].max < d.marker))
    BY <1>0, <2>0, <2>3, TakeWhileIs, Zenon
  <2>5. j # 0
    BY <1>0, <2>0, <2>1, <2>4
  <2>6. SnapshotInOrder(tr) # Nothing(tr)
    <3>1. SnapshotInOrder(tr).details # {}
      BY <2>0, <2>1, <2>3, <2>5, Zenon DEF SnapshotInOrder, LastPeriod
    <3>2. Nothing(tr).details = {}
      BY Zenon DEF Nothing
    <3> QED BY <3>1, <3>2, Zenon
  <2>7. PICK x, l : /\ SnapshotInOrder(tr).details = {x} /\ x.forced = FALSE
                    /\ l \in 1..Len(p) /\ Takes(p, l, x)
                    /\ Left(tr, l, SnapshotInOrder(tr).tracker)
    BY <2>0, <2>1, <2>6, SnapshotInOrderTakes, Zenon
  <2>8. /\ x.last = p[l].wal /\ x.marker = d.marker /\ l < Len(p)
        /\ \A i \in 1..l : p[i].max < d.marker
        /\ p[l + 1].max >= d.marker
    BY <2>1, <2>7, Zenon DEF Takes
  <2>9. k = l
    <3>1. ASSUME k < l PROVE FALSE
      <4>1. k + 1 \in 1..l /\ k + 1 \in 1..Len(p) /\ p[k + 1].max \in Nat
        BY <1>0, <2>0, <2>1, <2>7, <3>1
      <4> QED BY <1>0, <2>1, <2>8, <4>1
    <3>2. ASSUME l < k PROVE FALSE
      <4>1. l + 1 \in 1..k /\ l + 1 \in 1..Len(p) /\ p[l + 1].max \in Nat
        BY <1>0, <2>0, <2>1, <2>7, <3>2
      <4> QED BY <1>0, <2>1, <2>8, <4>1
    <3> QED BY <1>0, <2>0, <2>7, <3>1, <3>2
  <2> QED BY <2>1, <2>2, <2>7, <2>8, <2>9, Zenon
<1> QED BY <1>1, <1>2, Zenon

(* Nothing is taken while the first period reaches the last one's chunk. *)
LEMMA SnapshotNot ==
  ASSUME NEW tr \in Tracker, tr.periods # <<>>, \A i \in 1..Len(tr.periods) : tr.periods[i].max \in Nat,
         Len(tr.periods) < 3 * SnapshotSize, tr.periods[1].max >= ChunkTime(tr.periods[Len(tr.periods)].max)
  PROVE  Snapshot(tr, FALSE) = Nothing(tr)
<1>0. Len(tr.periods) \in Nat /\ 1 \in 1..Len(tr.periods) /\ Len(tr.periods) \in 1..Len(tr.periods)
  BY DEF Tracker
<1>1. ASSUME NEW d, NEW k, d.forced => FALSE \/ Len(tr.periods) >= 3 * SnapshotSize,
             k \in 1..Len(tr.periods), Takes(tr.periods, k, d)
      PROVE  FALSE
  <2>1. ~ d.forced
    BY <1>0, <1>1, SnapshotSizeAssumption
  <2>2. tr.periods[1].max < d.marker /\ d.marker = ChunkTime(tr.periods[Len(tr.periods)].max)
    BY <1>0, <1>1, <2>1 DEF Takes
  <2>3. tr.periods[1].max \in Nat /\ d.marker \in Nat
    BY <1>0, <2>2, ChunkTimeBelow, Zenon
  <2> QED BY <2>2, <2>3
<1>2. FALSE \in BOOLEAN
  BY Zenon
<1> QED BY <1>1, <1>2, SnapshotTakes, Zenon

(* Aligned periods, with what a snapshot made of the files, are taken by it. *)
LEMMA MadeTakes ==
  ASSUME NEW p, Len(p) \in Nat, NEW x \in Nat, NEW F, Aligned(p, x, F), NEW v \in F,
         v.num \in Nat, v.num = x + Len(p),
         \A k \in 1..Len(p) : \E u \in F : u.num = x + k,
         NEW d \in SnapshotDetails, Made(v, d, x, F)
  PROVE  d.last - x \in 1..Len(p) /\ Takes(p, d.last - x, d)
<1>1. d.last \in Nat /\ x < d.last /\ d.last <= v.num
  BY Zenon DEF Made, SnapshotDetails
<1>2. PICK k \in 1..Len(p) : k = d.last - x /\ d.last = x + k /\ k \in Nat
  BY <1>1
<1>3. d.last = p[k].wal
  BY <1>2, Zenon DEF Aligned
<1>4. ASSUME NEW i \in 1..k
      PROVE  ChunkTime(p[i].max) < d.marker /\ (~ d.forced => p[i].max < d.marker)
  <2>1. i \in 1..Len(p)
    BY <1>2
  <2>2. PICK u \in F : u.num = x + i
    BY <2>1, Zenon
  <2>3. p[i].max = u.max
    BY <2>1, <2>2, Zenon DEF Aligned
  <2>4. x < u.num /\ u.num <= d.last
    BY <1>2, <2>1, <2>2
  <2> QED BY <2>3, <2>4, Zenon DEF Made
<1>5. CASE d.forced
  <2>1. d.last = v.num
    BY <1>5, Zenon DEF Made
  <2>2. k = Len(p)
    BY <1>2, <2>1
  <2> QED BY <1>2, <1>3, <1>4, <1>5, <2>2, Zenon DEF Takes
<1>6. CASE ~ d.forced
  <2>1. /\ d.marker = ChunkTime(v.max) /\ d.last < v.num
        /\ PeriodsToSnapshotAfter <= v.num - x /\ v.num - x < 3 * SnapshotSize
        /\ \A u \in F : u.num = d.last + 1 => u.max >= d.marker
    BY <1>6, Zenon DEF Made
  <2>2. v.num - x = Len(p) /\ k < Len(p) /\ Len(p) \in 1..Len(p) /\ k + 1 \in 1..Len(p)
    BY <1>1, <1>2, <2>1
  <2>3. p[Len(p)].max = v.max
    BY <2>2, Zenon DEF Aligned
  <2>4. p[k + 1].max >= d.marker
    <3>1. PICK u \in F : u.num = x + (k + 1)
      BY <2>2, Zenon
    <3>2. p[k + 1].max = u.max
      BY <2>2, <3>1, Zenon DEF Aligned
    <3>3. u.num = d.last + 1
      <4>1. k \in Nat /\ d.last = x + k
        BY <1>2, Zenon
      <4> QED BY <1>1, <3>1, <4>1
    <3> QED BY <2>1, <3>2, <3>3, Zenon
  <2>5. d.marker = ChunkTime(p[Len(p)].max) /\ PeriodsToSnapshotAfter <= Len(p) /\ Len(p) < 3 * SnapshotSize
    BY <2>1, <2>2, <2>3, Zenon
  <2> QED BY <1>2, <1>3, <1>4, <1>6, <2>2, <2>4, <2>5, Zenon DEF Takes
<1> QED BY <1>5, <1>6, Zenon

(* Replay loads the files in order, one for each number. *)
LEMMA ReplayNext ==
  ASSUME TypeInv, NumberInv, DurableInv, NEW w \in walFiles, Replay(w)
  PROVE  /\ w.num = walNumber /\ Flying = {} /\ Begun = walFiles /\ ~ Persisting /\ Base = LastWal
         /\ \A k \in LastWal + 1 .. walNumber : \E u \in walFiles : u.num = k
         /\ \A u \in walFiles : u.num = walNumber => u = w
<1>1. status = "replay" /\ task = NoTask /\ todo # {} /\ w.num = Lowest(todo)
  BY Zenon DEF Replay
<1>2. Flying = {} /\ Begun = walFiles /\ ~ Persisting /\ Base = LastWal
  <2>1. \A f \in Flushers : pc[f] = "idle"
    BY <1>1, Zenon DEF DurableInv, CalmInv
  <2>2. Flying = {}
    BY <2>1, Zenon DEF Flying
  <2> QED BY <1>1, <2>2, Zenon DEF Begun, Persisting, Base, NoTask
<1>3. w.num \in todo /\ \A n \in todo : w.num <= n
  BY <1>1, LowestIs DEF TypeInv
<1>4. todo = {n \in FileNumbers : n >= walNumber}
  BY <1>1, Zenon DEF DurableInv, FileInv
<1>5. LastWal < walNumber /\ LastWal \in Nat /\ walNumber \in Nat /\ w.num \in Nat
  BY <1>1, <1>2, TakenNext, Numbers, Zenon
<1>6. w.num \in FileNumbers /\ w.num >= walNumber
  BY <1>3, <1>4, Zenon
<1>7. w.num = walNumber
  <2>1. ASSUME w.num > walNumber PROVE FALSE
    <3>1. walNumber \in LastWal + 1 .. w.num - 1
      BY <1>5, <2>1
    <3>2. walNumber \in FileNumbers
      BY <1>6, <3>1, Zenon DEF DurableInv, FileInv
    <3>3. walNumber \in todo
      BY <1>4, <1>5, <3>2
    <3> QED BY <1>3, <1>5, <2>1, <3>3
  <2> QED BY <1>5, <1>6, <2>1
<1>8. ASSUME NEW k \in LastWal + 1 .. walNumber PROVE \E u \in walFiles : u.num = k
  <2>1. CASE k = walNumber
    BY <1>7, <2>1, Zenon
  <2>2. CASE k # walNumber
    <3>1. k \in LastWal + 1 .. walNumber - 1
      BY <1>5, <1>8, <2>2
    <3> QED BY <1>1, <1>2, <3>1, Zenon DEF DurableInv, FileInv
  <2> QED BY <2>1, <2>2, Zenon
<1>9. \A u \in walFiles : u.num = walNumber => u = w
  BY <1>2, <1>7, Zenon DEF DurableInv, FileInv
<1> QED BY <1>2, <1>7, <1>8, <1>9, Zenon

LEMMA ReplayDecision ==
  ASSUME TypeInv, NumberInv, DurableInv, NEW w \in walFiles, Replay(w)
  PROVE  Replayed(w, AddWalPeriod(tracker, walNumber, w.max))
<1>0. status = "replay" /\ task = NoTask /\ status # "down" /\ w.num \in todo
  <2>1. status = "replay" /\ task = NoTask /\ todo # {} /\ w.num = Lowest(todo)
    BY Zenon DEF Replay
  <2> QED BY <2>1, LowestIs, Zenon DEF TypeInv
<1>1. /\ w.num = walNumber /\ Flying = {} /\ Begun = walFiles /\ ~ Persisting /\ Base = LastWal
      /\ \A k \in LastWal + 1 .. walNumber : \E u \in walFiles : u.num = k
      /\ \A u \in walFiles : u.num = walNumber => u = w
  BY ReplayNext, Zenon
<1>2. PICK tr : tr = AddWalPeriod(tracker, walNumber, w.max)
  BY Zenon
<1>3. PICK n \in Nat, l \in Nat : n = walNumber /\ l = LastWal
  BY Numbers, Zenon
<1>4. w.max \in Nat /\ w \in WalFile /\ w.snap \subseteq SnapshotDetails
  BY <1>1, Numbers, Zenon DEF DurableInv, FileInv
<1>5. /\ tr \in Tracker /\ tr.snap = tracker.snap /\ tr.periods # <<>>
      /\ Len(tr.periods) = n - l /\ Aligned(tr.periods, l, walFiles)
  <2>1. \A u \in Begun : u.num = walNumber => u = w
    BY <1>1, Zenon
  <2>2. LET t == AddWalPeriod(tracker, walNumber, w.max)
        IN /\ t \in Tracker /\ t.snap = tracker.snap /\ t.periods # <<>>
           /\ Len(t.periods) = walNumber - Base
           /\ Taken = Base
           /\ Aligned(t.periods, Base, Begun \cup {w})
    BY <1>0, <1>1, <1>4, <2>1, PeriodsAligned, Zenon
  <2>3. Begun \cup {w} = walFiles
    BY <1>1, Zenon
  <2> QED BY <1>1, <1>2, <1>3, <2>2, <2>3, Zenon
<1>6. PICK p : p = tr.periods
  BY Zenon
<1>7. Len(p) \in Nat /\ Len(p) > 0 /\ Len(p) = n - l /\ w.num = l + Len(p) /\ \A i \in 1..Len(tr.periods) : tr.periods[i].max \in Nat
  <2>1. Len(p) \in Nat /\ Len(p) > 0 /\ \A i \in 1..Len(tr.periods) : tr.periods[i].max \in Nat
    BY <1>5, <1>6 DEF Tracker, Aligned
  <2> QED BY <1>1, <1>3, <1>5, <1>6, <2>1
<1>8. \A k \in 1..Len(p) : \E u \in walFiles : u.num = l + k
  <2> SUFFICES ASSUME NEW k \in 1..Len(p) PROVE \E u \in walFiles : u.num = l + k
    BY Zenon
  <2>1. l + k \in LastWal + 1 .. walNumber
    BY <1>3, <1>7
  <2> QED BY <1>1, <2>1, Zenon
<1> SUFFICES \/ /\ tracker' = tr /\ UNCHANGED <<task, permit>> /\ Notify(w.rows)
                /\ \A d \in w.snap : ~ Unfinished(d)
             \/ \E d \in w.snap : \E x :
                  /\ Unfinished(d) /\ Made(w, d, l, walFiles)
                  /\ x.last = d.last /\ NotifyAndSnapshot(w.rows, d, {x})
                  /\ Left(tr, d.last - l, tracker') /\ permit' = FALSE
                  /\ d.last - l \in 1..Len(p)
  BY <1>2, <1>3, <1>5, <1>6, Zenon DEF Replayed
<1>9. CASE w.snap = {}
  BY <1>1, <1>2, <1>9, Zenon DEF Replay
<1>10. CASE w.snap # {}
  <2>1. PICK d, s :
          /\ d \in w.snap /\ s = Snapshot(tr, d.forced) /\ tracker' = s.tracker /\ permit' = (permit /\ s.details = {})
          /\ IF d.seq <= highWater
             THEN /\ Notify(w.rows)
                  /\ task' = IF s.details = {} THEN NoTask
                             ELSE [NoTask EXCEPT !.phase = "cleanup", !.cleanup = s.details]
             ELSE NotifyAndSnapshot(w.rows, d, s.details)
    BY <1>1, <1>2, <1>10, Zenon DEF Replay
  <2>2. \A e \in w.snap : e = d
    BY <1>1, <2>1, Zenon DEF DurableInv, FileInv
  <2>3. d \in SnapshotDetails /\ d.seq \in Nat /\ d.last \in Nat /\ d.forced \in BOOLEAN
    BY <1>4, <2>1, Numbers, Zenon
  <2>4. IF Unfinished(d) THEN d.seq = highWater + 1 ELSE d.seq <= highWater
    BY <1>0, <2>1, Zenon DEF DurableInv, SeqInv
  <2>5. highWater \in Nat
    BY Zenon DEF TypeInv
  <2>6. CASE ~ Unfinished(d)
    <3>1. d.last <= l /\ w.num > l
      BY <1>3, <1>7, <2>3, <2>6 DEF Unfinished
    <3>2. /\ ~ d.forced /\ w.num - l < 3 * SnapshotSize
          /\ \A u \in walFiles : u.num = l + 1 => u.max >= ChunkTime(w.max)
      <4>1. Settled(l, walFiles)
        BY <1>1, <1>3, Zenon DEF DurableInv, TrackInv
      <4> QED BY <2>1, <3>1, <4>1, Zenon DEF Settled
    <3>3. 1 \in 1..Len(p) /\ Len(p) \in 1..Len(p) /\ w.num - l = Len(p)
      BY <1>7
    <3>4. PICK u \in walFiles : u.num = l + 1
      BY <1>8, <3>3, Zenon
    <3>5. p[1].max = u.max /\ p[Len(p)].max = w.max
      BY <1>5, <1>6, <1>7, <3>3, <3>4, Zenon DEF Aligned
    <3>6. Snapshot(tr, FALSE) = Nothing(tr)
      <4>1. Len(tr.periods) < 3 * SnapshotSize /\ tr.periods[1].max >= ChunkTime(tr.periods[Len(tr.periods)].max)
        BY <1>6, <3>2, <3>3, <3>4, <3>5, Zenon
      <4> QED BY <1>5, <1>7, <4>1, SnapshotNot, Zenon
    <3>7. s = Nothing(tr)
      BY <2>1, <2>3, <3>2, <3>6, Zenon
    <3>8. s.details = {} /\ s.tracker = tr
      BY <3>7, Zenon DEF Nothing
    <3>9. d.seq <= highWater
      BY <2>4, <2>6, Zenon
    <3>10. task' = task /\ Notify(w.rows) /\ tracker' = tr
      BY <1>0, <2>1, <3>8, <3>9, Zenon
    <3>11. permit' = permit
      <4>1. permit \in BOOLEAN
        BY Zenon DEF TypeInv
      <4> QED BY <2>1, <3>8, <4>1, Zenon
    <3> QED BY <2>2, <2>6, <3>10, <3>11, Zenon
  <2>7. CASE Unfinished(d)
    <3>1. Made(w, d, l, walFiles)
      BY <1>3, <2>1, <2>7, Zenon DEF DurableInv, TrackInv
    <3>2. d.last - l \in 1..Len(p) /\ Takes(p, d.last - l, d)
      <4>1. Aligned(p, l, walFiles) /\ w.num \in Nat
        BY <1>1, <1>3, <1>5, <1>6, Zenon
      <4>2. Len(p) \in Nat /\ w.num = l + Len(p)
        BY <1>7, Zenon
      <4> QED BY <1>8, <2>3, <3>1, <4>1, <4>2, MadeTakes, Zenon
    <3>3. PICK x : /\ Snapshot(tr, d.forced).details = {x} /\ x.last = d.last
                   /\ Left(tr, d.last - l, Snapshot(tr, d.forced).tracker)
      <4>1. d.last - l \in 1..Len(tr.periods) /\ Takes(tr.periods, d.last - l, d)
        BY <1>6, <3>2, Zenon
      <4> QED BY <1>5, <1>7, <2>3, <4>1, SnapshotAgain, Zenon
    <3>4. s.details = {x} /\ Left(tr, d.last - l, tracker')
      BY <2>1, <3>3, Zenon
    <3>5. ~ (d.seq <= highWater)
      BY <2>4, <2>5, <2>7
    <3>6. NotifyAndSnapshot(w.rows, d, {x})
      BY <2>1, <3>4, <3>5, Zenon
    <3>7. permit' = FALSE
      BY <2>1, <3>4, Zenon
    <3> QED BY <2>1, <2>7, <3>1, <3>2, <3>3, <3>4, <3>6, <3>7, Zenon
  <2> QED BY <2>6, <2>7, Zenon
<1> QED BY <1>9, <1>10, Zenon

LEMMA StepReplay ==
  ASSUME DurableWhen, TypeInv, NumberInv, DurableInv, NEW w \in walFiles, Replay(w)
  PROVE  DurableInv'
<1>1. /\ UNCHANGED <<walFiles, parquet, manifests, status, highWater, pending, pc, inflight, files, compaction,
                     compactions, acked>>
      /\ status = "replay" /\ task = NoTask /\ todo' = todo \ {w.num} /\ walNumber' = w.num + 1
  BY Zenon DEF Replay, objects, flush, record
<1>2. /\ w.num = walNumber /\ Flying = {} /\ Begun = walFiles /\ ~ Persisting /\ Base = LastWal
      /\ \A k \in LastWal + 1 .. walNumber : \E u \in walFiles : u.num = k
      /\ \A u \in walFiles : u.num = walNumber => u = w
  BY ReplayNext, Zenon
<1>3. PICK n \in Nat, l \in Nat : n = walNumber /\ l = LastWal
  BY Numbers, Zenon
<1>4. PICK tr : tr = AddWalPeriod(tracker, walNumber, w.max) /\ Replayed(w, tr)
  BY ReplayDecision, Zenon
<1>5. PICK p : p = tr.periods
  BY Zenon
<1>6. Len(p) = n - l /\ Aligned(p, l, walFiles) /\ tr.snap = tracker.snap /\ Len(p) \in Nat
  BY <1>3, <1>4, <1>5 DEF Replayed, Tracker
<1>7. Flying' = {} /\ \A f \in Flushers : pc[f] = "idle"
  <2>1. \A f \in Flushers : pc[f] = "idle"
    BY <1>1, Zenon DEF DurableInv, CalmInv
  <2> QED BY <1>1, <2>1, Zenon DEF Flying
<1>8. Begun' = walFiles /\ FileNumbers' = FileNumbers
  BY <1>1, <1>7, Zenon DEF Begun, FileNumbers
<1>9. LastWal' = LastWal /\ LastSnapshot' = LastSnapshot /\ ManifestPaths' = ManifestPaths
  BY <1>1, SameManifests, Zenon
<1>10. Stored' = Stored
  BY <1>1, <1>9, Zenon DEF Stored, RowsAt
<1>11. \A u \in walFiles : u.num \in Nat
  BY <1>2, Numbers, Zenon
<1>12. walNumber' = n + 1
  BY <1>1, <1>2, <1>3, Zenon
<1>13. \A u \in walFiles : u.num < walNumber' => u = w \/ u.num < walNumber
  BY <1>2, <1>3, <1>11, <1>12
<1>14. CalmInv' /\ ManifestInv'
  BY <1>1, <1>9, Zenon DEF DurableInv, CalmInv, ManifestInv
<1>15. FileInv'
  <2>1. ASSUME NEW k \in LastWal + 1 .. walNumber' - 1 PROVE \E u \in walFiles : u.num = k
    <3>1. k \in LastWal + 1 .. walNumber
      BY <1>3, <1>12, <2>1
    <3> QED BY <1>2, <3>1, Zenon
  <2>2. todo' = {k \in FileNumbers : k >= walNumber'}
    <3>1. todo = {k \in FileNumbers : k >= walNumber}
      BY <1>1, Zenon DEF DurableInv, FileInv
    <3>2. \A k \in FileNumbers : k >= walNumber' <=> k >= walNumber /\ k # w.num
      <4>1. FileNumbers \subseteq Nat
        BY Numbers, Zenon
      <4> QED BY <1>2, <1>3, <1>12, <4>1
    <3> QED BY <1>1, <3>1, <3>2, Zenon
  <2> QED BY <1>1, <1>2, <1>7, <1>8, <1>9, <2>1, <2>2, Zenon DEF DurableInv, FileInv
<1>16. Durable' /\ Queryable'
  BY <1>1, <1>9, Zenon DEF DurableInv, Durable, Recoverable, Queryable, RowsAt
<1>17. /\ Settled(LastWal, walFiles)
       /\ \A u \in walFiles : \A d \in u.snap : Unfinished(d) => Settled(d.last, walFiles)
       /\ \A u \in walFiles : \A d \in u.snap : Unfinished(d) => Made(u, d, LastWal, walFiles)
  BY <1>2, Zenon DEF DurableInv, TrackInv
<1>18. /\ \A u \in walFiles : \A d \in u.snap : u.num > LastWal =>
            IF Unfinished(d) THEN d.seq = LastSnapshot + 1 ELSE d.seq <= LastSnapshot
       /\ \A v, u \in walFiles : \A d \in v.snap : \A e \in u.snap :
            Unfinished(d) /\ Unfinished(e) => v = u
       /\ \A u \in walFiles : \A d \in u.snap : u.num \in todo =>
            IF Unfinished(d) THEN d.seq = highWater + 1 ELSE d.seq <= highWater
       /\ tracker.snap = LastSnapshot
       /\ \A u \in walFiles : \A d \in u.snap : Unfinished(d) => u.num \in todo
  <2>1. LastSnapshot + 0 = LastSnapshot
    BY Numbers
  <2> QED BY <1>1, <1>2, <2>1, Zenon DEF DurableInv, SeqInv
<1>19. \A u \in walFiles : LastWal < u.num /\ u.num < walNumber => u.rows \subseteq buffer \cup snapshotting \cup Stored
  <2>1. Written = {}
    BY <1>2, Zenon DEF Written
  <2> QED BY <1>1, <1>2, <2>1, Zenon DEF DurableInv, DataInv
<1>20. ManifestPaths \subseteq files /\ \A q \in files : q[2] <= LastWal
  BY <1>1, <1>2, Zenon DEF DurableInv, DataInv
<1>21. CASE tracker' = tr /\ UNCHANGED <<task, permit>> /\ Notify(w.rows) /\ \A d \in w.snap : ~ Unfinished(d)
  <2>1. buffer' = buffer \cup w.rows /\ snapshotting' = snapshotting
    BY <1>21, Zenon DEF Notify
  <2>2. ~ Persisting' /\ Written' = {} /\ task'.phase = "none"
    BY <1>1, <1>21, Zenon DEF Persisting, Written, NoTask
  <2>3. Base' = l /\ Taken' = l
    <3>1. Taken' = l
      BY <1>3, <1>5, <1>6, <1>12, <1>21 DEF Taken
    <3> QED BY <1>3, <1>9, <2>2, <3>1, Zenon DEF Base
  <2>4. SeqInv'
    <3>1. \A u \in walFiles : \A d \in u.snap : Unfinished(d) => u.num \in todo'
      BY <1>1, <1>2, <1>18, <1>21, ZenonT(30)
    <3>2. tracker'.snap = LastSnapshot /\ LastSnapshot + 0 = LastSnapshot
      BY <1>6, <1>18, <1>21, Numbers
    <3> QED BY <1>1, <1>7, <1>9, <1>18, <2>2, <3>1, <3>2 DEF SeqInv, Unfinished
  <2>5. TrackInv'
    <3>1. \A i \in 1..Len(tracker'.periods) :
            /\ tracker'.periods[i].wal = Taken' + i
            /\ \A u \in walFiles : u.num = Taken' + i => tracker'.periods[i].max = u.max
      BY <1>5, <1>6, <1>21, <2>3, Zenon DEF Aligned
    <3> QED BY <1>1, <1>7, <1>8, <1>9, <1>17, <2>3, <3>1, Zenon DEF TrackInv, Unfinished
  <2>6. TaskInv'
    BY <1>1, <1>7, <1>21, <2>2, Zenon DEF TaskInv
  <2>7. DataInv'
    <3>1. snapshotting' = {}
      BY <1>2, <2>1, Zenon DEF DurableInv, DataInv
    <3>2. ASSUME NEW u \in walFiles, LastWal' < u.num, u.num < walNumber'
          PROVE  u.rows \subseteq buffer' \cup snapshotting' \cup Written' \cup Stored'
      <4>1. CASE u = w
        BY <2>1, <4>1, Zenon
      <4>2. CASE u.num < walNumber
        BY <1>9, <1>10, <1>19, <2>1, <3>2, <4>2, Zenon
      <4> QED BY <1>13, <3>2, <4>1, <4>2, Zenon
    <3> QED BY <1>1, <1>9, <1>20, <2>2, <3>1, <3>2, Zenon DEF DataInv
  <2> QED BY <1>14, <1>15, <1>16, <2>4, <2>5, <2>6, <2>7, Zenon DEF DurableInv
<1>22. CASE \E d \in w.snap : \E x :
              /\ Unfinished(d) /\ Made(w, d, LastWal, walFiles)
              /\ x.last = d.last /\ NotifyAndSnapshot(w.rows, d, {x})
              /\ Left(tr, d.last - LastWal, tracker') /\ permit' = FALSE
              /\ d.last - LastWal \in 1..Len(tr.periods)
  <2>1. PICK d \in w.snap : \E x :
              /\ Unfinished(d) /\ Made(w, d, LastWal, walFiles)
              /\ x.last = d.last /\ NotifyAndSnapshot(w.rows, d, {x})
              /\ Left(tr, d.last - LastWal, tracker') /\ permit' = FALSE
              /\ d.last - LastWal \in 1..Len(tr.periods)
    BY <1>22, Zenon
  <2>2. PICK x :
              /\ Unfinished(d) /\ Made(w, d, LastWal, walFiles)
              /\ x.last = d.last /\ NotifyAndSnapshot(w.rows, d, {x})
              /\ Left(tr, d.last - LastWal, tracker') /\ permit' = FALSE
              /\ d.last - LastWal \in 1..Len(tr.periods)
    BY <2>1, Zenon
  <2>3. PICK k \in 1..Len(p) : k = d.last - l /\ k \in Nat
    BY <1>3, <1>5, <1>6, <2>2
  <2>4. d.last \in Nat /\ d.last = l + k
    <3>1. d.last \in Nat
      BY <1>2, Numbers, Zenon
    <3> QED BY <2>3, <3>1
  <2>5. /\ tracker'.snap = tr.snap + 1 /\ Len(tracker'.periods) = Len(p) - k
        /\ \A i \in 1..(Len(p) - k) : tracker'.periods[i] = p[k + i]
    BY <1>3, <1>5, <2>2, <2>3, Zenon DEF Left
  <2>6. /\ DataInv' /\ Persisting' /\ task'.details = {d} /\ task'.cleanup = {x} /\ task'.paths = {}
        /\ Base' = d.last
    <3>1. status # "down" /\ task.phase = "none" /\ UNCHANGED <<walFiles, parquet, manifests, files>>
      BY <1>1, Zenon DEF NoTask
    <3>2. walNumber' \in Nat /\ w.num < walNumber'
      BY <1>2, <1>3, <1>12
    <3>3. \A u \in walFiles : LastWal < u.num /\ u.num < walNumber' => u = w \/ (u \notin Flying /\ u.num < walNumber)
      BY <1>2, <1>13, Zenon
    <3>4. Made(w, d, LastWal, walFiles) /\ NotifyAndSnapshot(w.rows, d, {x})
      BY <2>2, Zenon
    <3> QED BY <3>1, <3>2, <3>3, <3>4, FreezeData, Zenon
  <2>7. ASSUME NEW u \in walFiles, NEW e \in u.snap, Unfinished(e) PROVE u = w /\ e = d
    <3>1. u = w
      BY <1>18, <2>2, <2>7, Zenon
    <3> QED BY <1>2, <3>1, Zenon DEF DurableInv, FileInv
  <2>8. Taken' = d.last
    <3>1. PICK m \in Nat : m = Len(p) /\ m = n - l
      BY <1>6, Zenon
    <3>2. Taken' = n + 1 - 1 - (m - k)
      BY <1>12, <2>5, <3>1 DEF Taken
    <3>3. k \in Nat /\ l + k = d.last /\ l \in Nat /\ n \in Nat
      BY <1>3, <2>3, <2>4, Zenon
    <3> QED BY <3>1, <3>2, <3>3
  <2>9. SeqInv'
    <3>1. tracker'.snap = LastSnapshot + 1
      BY <1>6, <1>18, <2>5, Zenon
    <3>2. \A u \in walFiles : \A e \in u.snap : u.num \in todo' => e.seq <= highWater /\ ~ Unfinished(e)
      <4> SUFFICES ASSUME NEW u \in walFiles, NEW e \in u.snap, u.num \in todo' PROVE e.seq <= highWater /\ ~ Unfinished(e)
        BY Zenon
      <4>1. u # w /\ u.num \in todo
        BY <1>1, Zenon
      <4>2. ~ Unfinished(e)
        BY <2>7, <4>1, Zenon
      <4> QED BY <1>18, <4>1, <4>2, Zenon
    <3>3. \A u \in walFiles : \A e \in u.snap : Unfinished(e) => e \in task'.details
      BY <2>6, <2>7, Zenon
    <3> QED BY <1>1, <1>7, <1>9, <1>18, <2>6, <3>1, <3>2, <3>3, ZenonT(30) DEF SeqInv, Unfinished
  <2>10. TrackInv'
    <3>1. ASSUME NEW i \in 1..Len(tracker'.periods)
          PROVE  /\ tracker'.periods[i].wal = Taken' + i
                 /\ \A u \in walFiles : u.num = Taken' + i => tracker'.periods[i].max = u.max
      <4>1. k + i \in 1..Len(p) /\ tracker'.periods[i] = p[k + i] /\ l + (k + i) = Taken' + i
        <5>1. PICK m \in Nat : m = Len(p)
          BY <1>6, Zenon
        <5>2. i \in 1..(m - k) /\ k \in 1..m
          BY <2>3, <2>5, <3>1, <5>1, Zenon
        <5>3. k + i \in 1..m /\ i \in Int /\ k \in Nat
          BY <2>3, <5>1, <5>2
        <5>4. tracker'.periods[i] = p[k + i]
          BY <2>5, <5>1, <5>2, Zenon
        <5>5. l + (k + i) = Taken' + i
          BY <1>3, <2>4, <2>8, <5>3
        <5> QED BY <5>1, <5>3, <5>4, <5>5, Zenon
      <4>2. p[k + i].wal = l + (k + i) /\ \A u \in walFiles : u.num = l + (k + i) => p[k + i].max = u.max
        BY <1>6, <4>1, Zenon DEF Aligned
      <4> QED BY <4>1, <4>2, Zenon
    <3> QED BY <1>1, <1>7, <1>8, <1>9, <1>17, <2>6, <2>8, <3>1, Zenon DEF TrackInv, Unfinished
  <2>11. TaskInv'
    <3>1. task'.phase = "persist"
      BY <2>6, Zenon DEF Persisting
    <3>2. \E u \in walFiles' : u \notin Flying' /\ d \in u.snap /\ u.num < walNumber'
      <4>1. w.num < walNumber'
        BY <1>2, <1>3, <1>12
      <4> QED BY <1>1, <1>7, <4>1, Zenon
    <3> QED BY <1>1, <1>7, <1>9, <2>2, <2>6, <3>1, <3>2, Zenon DEF TaskInv, Unfinished
  <2> QED BY <1>14, <1>15, <1>16, <2>6, <2>9, <2>10, <2>11, ZenonT(30) DEF DurableInv
<1> QED BY <1>4, <1>21, <1>22, Zenon DEF Replayed
=============================================================================
