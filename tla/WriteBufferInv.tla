--------------------------- MODULE WriteBufferInv ---------------------------
(***************************************************************************)
(* The invariants of WriteBuffer that its proofs need, and what a flush    *)
(* and a replay decide under them.                                         *)
(***************************************************************************)
EXTENDS WriteBuffer

-----------------------------------------------------------------------------
(* Types, and the order of the numbers                                     *)

ParquetFile == [path: Path, rows: SUBSET Rows]
Manifest == [seq: Nat, wal: Nat, paths: SUBSET Path]
TaskType == [phase: {"none", "persist", "cleanup", "delete"},
             details: SUBSET SnapshotDetails, jobs: SUBSET Int, paths: SUBSET Path,
             cleanup: SUBSET SnapshotDetails, doomed: SUBSET Int]
CompactionType == [phase: {"none", "reserved", "stamped"}, seq: Nat, wal: Nat]

(* Where a flush may be: only one whose PUT may fail for good gives up. *)
FlushStates ==
  {"idle", "permit", "put", "notify"} \cup {s \in {"giveup"} : "put" \in Faults}

TypeInv ==
  /\ walFiles \subseteq WalFile /\ parquet \subseteq ParquetFile
  /\ manifests \subseteq Manifest /\ \E b \in Nat : \A m \in manifests : m.seq <= b
  /\ status \in {"down", "replay", "up"} /\ todo \subseteq Nat /\ highWater \in Nat
  /\ pending \subseteq Rows /\ \E b \in Int : \A r \in pending : TimeOf[r] <= b
  /\ walNumber \in Nat \ {0} /\ tracker \in Tracker /\ permit \in BOOLEAN
  /\ oldest \in Nat /\ last \in Nat
  /\ pc \in [Flushers -> FlushStates]
  /\ inflight \in [Flushers -> WalFile \cup {NoFile}]
  /\ buffer \subseteq Rows /\ snapshotting \subseteq Rows /\ files \subseteq Path
  /\ task \in TaskType /\ compaction \in CompactionType
  /\ acked \subseteq Rows

(* The numbers of the WAL files: those begun are below the next one, and replay
   has still to load the ones that are not. *)
NumberInv ==
  /\ \A f \in Flushers : pc[f] = "idle" <=> inflight[f] = NoFile
  /\ \A f \in Flushers : pc[f] # "idle" => status = "up" /\ inflight[f].num < walNumber
  /\ \A f, g \in Flushers :
       f # g /\ pc[f] # "idle" /\ pc[g] # "idle" => inflight[f].num # inflight[g].num
  /\ \A f \in Flushers : pc[f] \in {"permit", "put"} => inflight[f].num \notin FileNumbers
  /\ status = "up" => \A n \in FileNumbers : n < walNumber
  /\ status = "replay" =>
       /\ \A n \in FileNumbers : n < walNumber \/ n \in todo
       /\ \A n \in todo : n >= walNumber

-----------------------------------------------------------------------------
(* What the tracker takes, and what the manifests hold                     *)

(* k periods p[1..k] of a sequence are what a snapshot with details d takes. *)
Takes(p, k, d) ==
  /\ d.last = p[k].wal
  /\ \A i \in 1..k : ChunkTime(p[i].max) < d.marker
  /\ \/ d.forced /\ k = Len(p)
     \/ /\ ~ d.forced /\ d.marker = ChunkTime(p[Len(p)].max) /\ k < Len(p)
        /\ PeriodsToSnapshotAfter <= Len(p) /\ Len(p) < 3 * SnapshotSize
        /\ \A i \in 1..k : p[i].max < d.marker
        /\ p[k + 1].max >= d.marker

(* left is what remains of tr once k of its periods are taken. *)
Left(tr, k, left) ==
  /\ left.snap = tr.snap + 1
  /\ Len(left.periods) = Len(tr.periods) - k
  /\ \A i \in 1..(Len(tr.periods) - k) : left.periods[i] = tr.periods[k + i]

(* The numbers of the newest manifest of M: its snapshot's, its last WAL file's. *)
SeqOf(M) == IF M = {} THEN 0 ELSE Highest({m.seq : m \in M})
WalOf(M) == LET newest == {m \in M : m.seq = SeqOf(M)}
            IN IF newest = {} THEN 0 ELSE (CHOOSE m \in newest : TRUE).wal

-----------------------------------------------------------------------------
(* Durability                                                              *)

(* What durability rests on.  Each condition is needed: with two flushers, an
   abandoned PUT, a compaction or a time before the epoch, TLC finds an
   acknowledged row that no start finds. *)
DurableWhen ==
  /\ \A f, g \in Flushers : f = g
  /\ MaxCompactions = 0 /\ "put" \notin Faults
  /\ \A r \in Rows : TimeOf[r] \in Nat

(* The files of flushes under way, and those with the ones in the store; the
   last file whose period the tracker gave up; the last file whose rows are in
   the Parquet files of a manifest or of the snapshot being persisted. *)
Flying == {inflight[f] : f \in {g \in Flushers : pc[g] # "idle"}}
Begun == walFiles \cup Flying
Taken == walNumber - 1 - Len(tracker.periods)
Persisting == task.phase = "persist"
Base == IF Persisting THEN (CHOOSE d \in task.details : TRUE).last ELSE LastWal
ManifestPaths == UNION {m.paths : m \in manifests}

(* No compaction runs, and only a running node flushes and buffers. *)
CalmInv ==
  /\ compactions \in Nat /\ compaction = NoCompaction
  /\ status # "up" => pending = {} /\ \A f \in Flushers : pc[f] = "idle"
  /\ status = "down" => buffer = {} /\ snapshotting = {} /\ task = NoTask /\ permit

(* WAL files: one for each number after the newest manifest's, none left out,
   whose recorded maximum bounds their rows. *)
FileInv ==
  /\ \A v, w \in Begun : v.num = w.num => v = w
  /\ \A w \in Begun : \A d, e \in w.snap : d = e
  /\ \A w \in Begun : w.max \in Nat /\ \A r \in w.rows : TimeOf[r] <= w.max
  /\ \A w \in Flying : w.num > LastWal /\ w.num = walNumber - 1
  /\ \A n \in FileNumbers : \A k \in LastWal + 1 .. n - 1 : k \in FileNumbers
  /\ status # "down" =>
       \A k \in LastWal + 1 .. walNumber - 1 : \E w \in Begun : w.num = k
  /\ status = "replay" => todo = {n \in FileNumbers : n >= walNumber}

(* Manifests have numbers of their own and name files of snapshots up to the
   newest one's. *)
ManifestInv ==
  /\ \A m, n \in manifests : m.seq = n.seq => m = n
  /\ \A m \in manifests : \A p \in m.paths : p[2] <= LastWal

(* A snapshot that a WAL file records and no manifest covers. *)
Unfinished(d) == d.last > LastWal

(* There is at most one unfinished snapshot among the WAL files.  It is the one
   after the newest manifest's, and it is being persisted, about to be, or yet
   to be replayed; the tracker counts it. *)
SeqInv ==
  /\ \A w \in walFiles : \A d \in w.snap : w.num > LastWal =>
       IF Unfinished(d) THEN d.seq = LastSnapshot + 1 ELSE d.seq <= LastSnapshot
  /\ \A v, w \in walFiles : \A d \in v.snap : \A e \in w.snap :
       Unfinished(d) /\ Unfinished(e) => v = w
  /\ status # "down" =>
       LET started == IF Persisting THEN 1 ELSE 0
       IN /\ (\A w \in Flying : w.snap = {}) => tracker.snap = LastSnapshot + started
          /\ \A w \in Flying : \A d \in w.snap :
               d.seq = LastSnapshot + started + 1 /\ tracker.snap = d.seq
  /\ status = "replay" =>
       \A w \in walFiles : \A d \in w.snap : w.num \in todo =>
         IF Unfinished(d) THEN d.seq = highWater + 1 /\ ~ Persisting
                          ELSE d.seq <= highWater
  /\ status # "down" =>
       \A w \in walFiles : \A d \in w.snap : Unfinished(d) =>
         \/ Persisting /\ d \in task.details
         \/ w \in Flying
         \/ status = "replay" /\ w.num \in todo

(* Started from file x + 1, the tracker takes nothing at a file of F whose
   snapshot ended at or before x: a replay from there decides as the flush
   did. *)
Settled(x, F) ==
  \A w \in F : \A d \in w.snap : w.num > x /\ d.last <= x =>
    /\ ~ d.forced /\ w.num - x < 3 * SnapshotSize
    /\ \A u \in F : u.num = x + 1 => u.max >= ChunkTime(w.max)

(* w records what the tracker decides at w when it starts after x. *)
Made(w, d, x, F) ==
  /\ x < d.last /\ d.last <= w.num
  /\ \A u \in F : x < u.num /\ u.num <= d.last => ChunkTime(u.max) < d.marker
  /\ \/ d.forced /\ d.last = w.num
     \/ /\ ~ d.forced /\ d.marker = ChunkTime(w.max) /\ d.last < w.num
        /\ PeriodsToSnapshotAfter <= w.num - x /\ w.num - x < 3 * SnapshotSize
        /\ \A u \in F : x < u.num /\ u.num <= d.last => u.max < d.marker
        /\ \A u \in F : u.num = d.last + 1 => u.max >= d.marker

(* The tracker has one period for each file after Taken, and a replay from any
   manifest that may be the newest at a crash repeats its decisions. *)
TrackInv ==
  /\ Settled(LastWal, Begun)
  /\ \A w \in Begun : \A d \in w.snap : Unfinished(d) => Settled(d.last, Begun)
  /\ \A w \in walFiles : \A d \in w.snap : Unfinished(d) => Made(w, d, LastWal, walFiles)
  /\ status # "down" =>
       /\ \A i \in 1..Len(tracker.periods) :
            /\ tracker.periods[i].wal = Taken + i
            /\ \A u \in Begun : u.num = Taken + i => tracker.periods[i].max = u.max
       /\ (\A w \in Flying : w.snap = {}) => Taken = Base
       /\ \A w \in Flying : w.num > Base
       /\ \A w \in Flying : \A d \in w.snap : Taken = d.last /\ Made(w, d, Base, Begun)

(* The snapshot task: what it persists is the unfinished snapshot, what it
   cleans up is covered by the newest manifest, and it holds the permit. *)
TaskInv ==
  /\ task.phase = "none" => task = NoTask
  /\ Persisting =>
       \E d \in task.details :
         /\ task.details = {d} /\ \E w \in walFiles : w \notin Flying /\ d \in w.snap /\ w.num < walNumber
         /\ Unfinished(d)
         /\ \E c \in task.cleanup : task.cleanup = {c} /\ c.last = d.last
         /\ \A p \in task.paths : p[2] = d.last /\ p[1] \notin task.jobs
  /\ task.phase \in {"cleanup", "delete"} =>
       /\ \A c \in task.cleanup : c.last <= LastWal
       /\ \A n \in task.doomed : n < LastWal
  /\ permit => task.phase = "none"
  /\ \A f \in Flushers : pc[f] \in {"put", "notify"} /\ inflight[f].snap # {} =>
       ~ permit /\ task.phase = "none"
  /\ \A f \in Flushers : pc[f] = "permit" => inflight[f].snap # {}
  /\ \A f \in Flushers : pc[f] = "notify" => inflight[f] \in walFiles

Stored == RowsAt(ManifestPaths)
Written == IF Persisting THEN RowsAt(task.paths) ELSE {}

(* Where rows are: those of a loaded WAL file in the buffer, in a frozen chunk,
   in a file of this snapshot or in a file of a manifest; those the running
   snapshot covers not in the buffer alone. *)
DataInv ==
  /\ snapshotting \subseteq {r \in Rows : Persisting /\ RowChunk(r) \in task.jobs}
  /\ status # "down" =>
       /\ ManifestPaths \subseteq files
       /\ \A p \in files : p[2] <= LastWal \/ (Persisting /\ p \in task.paths)
       /\ Persisting => task.paths \subseteq files
       /\ \A w \in walFiles \ Flying : LastWal < w.num /\ w.num < walNumber =>
            w.rows \subseteq buffer \cup snapshotting \cup Written \cup Stored
       /\ Persisting =>
            \A w \in walFiles : LastWal < w.num /\ w.num <= Base =>
              w.rows \subseteq snapshotting \cup Written \cup Stored

DurableInv ==
  /\ CalmInv /\ FileInv /\ ManifestInv /\ SeqInv /\ TrackInv /\ TaskInv /\ DataInv
  /\ Durable /\ Queryable

(* The periods are those of the files after Taken, one for each. *)
Aligned(p, x, F) ==
  \A i \in 1..Len(p) :
    /\ p[i].wal = x + i /\ p[i].max \in Nat
    /\ \A u \in F : u.num = x + i => p[i].max = u.max

(* What the flush that begins v decides: L is the tracker it leaves. *)
Decided(v, L) ==
  /\ walNumber > Base /\ \A u \in Begun : u.num < walNumber
  /\ \A d, e \in v.snap : d = e
  /\ v.snap = {} => L.snap = tracker.snap /\ walNumber - Len(L.periods) = Base
  /\ \A d \in v.snap : /\ walNumber - Len(L.periods) = d.last /\ d.last > Base
                       /\ d.seq = tracker.snap + 1 /\ L.snap = d.seq
                       /\ Made(v, d, Base, Begun \cup {v}) /\ Settled(d.last, Begun \cup {v})
  /\ \A i \in 1..Len(L.periods) :
       /\ L.periods[i].wal = walNumber - Len(L.periods) + i
       /\ \A u \in Begun \cup {v} : u.num = walNumber - Len(L.periods) + i => L.periods[i].max = u.max
  /\ \A y \in Nat : y <= Base /\ Settled(y, Begun) => Settled(y, Begun \cup {v})

(* What replaying a file does: a snapshot that is through is not taken again,
   and one that is not takes the files it took before. *)
Replayed(w, tr) ==
  /\ tr \in Tracker /\ tr.snap = tracker.snap
  /\ Len(tr.periods) = walNumber - LastWal /\ Aligned(tr.periods, LastWal, walFiles)
  /\ \/ /\ tracker' = tr /\ UNCHANGED <<task, permit>> /\ Notify(w.rows)
        /\ \A d \in w.snap : ~ Unfinished(d)
     \/ \E d \in w.snap : \E x :
          /\ Unfinished(d) /\ Made(w, d, LastWal, walFiles)
          /\ x.last = d.last /\ NotifyAndSnapshot(w.rows, d, {x})
          /\ Left(tr, d.last - LastWal, tracker') /\ permit' = FALSE
          /\ d.last - LastWal \in 1..Len(tr.periods)

(* Only a clean-up under way has files left to remove. *)
DoomInv == task.doomed \subseteq Nat /\ (task.phase # "delete" => task.doomed = {})
=============================================================================
