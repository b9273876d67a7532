------------------------------ MODULE PeerRead ------------------------------
(***************************************************************************)
(* A query on one node over rows another node has ingested                 *)
(* (influxdb3_cluster/src/lib.rs, peer_chunk.rs, rpc/server.rs): the       *)
(* reader plans the peer's Parquet files from its replica of the file      *)
(* index and asks the peer for its buffer and for the files above the      *)
(* highest id the reader knows, while the peer snapshots, compacts and     *)
(* publishes.                                                              *)
(*                                                                         *)
(* One table.  Row r is the r-th row written and time[r] its timestamp; a  *)
(* file is its id and its rows.  The peer stays up: an answer that does    *)
(* not come is an error of the query, and so is a planned file that is     *)
(* gone.                                                                   *)
(***************************************************************************)
EXTENDS Manifests, FiniteSets, Sequences

CONSTANTS Times,            \* timestamps
          ChunkSize,        \* gen1 duration
          MaxRows,          \* bound: rows written
          MaxCompactions    \* bound: compactions

ASSUME PeerReadAssumption ==
  /\ Times \subseteq Nat /\ \E t \in Times : \A u \in Times : u <= t
  /\ ChunkSize \in Nat \ {0}
  /\ MaxRows \in Nat /\ MaxCompactions \in Nat

VARIABLES
  time,        \* history: the rows' timestamps, in the order they arrived
  late,        \* history: rows no newer than one a snapshot had taken by then
  open,        \* rows in the peer's live chunks
  frozen,      \* its snapshotting chunks: sets of rows
  writing,     \* files that have an id and are not handed over yet
  files,       \* its PersistedFiles
  nextId,      \* its ParquetFileId counter
  nextSeq,     \* its snapshot sequence numbers
  snap,        \* {} or {the snapshot under way: [seq, added]}
  comp,        \* {} or {the compaction notice it is applying}
  compactions, \* their number
  manifests, drained,
  pos,         \* the manifest number the reader's index has reached
  q            \* the reader's query

bufferVars == <<open, frozen, writing>>
peerVars == <<files, nextId, nextSeq, snap, comp, compactions>>
storeVars == <<manifests, drained>>
vars == <<time, late, bufferVars, peerVars, storeVars, pos, q>>

Rows == DOMAIN time
RowsOf(F) == UNION {f.rows : f \in F}
None == -1           \* no file id, or no timestamp: below every one there is
Unbounded == Max(Times) + 1

(* A query: its upper bound, whether it leaves the peer out, the ticket's file
   id, and the rows it is to return and has no source for so far.          *)
Query(pc, upper, skip, since, missing) ==
  [pc |-> pc, upper |-> upper, skip |-> skip, since |-> since, missing |-> missing]

Init ==
  /\ time = <<>> /\ late = {}
  /\ open = {} /\ frozen = {} /\ writing = {}
  /\ files = {} /\ nextId = 0 /\ nextSeq = 1 /\ snap = {} /\ comp = {}
  /\ compactions = 0
  /\ manifests = {} /\ drained = {} /\ pos = 0
  /\ q = Query("done", None, FALSE, None, {})

-----------------------------------------------------------------------------
(* The peer: buffer, snapshots, compactions, publisher                     *)

(* The rows some snapshot has taken; a row that is not newer than all of them
   is late.                                                                *)
Taken == {time[r] : r \in Rows \ open} \cup {None}

Write(t) ==
  /\ Len(time) < MaxRows
  /\ time' = Append(time, t)
  /\ open' = open \cup {Len(time) + 1}
  /\ late' = IF t <= Max(Taken) THEN late \cup {Len(time) + 1} ELSE late
  /\ UNCHANGED <<frozen, writing, peerVars, storeVars, pos, q>>

ChunkTime(r) == time[r] - (time[r] % ChunkSize)

(* A snapshot freezes the chunks below its marker; the permit admits one at a
   time.  (One that freezes nothing changes nothing a query sees.)         *)
Freeze(marker) ==
  LET old == {r \in open : ChunkTime(r) < marker}
  IN /\ snap = {} /\ old # {}
     /\ frozen' = {{s \in old : ChunkTime(s) = ChunkTime(r)} : r \in old}
     /\ open' = open \ old
     /\ snap' = {[seq |-> nextSeq, added |-> {}]}
     /\ nextSeq' = nextSeq + 1
     /\ UNCHANGED <<time, late, writing, files, nextId, comp, compactions, storeVars,
                    pos, q>>

(* A persist job has written its chunk's object and takes an id for it ... *)
JobWrite(c) ==
  /\ c \in frozen /\ c \notin {f.rows : f \in writing}
  /\ writing' = writing \cup {[id |-> nextId, rows |-> c]}
  /\ nextId' = nextId + 1
  /\ UNCHANGED <<time, late, open, frozen, files, nextSeq, snap, comp, compactions,
                 storeVars, pos, q>>

(* ... and exchanges chunk and file under the buffer's lock.               *)
JobHandOver(f) ==
  /\ f \in writing /\ writing' = writing \ {f}
  /\ files' = files \cup {f}
  /\ frozen' = frozen \ {f.rows}
  /\ snap' = {[s EXCEPT !.added = @ \cup {f}] : s \in snap}
  /\ UNCHANGED <<time, late, open, nextId, nextSeq, comp, compactions, storeVars,
                 pos, q>>

(* The manifest, after all jobs. *)
PersistManifest ==
  /\ snap # {} /\ frozen = {} /\ writing = {}
  /\ manifests' = manifests \cup {Manifest(s.seq, s.added, {}) : s \in snap}
  /\ snap' = {}
  /\ UNCHANGED <<time, late, bufferVars, files, nextId, nextSeq, comp, compactions,
                 drained, pos, q>>

\* Mutant of CompactStart: the merged file takes no id of its own.
CompactStartReusesId(inputs) ==
  /\ comp = {} /\ compactions < MaxCompactions /\ Cardinality(inputs) >= 2
  /\ comp' = {[stage |-> "swap", merged |-> [id |-> nextId, rows |-> RowsOf(inputs)],
               inputs |-> inputs, seq |-> 0]}
  /\ compactions' = compactions + 1
  /\ UNCHANGED <<time, late, bufferVars, files, nextId, nextSeq, snap, storeVars, pos, q>>

(* apply_compaction_locally: an id for the merged file of some published ones, *)
CompactStart(inputs) ==
  /\ comp = {} /\ compactions < MaxCompactions /\ Cardinality(inputs) >= 2
  /\ comp' = {[stage |-> "swap", merged |-> [id |-> nextId, rows |-> RowsOf(inputs)],
               inputs |-> inputs, seq |-> 0]}
  /\ nextId' = nextId + 1
  /\ compactions' = compactions + 1
  /\ UNCHANGED <<time, late, bufferVars, files, nextSeq, snap, storeVars, pos, q>>

(* the swap, *)
CompactSwap ==
  /\ \E c \in comp :
       /\ c.stage = "swap"
       /\ files' = (files \cup {c.merged}) \ c.inputs
       /\ comp' = {[c EXCEPT !.stage = "reserve"]}
  /\ UNCHANGED <<time, late, bufferVars, nextId, nextSeq, snap, compactions, storeVars,
                 pos, q>>

(* a number, *)
CompactReserve ==
  /\ \E c \in comp :
       /\ c.stage = "reserve"
       /\ comp' = {[c EXCEPT !.stage = "persist", !.seq = nextSeq]}
  /\ nextSeq' = nextSeq + 1
  /\ UNCHANGED <<time, late, bufferVars, files, nextId, snap, compactions, storeVars,
                 pos, q>>

(* and the manifest. *)
CompactPersist ==
  /\ \E c \in comp :
       /\ c.stage = "persist"
       /\ manifests' = manifests \cup {Manifest(c.seq, {c.merged}, c.inputs)}
  /\ comp' = {}
  /\ UNCHANGED <<time, late, bufferVars, files, nextId, nextSeq, snap, compactions,
                 drained, pos, q>>

\* Mutant of Publish: only the newest manifest is drained.
PublishNewest ==
  LET fresh == Undrained(manifests, drained)
  IN /\ fresh # {}
     /\ drained' = drained \cup {m \in fresh : m.seq = LastSeq(fresh)}
     /\ UNCHANGED <<time, late, bufferVars, peerVars, manifests, pos, q>>

Publish ==
  /\ Undrained(manifests, drained) # {}
  /\ drained' = drained \cup Undrained(manifests, drained)
  /\ UNCHANGED <<time, late, bufferVars, peerVars, manifests, pos, q>>

-----------------------------------------------------------------------------
(* The reader                                                              *)

Replayed == {m \in drained : m.seq <= pos}
Index == View(Replayed)

Sync ==
  /\ \E m \in drained : pos < m.seq /\ pos' = m.seq
  /\ UNCHANGED <<time, late, bufferVars, peerVars, storeVars, q>>

(* FileIndex::persisted_max_time, which no removal lowers. *)
PersistedMaxTime == Max({time[r] : r \in RowsOf(UNION {m.added : m \in Replayed})} \cup {None})

MaxFileId == Max({f.id : f \in Index} \cup {None})

Within(upper) == {r \in Rows : time[r] <= upper}

(* peer_buffer_chunks: is the peer to be asked?  To be returned is what the
   peer has at this moment.                                                *)
QueryStart(upper) ==
  /\ q.pc = "done"
  /\ LET skip == upper <= PersistedMaxTime
     IN q' = Query(IF skip THEN "plan" ELSE "ticket", upper, skip, None, Within(upper))
  /\ UNCHANGED <<time, late, bufferVars, peerVars, storeVars, pos>>

(* If so, the ticket says what the reader has. *)
QueryTicket ==
  /\ q.pc = "ticket"
  /\ q' = [q EXCEPT !.pc = "plan", !.since = MaxFileId]
  /\ UNCHANGED <<time, late, bufferVars, peerVars, storeVars, pos>>

(* get_files_filtered: the index's files that overlap the bound. *)
QueryPlan ==
  LET planned == {f \in Index : f.rows \cap Within(q.upper) # {}}
  IN /\ q.pc = "plan"
     /\ q' = Query(IF q.skip THEN "done" ELSE "fetch", None, q.skip, q.since,
                   q.missing \ RowsOf(planned))
     /\ UNCHANGED <<time, late, bufferVars, peerVars, storeVars, pos>>

(* buffer_batches, under one guard: the buffer and the files above since. *)
Served(since) == open \cup (UNION frozen) \cup RowsOf({f \in files : f.id > since})

\* Mutant of QueryFetch: since is read when the stream is polled.
QueryFetchLate ==
  /\ q.pc = "fetch"
  /\ q' = Query("done", None, q.skip, None, q.missing \ Served(MaxFileId))
  /\ UNCHANGED <<time, late, bufferVars, peerVars, storeVars, pos>>

(* DataFusion polls the peer's chunk. *)
QueryFetch ==
  /\ q.pc = "fetch"
  /\ q' = Query("done", None, q.skip, None, q.missing \ Served(q.since))
  /\ UNCHANGED <<time, late, bufferVars, peerVars, storeVars, pos>>

-----------------------------------------------------------------------------
Snapshotting ==
  \/ \E c \in frozen : JobWrite(c)
  \/ \E f \in writing : JobHandOver(f)
  \/ PersistManifest

Compacting == CompactSwap \/ CompactReserve \/ CompactPersist

Querying ==
  \/ \E upper \in Times \cup {Unbounded} : QueryStart(upper)
  \/ QueryTicket \/ QueryPlan \/ QueryFetch

Step ==
  \/ \E t \in Times : Write(t) \/ Freeze(t + 1)
  \/ Snapshotting \/ Sync
  \/ \E inputs \in SUBSET View(drained) : CompactStart(inputs)
  \/ Compacting \/ Querying

Next == Step \/ Publish

Spec == Init /\ [][Next]_vars

(* A compaction's manifest is in the store and that of the snapshot numbered
   below it is not: a publisher that polls now will never publish the
   snapshot's.  TimelySpec has every behaviour in which no poll falls there. *)
Overtakes == \E s \in snap : \E m \in manifests : s.seq < m.seq

TimelyNext == Step \/ (Publish /\ ~Overtakes)
TimelySpec == Init /\ [][TimelyNext]_vars

(* The jobs, the handler, the publisher and the sync loop are spawned tasks. *)
FairSpec ==
  /\ TimelySpec /\ WF_vars(Snapshotting) /\ WF_vars(Compacting)
  /\ WF_vars(Publish /\ ~Overtakes) /\ WF_vars(Sync)

-----------------------------------------------------------------------------
(* Properties                                                              *)

(* The variables keep their types; ids and numbers are given out once.     *)
TypeOK ==
  LET known == files \cup writing \cup {c.merged : c \in comp}
                 \cup (UNION {m.added : m \in manifests})
  IN /\ time \in Seq(Times) /\ open \subseteq Rows /\ late \subseteq Rows
     /\ \A f \in known : f.id \in 0..(nextId - 1) /\ f.rows \subseteq Rows
     /\ \A f, g \in known : f.id = g.id => f = g
     /\ \A m \in manifests : m.seq \in 1..(nextSeq - 1)
     /\ drained \subseteq manifests /\ pos \in 0..LastSeq(drained)
     /\ (\A s, t \in snap : s = t) /\ (\A c, d \in comp : c = d)
     /\ q.pc \in {"ticket", "plan", "fetch", "done"}

(* "a wrong skip means silently missing rows" (lib.rs:131).  A query that asks
   the peer returns every row within its bound that the peer had when it was
   planned, wherever a snapshot, a compaction, the publisher or the reader's
   sync had got to and whatever they did meanwhile: no row falls between the
   peer's buffer and the reader's index.  A query that skips the peer can miss
   late rows alone.  It needs TimelySpec: a snapshot's manifest that is
   overtaken never reaches the index, whose highest id is above its files'. *)
Complete ==
  q.pc = "done" => q.missing \subseteq (IF q.skip THEN late ELSE {})

(* Again and again the files the reader would plan hold every row a snapshot
   has taken, compacted or not: it does not depend on the peer for one of
   them for ever.                                                          *)
Arrives == []<>(Rows \ open \subseteq RowsOf(Index))
=============================================================================
