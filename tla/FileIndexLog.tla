---------------------------- MODULE FileIndexLog ----------------------------
(***************************************************************************)
(* The shared file index log (influxdb3_cluster/src/file_index/log.rs): a  *)
(* directory of log objects appended by compare-and-swap, a rollup snapshot*)
(* that is overwritten in place, and the pruning of the objects it covers. *)
(*                                                                         *)
(* Every node runs spawn_file_index_sync (task <<n, "sync">>): a load into *)
(* a private index, merged into the node's index, then a poll of sync      *)
(* forever.  A publisher also runs run_publisher (task <<n, "append">>),   *)
(* which syncs and then may append.  The two tasks of a node share         *)
(* index[n]; both are spawned without waiting for the first load.          *)
(*                                                                         *)
(* A step is one object-store request or one acquisition of the index lock.*)
(* The object store is strongly consistent: LIST and GET are one step.     *)
(***************************************************************************)
EXTENDS FileIndex

CONSTANTS Publishers,        \* nodes that ingest
          Deltas,            \* what a publisher may append
          SnapshotInterval,  \* --file-index-snapshot-interval, 0 is never
          MaxAttempts,       \* MAX_APPEND_ATTEMPTS
          MaxRestarts,       \* bound: restarts of the nodes, all together
          MayRestart,        \* the nodes that may restart
          Faults             \* "store": requests may fail
                             \* "prune": deletes may fail
                             \* "unordered": LIST order is not name order

ASSUME PublishersAssumption == Publishers \subseteq Nodes
ASSUME IntervalAssumption == SnapshotInterval \in Nat
ASSUME AttemptsAssumption == MaxAttempts \in Nat \ {0}
ASSUME RestartsAssumption == MaxRestarts \in Nat /\ MayRestart \subseteq Nodes

\* A delta's files are its node's, and its time bound covers what it adds.
ASSUME DeltasAssumption ==
  /\ Deltas \subseteq FileIndexDelta
  /\ \A d \in Deltas :
       /\ d.node \in Publishers
       /\ \A p \in d.added : OwnerOf[p] = d.node /\ TimeOf[p] <= d.max_time

VARIABLES
  log,        \* the log objects: a set of FileIndexLogEntry
  snapshot,   \* the rollup snapshot: {} or {an Inner}
  index,      \* [Nodes -> Inner], the FileIndex each node's tasks share
  pc,         \* where each task is
  caller,     \* who called sync: "load", "poll", "publish" or "append"
  view,       \* the index a task holds privately: loaded, got, or collapsed
  held,       \* the entries sync has fetched and not yet applied
  deltas,     \* the argument of append: {} or {a delta}
  slot,       \* the sequence append tries to create
  tries,      \* the attempts append has used
  doomed,     \* the sequences prune_logs_through still has to delete
  restarts,
  created     \* history: every log object ever created

store == <<log, snapshot, created>>
locals == <<held, deltas, slot, tries, doomed>>
vars == <<log, snapshot, index, pc, caller, view, held, deltas, slot, tries,
          doomed, restarts, created>>

Tasks == (Nodes \X {"sync"}) \cup (Publishers \X {"append"})

FileIndexLogEntry == [sequence: Nat \ {0}, delta: Deltas]
Entry(sequence, delta) == [sequence |-> sequence, delta |-> delta]
Sequences(S) == {e.sequence : e \in S}

(* load() works on an index of its own, the other callers on the shared one*)
Target(t) == IF caller[t] = "load" THEN view[t] ELSE index[t[1]]
SetTarget(t, value) ==
  IF caller[t] = "load"
  THEN view' = [view EXCEPT ![t] = value] /\ UNCHANGED index
  ELSE index' = [index EXCEPT ![t[1]] = value] /\ UNCHANGED view

Goto(t, label) == pc' = [pc EXCEPT ![t] = label]

(* Where sync returns to. *)
Return(t) == IF caller[t] = "load" THEN "merge"
             ELSE IF caller[t] = "poll" THEN "idle"
             ELSE IF caller[t] = "publish" THEN "synced" ELSE "slot"

(* The task waits for its next tick, its locals dropped. *)
Finish(t) ==
  /\ Goto(t, "idle")
  /\ caller' = [caller EXCEPT ![t] = "poll"]
  /\ view' = [view EXCEPT ![t] = EmptyIndex]
  /\ held' = [held EXCEPT ![t] = {}]
  /\ deltas' = [deltas EXCEPT ![t] = {}]
  /\ slot' = [slot EXCEPT ![t] = 0]
  /\ tries' = [tries EXCEPT ![t] = 0]
  /\ doomed' = [doomed EXCEPT ![t] = {}]

Start(t) == IF t[2] = "sync" THEN "load" ELSE "idle"

Init ==
  /\ log = {} /\ snapshot = {}
  /\ index = [n \in Nodes |-> EmptyIndex]
  /\ pc = [t \in Tasks |-> Start(t)]
  /\ caller = [t \in Tasks |-> "poll"]
  /\ view = [t \in Tasks |-> EmptyIndex]
  /\ held = [t \in Tasks |-> {}]
  /\ deltas = [t \in Tasks |-> {}]
  /\ slot = [t \in Tasks |-> 0]
  /\ tries = [t \in Tasks |-> 0]
  /\ doomed = [t \in Tasks |-> {}]
  /\ restarts = 0
  /\ created = {}

-----------------------------------------------------------------------------
(* FileIndexLog::sync                                                      *)

CallSync(t, who) ==
  /\ Goto(t, "sync")
  /\ caller' = [caller EXCEPT ![t] = who]

\* Mutant of SyncList: the offset is one too high.
SyncListSkips(t) ==
  /\ pc[t] = "sync"
  /\ held' = [held EXCEPT ![t] = {e \in log : e.sequence > Target(t).sequence + 1}]
  /\ Goto(t, "fetch")
  /\ UNCHANGED <<store, index, caller, view, deltas, slot, tries, doomed, restarts>>

(* load_after: LIST the objects above the position.                        *)
SyncList(t) ==
  /\ pc[t] = "sync"
  /\ held' = [held EXCEPT ![t] = {e \in log : e.sequence > Target(t).sequence}]
  /\ Goto(t, "fetch")
  /\ UNCHANGED <<store, index, caller, view, deltas, slot, tries, doomed, restarts>>

\* Mutant of Gap: a pruned log is never noticed.
GapIgnored(position, entries) == FALSE

(* load_after: GET each of them, which fails when one was pruned meanwhile;
   then the gap check, against the position as it is now.                  *)
Gap(position, entries) ==
  /\ entries # {}
  /\ \A e \in entries : e.sequence > position + 1

SyncFetch(t) ==
  /\ pc[t] = "fetch"
  /\ LET got == {e \in log : e.sequence \in Sequences(held[t])}
     IN IF Sequences(got) # Sequences(held[t])
        THEN Finish(t)
        ELSE /\ held' = [held EXCEPT ![t] = got]
             /\ Goto(t, IF got = {} THEN Return(t)
                        ELSE IF Gap(Target(t).sequence, got) THEN "restore"
                        ELSE "apply")
             /\ UNCHANGED <<caller, view, deltas, slot, tries, doomed>>
  /\ UNCHANGED <<store, index, restarts>>

(* restore_from_snapshot: GET the snapshot.  reset_from clears the index
   under one lock and refills it under another; load's index is private.   *)
RestoreGet(t) ==
  /\ pc[t] = "restore"
  /\ \/ /\ snapshot = {}
        /\ Goto(t, "apply") /\ UNCHANGED view
     \/ \E s \in snapshot :
          /\ view' = [view EXCEPT ![t] = s]
          /\ Goto(t, IF caller[t] = "load" THEN "apply" ELSE "clear")
  /\ UNCHANGED <<store, index, caller, locals, restarts>>

ResetClear(t) ==
  /\ pc[t] = "clear"
  /\ index' = [index EXCEPT ![t[1]] = EmptyIndex]
  /\ Goto(t, "fill")
  /\ UNCHANGED <<store, caller, view, locals, restarts>>

ResetFill(t) ==
  /\ pc[t] = "fill"
  /\ index' = [index EXCEPT ![t[1]] = Restore(@, view[t])]
  /\ Goto(t, "apply")
  /\ view' = [view EXCEPT ![t] = EmptyIndex]
  /\ UNCHANGED <<store, caller, locals, restarts>>

\* Mutant of SyncApply: the entries are not sorted.
SyncApplyUnsorted(t) ==
  /\ pc[t] = "apply"
  /\ \E e \in held[t] :
       /\ SetTarget(t, Apply(Target(t), e.sequence, e.delta))
       /\ held' = [held EXCEPT ![t] = @ \ {e}]
       /\ Goto(t, IF held[t] = {e} THEN Return(t) ELSE "apply")
  /\ UNCHANGED <<store, caller, deltas, slot, tries, doomed, restarts>>

(* Apply the fetched entries, lowest sequence first.                       *)
SyncApply(t) ==
  /\ pc[t] = "apply"
  /\ \E e \in held[t] :
       /\ \A f \in held[t] : e.sequence <= f.sequence
       /\ SetTarget(t, Apply(Target(t), e.sequence, e.delta))
       /\ held' = [held EXCEPT ![t] = @ \ {e}]
       /\ Goto(t, IF held[t] = {e} THEN Return(t) ELSE "apply")
  /\ UNCHANGED <<store, caller, deltas, slot, tries, doomed, restarts>>

-----------------------------------------------------------------------------
(* spawn_file_index_sync                                                   *)

(* load: GET the snapshot into a fresh index, then sync that index.        *)
LoadGet(t) ==
  /\ pc[t] = "load"
  /\ \/ snapshot = {} /\ UNCHANGED view
     \/ \E s \in snapshot : view' = [view EXCEPT ![t] = Restore(EmptyIndex, s)]
  /\ CallSync(t, "load")
  /\ UNCHANGED <<store, index, locals, restarts>>

(* index.merge_from(&loaded). *)
LoadMerge(t) ==
  /\ pc[t] = "merge"
  /\ index' = [index EXCEPT ![t[1]] = Restore(@, view[t])]
  /\ Finish(t)
  /\ UNCHANGED <<store, restarts>>

PollSync(t) ==
  /\ pc[t] = "idle" /\ t[2] = "sync"
  /\ CallSync(t, "poll")
  /\ UNCHANGED <<store, index, view, locals, restarts>>
-----------------------------------------------------------------------------
(* FileIndexLog::append, called by publish_pending after a sync of its own *)

\* Mutant of PublishSync: the log is not read again before resuming.
PublishStale(t) ==
  /\ pc[t] = "idle" /\ t[2] = "append"
  /\ Goto(t, "synced")
  /\ UNCHANGED <<store, index, caller, view, locals, restarts>>

PublishSync(t) ==
  /\ pc[t] = "idle" /\ t[2] = "append"
  /\ CallSync(t, "publish")
  /\ UNCHANGED <<store, index, view, locals, restarts>>

PublishNothing(t) ==
  /\ pc[t] = "synced"
  /\ Finish(t)
  /\ UNCHANGED <<store, index, restarts>>

AppendCall(t, delta) ==
  /\ pc[t] = "synced"
  /\ delta.node = t[1]
  /\ deltas' = [deltas EXCEPT ![t] = {delta}]
  /\ CallSync(t, "append")
  /\ UNCHANGED <<store, index, view, held, slot, tries, doomed, restarts>>

\* Mutant of AppendSlot: sequence() for sequence().next().
AppendSlotReused(t) ==
  /\ pc[t] = "slot"
  /\ slot' = [slot EXCEPT ![t] = index[t[1]].sequence]
  /\ Goto(t, "put")
  /\ UNCHANGED <<store, index, caller, view, held, deltas, tries, doomed, restarts>>

AppendSlot(t) ==
  /\ pc[t] = "slot"
  /\ slot' = [slot EXCEPT ![t] = index[t[1]].sequence + 1]
  /\ Goto(t, "put")
  /\ UNCHANGED <<store, index, caller, view, held, deltas, tries, doomed, restarts>>

\* Mutant of Create: PutMode::Overwrite.
CreateOverwrites(entry) ==
  /\ log' = {e \in log : e.sequence # entry.sequence} \cup {entry}
  /\ created' = created \cup {entry}
  /\ UNCHANGED snapshot

Create(entry) ==
  /\ entry.sequence \notin Sequences(log)
  /\ log' = log \cup {entry}
  /\ created' = created \cup {entry}
  /\ UNCHANGED snapshot

(* PutMode::Create: taken means somebody else's entry holds the slot.      *)
AppendPut(t) ==
  /\ pc[t] = "put"
  /\ \/ /\ \E d \in deltas[t] : Create(Entry(slot[t], d))
        /\ Goto(t, "own")
        /\ UNCHANGED <<caller, view, held, deltas, slot, tries, doomed>>
     \/ /\ slot[t] \in Sequences(log)
        /\ IF tries[t] + 1 < MaxAttempts
           THEN /\ tries' = [tries EXCEPT ![t] = @ + 1]
                /\ CallSync(t, "append")
                /\ UNCHANGED <<view, held, deltas, slot, doomed>>
           ELSE Finish(t)
        /\ UNCHANGED store
  /\ UNCHANGED <<index, restarts>>

AppendApply(t) ==
  /\ pc[t] = "own"
  /\ \E d \in deltas[t] : index' = [index EXCEPT ![t[1]] = Apply(@, slot[t], d)]
  /\ Goto(t, "maybe")
  /\ UNCHANGED <<store, caller, view, locals, restarts>>

(* maybe_snapshot reads the position again, and to_snapshot once more.     *)
MaybeSnapshot(t) ==
  /\ pc[t] = "maybe"
  /\ IF SnapshotInterval # 0 /\ index[t[1]].sequence % SnapshotInterval = 0
     THEN Goto(t, "collapse") /\ UNCHANGED <<caller, view, locals>>
     ELSE Finish(t)
  /\ UNCHANGED <<store, index, restarts>>

ToSnapshot(t) ==
  /\ pc[t] = "collapse"
  /\ view' = [view EXCEPT ![t] = index[t[1]]]
  /\ Goto(t, "rollup")
  /\ UNCHANGED <<store, index, caller, locals, restarts>>

(* write_snapshot: an overwriting PUT, whatever is stored now.             *)
WriteSnapshot(t) ==
  /\ pc[t] = "rollup"
  /\ snapshot' = {view[t]}
  /\ Goto(t, "prune")
  /\ UNCHANGED <<log, created, index, caller, view, locals, restarts>>

PruneList(t) ==
  /\ pc[t] = "prune"
  /\ LET covered == {q \in Sequences(log) : q <= view[t].sequence}
     IN IF covered = {}
        THEN Finish(t)
        ELSE /\ doomed' = [doomed EXCEPT ![t] = covered]
             /\ Goto(t, "delete")
             /\ UNCHANGED <<caller, view, held, deltas, slot, tries>>
  /\ UNCHANGED <<store, index, restarts>>

(* One delete; a failed one is left for the next rollup, NotFound is fine. *)
PruneDelete(t) ==
  /\ pc[t] = "delete"
  /\ \E q \in doomed[t] :
       /\ "unordered" \notin Faults => \A r \in doomed[t] : q <= r
       /\ \/ log' = {e \in log : e.sequence # q}
          \/ "prune" \in Faults /\ log' = log
       /\ IF doomed[t] = {q}
          THEN Finish(t)
          ELSE /\ doomed' = [doomed EXCEPT ![t] = @ \ {q}]
               /\ UNCHANGED <<pc, caller, view, held, deltas, slot, tries>>
  /\ UNCHANGED <<snapshot, created, index, restarts>>

-----------------------------------------------------------------------------
(* A request fails: every caller logs it and waits for its next tick.  A
   failed PUT may have landed.                                             *)
StoreFail(t) ==
  /\ "store" \in Faults
  /\ pc[t] \in {"load", "sync", "fetch", "restore", "put", "rollup", "prune"}
  /\ \/ UNCHANGED store
     \/ pc[t] = "put" /\ \E d \in deltas[t] : Create(Entry(slot[t], d))
     \/ /\ pc[t] = "rollup" /\ snapshot' = {view[t]}
        /\ UNCHANGED <<log, created>>
  /\ Finish(t)
  /\ UNCHANGED <<index, restarts>>

(* A node's memory is lost; its tasks start over.                          *)
Lost(f, n, v) == [t \in Tasks |-> IF t[1] = n THEN v ELSE f[t]]

Restart(n) ==
  /\ restarts < MaxRestarts /\ n \in MayRestart
  /\ restarts' = restarts + 1
  /\ pc' = [t \in Tasks |-> IF t[1] = n THEN Start(t) ELSE pc[t]]
  /\ caller' = Lost(caller, n, "poll")
  /\ view' = Lost(view, n, EmptyIndex)
  /\ held' = Lost(held, n, {})
  /\ deltas' = Lost(deltas, n, {})
  /\ slot' = Lost(slot, n, 0)
  /\ tries' = Lost(tries, n, 0)
  /\ doomed' = Lost(doomed, n, {})
  /\ index' = [index EXCEPT ![n] = EmptyIndex]
  /\ UNCHANGED store

SyncStep(t) ==
  SyncList(t) \/ SyncFetch(t) \/ RestoreGet(t) \/ ResetClear(t) \/ ResetFill(t)
    \/ SyncApply(t)

LoadStep(t) == LoadGet(t) \/ LoadMerge(t) \/ PollSync(t)

AppendStep(t) ==
  AppendSlot(t) \/ AppendPut(t) \/ AppendApply(t) \/ MaybeSnapshot(t)
    \/ ToSnapshot(t) \/ WriteSnapshot(t) \/ PruneList(t) \/ PruneDelete(t)

PublishStep(t) ==
  PublishSync(t) \/ PublishNothing(t) \/ \E d \in Deltas : AppendCall(t, d)

Next ==
  \/ \E t \in Tasks :
       SyncStep(t) \/ LoadStep(t) \/ AppendStep(t) \/ PublishStep(t) \/ StoreFail(t)
  \/ \E n \in Nodes : Restart(n)

Spec == Init /\ [][Next]_vars
-----------------------------------------------------------------------------
(* Properties                                                              *)

Labels == {"idle", "sync", "fetch", "restore", "clear", "fill", "apply", "load",
           "merge", "synced", "slot", "put", "own", "maybe", "collapse",
           "rollup", "prune", "delete"}

(* The variables keep their types. *)
TypeOK ==
  /\ log \in SUBSET FileIndexLogEntry
  /\ snapshot \in SUBSET Inner
  /\ index \in [Nodes -> Inner]
  /\ pc \in [Tasks -> Labels]
  /\ caller \in [Tasks -> {"load", "poll", "publish", "append"}]
  /\ view \in [Tasks -> Inner]
  /\ held \in [Tasks -> SUBSET FileIndexLogEntry]
  /\ deltas \in [Tasks -> SUBSET Deltas]
  /\ slot \in [Tasks -> Nat]
  /\ tries \in [Tasks -> Nat]
  /\ doomed \in [Tasks -> SUBSET Nat]
  /\ restarts \in Nat
  /\ created \in SUBSET FileIndexLogEntry

(* An index's position is at or above every added_at in it, and each node's
   persisted_max_times is at or above the max_time of every file of that node
   it holds.                                                               *)
Bounded(ix) ==
  \A p \in Paths : Holds(ix, p) =>
    /\ ix.files[p] <= ix.sequence
    /\ TimeOf[p] <= ix.persisted_max_times[OwnerOf[p]]

(* Whatever the interleaving of apply, merge_from, reset_from, rollups and
   restarts, every index, and the stored rollup, is Bounded: the querier's
   proof that a peer's buffer cannot match (persisted_max_time) never rests
   on a bound lower than a file it can see.                                *)
TimesCoverFiles ==
  /\ \A n \in Nodes : Bounded(index[n])
  /\ \A s \in snapshot : Bounded(s)

(* What a log of the entries C says at position q: which files are present,
   where the stay of a present file began, and the highest of some values.
   This is the meaning of the log, stated without replaying it.            *)
Upto(C, q) == {e \in C : e.sequence <= q}
Present(C, p, q) ==
  \E e \in Upto(C, q) :
    /\ p \in e.delta.added
    /\ \A f \in Upto(C, q) : f.sequence > e.sequence => p \notin f.delta.removed
AddedAt(C, p, q, s) ==
  \E e \in Upto(C, q) :
    /\ e.sequence = s /\ p \in e.delta.added
    /\ p \in e.delta.removed \/ ~Present(C, p, s - 1)
    /\ \A f \in Upto(C, q) : f.sequence > s => p \notin f.delta.removed
Watermarks(C, n, q) == {e.delta.snapshot_sequence : e \in {f \in Upto(C, q) : f.delta.node = n}}
Times(C, n, q) == {e.delta.max_time : e \in {f \in Upto(C, q) : f.delta.node = n}}
Highest(v, S, none) == (\A u \in S : u <= v) /\ (v \in S \/ v = none)

(* An index that leaves out nothing the log says up to its position ...    *)
Complete(C, ix) ==
  /\ \A p \in Paths : Present(C, p, ix.sequence) => Holds(ix, p)
  /\ \A n \in Nodes :
       /\ Highest(ix.watermarks[n], Watermarks(C, n, ix.sequence), 0)
       /\ Highest(ix.persisted_max_times[n], Times(C, n, ix.sequence), NoTime)

(* ... and adds nothing to it.                                             *)
Exact(C, ix) ==
  /\ Complete(C, ix)
  /\ \A p \in Paths : Holds(ix, p) => AddedAt(C, p, ix.sequence, ix.files[p])

(* Until the first rollup every node's index, at the position it claims, has
   every file and watermark the entries up to that position produce: sync,
   append and the load racing on one FileIndex never skip an entry.        *)
ReplayComplete == snapshot = {} => \A n \in Nodes : Complete(created, index[n])

(* Until the first rollup a node that does not publish holds exactly what
   the log says at its position: apply is a replay of a total order.       *)
ReplayExact ==
  snapshot = {} => \A n \in Nodes \ Publishers : Exact(created, index[n])

(* Until the first rollup a sequence is created once: the compare-and-swap
   makes the sequence a total order of the appends of all publishers.      *)
CreatedOnce ==
  snapshot = {} => \A e, f \in created : e.sequence = f.sequence => e = f

(* With rollups on, every index is complete at the position it claims, but
   for the moment between reset_from's two locks.                          *)
RollupComplete ==
  \A n \in Nodes :
    (\A t \in Tasks : t[1] = n => pc[t] # "fill") => Complete(created, index[n])

(* Rollups or not, a sequence names one entry: "it is why the sequence can
   be trusted as a total order" (log.rs:15).                               *)
TotalOrder == \A e, f \in created : e.sequence = f.sequence => e = f
=============================================================================
