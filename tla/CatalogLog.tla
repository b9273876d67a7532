----------------------------- MODULE CatalogLog -----------------------------
(***************************************************************************)
(* The catalog shared by the nodes of a cluster (influxdb3_catalog/src/    *)
(* catalog/versions/v3/catalog.rs and object_store/versions/v3.rs): a log  *)
(* of create-only objects and one overwritten snapshot in the object       *)
(* store, and on every node an in-memory copy, a write permit, database    *)
(* transactions, a background follower and checkpoints.                    *)
(*                                                                         *)
(* A step is one object-store request with what its answer leads to under  *)
(* the node's locks.  log and snapshot survive every crash.  inner of a    *)
(* stopped node is a ghost: what it had when it stopped.                   *)
(***************************************************************************)
EXTENDS CatalogState, Sequences

CONSTANTS Nodes,
          MaxCalls,    \* bound: updates and transactions, of all nodes together
          MaxFaults,   \* bound: crashes and failed requests, likewise
          Faults       \* "stop": a process may die at any point
                       \* "put": a conditional PUT may fail, landed or not
                       \* "follow": a read of update_to_sequence_number
                       \* "checkpoint": a checkpoint's PUT

ASSUME CatalogAssumption ==
  MaxCalls \in Nat /\ MaxFaults \in Nat

VARIABLES
  log,        \* sequence number -> record
  snapshot,   \* {} or {the snapshot file}
  versions,   \* history: versions[s + 1] is the log's catalog at sequence s
  inner,      \* node -> InnerCatalog: [seq, cat]
  permit,     \* node -> the number under write_permit
  task,       \* node -> what holds the permit, or how far startup is
  txn,        \* node -> {} or {an open transaction}
  slot,       \* node -> {} or {the checkpoint holding checkpoint_slot}
  restoring,  \* node -> restore calls that still have to force a checkpoint
  calls, faults

nodeVars == <<inner, permit, task, txn, slot, restoring>>
vars == <<log, snapshot, versions, nodeVars, calls, faults>>

Image(seq, cat) == [seq |-> seq, cat |-> cat]
Initial == Image(0, Empty)

Down == [pc |-> "down"]
Free == [pc |-> "free"]
NoOp == [kind |-> "none"]
Replay(pc, image, todo) == [pc |-> pc, image |-> image, todo |-> todo]
Put(seq, op, rec) == [pc |-> "put", seq |-> seq, op |-> op, rec |-> rec]
Load(pc, seq, op, force) == [pc |-> pc, seq |-> seq, op |-> op, force |-> force]

Up(n) == task[n].pc \notin {"down", "init", "list", "replay"}

Init ==
  /\ log = [s \in {} |-> NoOp] /\ snapshot = {} /\ versions = <<Empty>>
  /\ inner = [n \in Nodes |-> Initial] /\ permit = [n \in Nodes |-> 0]
  /\ task = [n \in Nodes |-> Down]
  /\ txn = [n \in Nodes |-> {}] /\ slot = [n \in Nodes |-> {}]
  /\ restoring = [n \in Nodes |-> 0]
  /\ calls = 0 /\ faults = 0

Fault(kind) == kind \in Faults /\ faults < MaxFaults /\ faults' = faults + 1

-----------------------------------------------------------------------------
(* Startup: load_or_create_catalog                                         *)

LoadSnapshot(n) ==
  /\ task[n] = Down
  /\ \/ snapshot = {} /\ task' = [task EXCEPT ![n] = [pc |-> "init"]]
     \/ \E s \in snapshot :
          task' = [task EXCEPT ![n] = Replay("list", s, {})]
  /\ UNCHANGED <<log, snapshot, versions, inner, permit, txn, slot, restoring,
                 calls, faults>>

(* from_parts *)
Open(n, image) ==
  /\ inner' = [inner EXCEPT ![n] = image]
  /\ permit' = [permit EXCEPT ![n] = image.seq]
  /\ task' = [task EXCEPT ![n] = Free]

(* initialize_snapshot is create-only; the loser loads what the winner wrote. *)
InitSnapshot(n) ==
  /\ task[n].pc = "init"
  /\ \/ snapshot = {} /\ snapshot' = {Initial} /\ Open(n, Initial) /\ UNCHANGED faults
     \/ /\ snapshot = {} /\ Fault("put") /\ snapshot' \in {{}, {Initial}}
        /\ task' = [task EXCEPT ![n] = Down] /\ UNCHANGED <<inner, permit>>
     \/ /\ snapshot # {} /\ task' = [task EXCEPT ![n] = Down]
        /\ UNCHANGED <<snapshot, inner, permit, faults>>
  /\ UNCHANGED <<log, versions, txn, slot, restoring, calls>>

ListLogs(n) ==
  /\ task[n].pc = "list"
  /\ LET image == task[n].image
     IN task' = [task EXCEPT ![n] =
                   Replay("replay", image, {s \in DOMAIN log : s > image.seq})]
  /\ UNCHANGED <<log, snapshot, versions, inner, permit, txn, slot, restoring,
                 calls, faults>>

(* The listed logs are applied in order; one that does not apply fails the
   startup.                                                                *)
ReplayLog(n) ==
  LET image == task[n].image
      todo == task[n].todo
  IN /\ task[n].pc = "replay"
     /\ \/ todo = {} /\ Open(n, image)
        \/ \E s \in todo :
             /\ \A t \in todo : s <= t
             /\ task' = [task EXCEPT ![n] =
                  IF Applies(image.cat, log[s])
                  THEN Replay("replay", Image(s, Apply(image.cat, log[s])), todo \ {s})
                  ELSE Down]
             /\ UNCHANGED <<inner, permit>>
     /\ UNCHANGED <<log, snapshot, versions, txn, slot, restoring, calls, faults>>

-----------------------------------------------------------------------------
(* update_committed and the transactions                                   *)

(* The operations a caller may ask for; a backup is an earlier version.    *)
Ops == CreateOps \cup DropOps \cup {RestoreOp(versions[i]) : i \in DOMAIN versions}

Call == calls < MaxCalls /\ calls' = calls + 1

(* The permit is taken and the operation prepared. *)
Update(n, op) ==
  /\ task[n] = Free /\ Call
  /\ \E r \in Prepare(op, inner[n].cat) :
       task' = [task EXCEPT ![n] = Put(permit[n] + 1, op, r)]
  /\ UNCHANGED <<log, snapshot, versions, inner, permit, txn, slot, restoring,
                 faults>>

(* begin_transaction reads the sequence number, without the permit ...     *)
Begin(n) ==
  /\ Up(n) /\ txn[n] = {} /\ Call
  /\ txn' = [txn EXCEPT ![n] = {[seq |-> inner[n].seq, recs |-> {}]}]
  /\ UNCHANGED <<log, snapshot, versions, inner, permit, task, slot, restoring,
                 faults>>

(* ... and then begin_database_transaction reads the catalog.  A transaction
   without records ends there.                                             *)
BeginRead(n, op) ==
  /\ Up(n)
  /\ \E t \in txn[n] :
       /\ t.recs = {}
       /\ txn' = [txn EXCEPT ![n] =
                    {[seq |-> t.seq, recs |-> {r}] : r \in Prepare(op, inner[n].cat)}]
  /\ UNCHANGED <<log, snapshot, versions, inner, permit, task, slot, restoring,
                 calls, faults>>

\* Mutant of Commit: a transaction is not compared with the permit.
CommitStale(n) ==
  /\ task[n] = Free
  /\ \E t \in txn[n] : \E r \in t.recs :
       task' = [task EXCEPT ![n] = Put(permit[n] + 1, NoOp, r)]
  /\ txn' = [txn EXCEPT ![n] = {}]
  /\ UNCHANGED <<log, snapshot, versions, inner, permit, slot, restoring, calls,
                 faults>>

(* commit_transaction, up to the PUT: Prompt::Retry when the catalog has
   advanced since the transaction began.                                   *)
Commit(n) ==
  /\ task[n] = Free
  /\ \E t \in txn[n] : \E r \in t.recs :
       task' = IF permit[n] = t.seq
               THEN [task EXCEPT ![n] = Put(permit[n] + 1, NoOp, r)]
               ELSE task
  /\ txn' = [txn EXCEPT ![n] = {}]
  /\ UNCHANGED <<log, snapshot, versions, inner, permit, slot, restoring, calls,
                 faults>>

(* persist_log where nothing is at seq yet *)
Land(seq, rec) ==
  /\ log' = [s \in DOMAIN log \cup {seq} |-> IF s = seq THEN rec ELSE log[s]]
  /\ versions' = Append(versions, Apply(versions[Len(versions)], rec))

(* maybe_background_checkpoint: the thresholds are a choice. *)
MaybeCheckpoint(n, image) ==
  \/ UNCHANGED slot
  \/ slot[n] = {} /\ slot' = [slot EXCEPT ![n] = {[image |-> image, forced |-> FALSE]}]

(* The PUT, and on success apply_records, the permit and the checkpoint.  A
   record applies to the very catalog it was prepared against.             *)
PutLog(n) ==
  LET t == task[n]
      image == Image(t.seq, Apply(inner[n].cat, t.rec))
  IN /\ t.pc = "put"
     /\ \/ /\ t.seq \notin DOMAIN log
           /\ Land(t.seq, t.rec)
           /\ inner' = [inner EXCEPT ![n] = image]
           /\ permit' = [permit EXCEPT ![n] = t.seq]
           /\ task' = [task EXCEPT ![n] = Free]
           /\ MaybeCheckpoint(n, image)
           /\ restoring' = IF t.rec.kind = "restore"
                           THEN [restoring EXCEPT ![n] = @ + 1] ELSE restoring
        \/ /\ t.seq \in DOMAIN log
           /\ task' = [task EXCEPT ![n] = Load("catch", t.seq, t.op, FALSE)]
           /\ UNCHANGED <<log, versions, inner, permit, slot, restoring>>
     /\ UNCHANGED <<snapshot, txn, calls, faults>>

(* The PUT fails: it may have landed all the same, and a client that sends it
   again is then told AlreadyExists by its own object.                     *)
PutFails(n) ==
  LET t == task[n]
  IN /\ t.pc = "put" /\ Fault("put")
     /\ \/ /\ UNCHANGED <<log, versions>> /\ task' = [task EXCEPT ![n] = Free]
        \/ /\ t.seq \notin DOMAIN log /\ Land(t.seq, t.rec)
           /\ task' \in {[task EXCEPT ![n] = Free],
                         [task EXCEPT ![n] = Load("catch", t.seq, t.op, FALSE)]}
     /\ UNCHANGED <<snapshot, inner, permit, txn, slot, restoring, calls>>

-----------------------------------------------------------------------------
(* Catching up                                                             *)

(* load_log(seq) found a record: apply it, and force a checkpoint after a
   restore.  An error gives the permit back as it is.                      *)
LoadedLog(n) ==
  LET t == task[n]
      rec == log[t.seq]
  IN IF Applies(inner[n].cat, rec)
     THEN /\ inner' = [inner EXCEPT ![n] = Image(t.seq, Apply(inner[n].cat, rec))]
          /\ task' = [task EXCEPT ![n] =
               Load(t.pc, t.seq + 1, t.op, rec.kind = "restore")]
     ELSE task' = [task EXCEPT ![n] = Free] /\ UNCHANGED inner

\* Mutant of CatchUp: the permit stays where it was.
CatchUpKeepsPermit(n) ==
  LET t == task[n]
  IN /\ t.pc = "catch" /\ ~t.force
     /\ \/ t.seq \in DOMAIN log /\ LoadedLog(n)
        \/ /\ t.seq \notin DOMAIN log /\ UNCHANGED inner
           /\ task' = [task EXCEPT ![n] = Free]
     /\ UNCHANGED <<log, snapshot, versions, permit, txn, slot, restoring, calls,
                    faults>>

(* catch_up_from.  At the end of the log the permit moves to what was reached:
   an update prepares its operation again, a transaction is Prompt::Retry. *)
CatchUp(n) ==
  LET t == task[n]
      again == Prepare(t.op, inner[n].cat)
  IN /\ t.pc = "catch" /\ ~t.force
     /\ \/ t.seq \in DOMAIN log /\ LoadedLog(n) /\ UNCHANGED permit
        \/ /\ t.seq \notin DOMAIN log /\ UNCHANGED inner
           /\ permit' = [permit EXCEPT ![n] = inner[n].seq]
           /\ \/ /\ t.op = NoOp \/ again = {}
                 /\ task' = [task EXCEPT ![n] = Free]
              \/ /\ t.op # NoOp
                 /\ \E r \in again :
                      task' = [task EXCEPT ![n] = Put(inner[n].seq + 1, t.op, r)]
     /\ UNCHANGED <<log, snapshot, versions, txn, slot, restoring, calls, faults>>

(* A read of catch_up_from fails; what was applied so far stays applied, and
   the permit is given back as it was.                                     *)
CatchUpFails(n) ==
  /\ task[n].pc = "catch" /\ ~task[n].force
  /\ faults < MaxFaults /\ faults' = faults + 1
  /\ task' = [task EXCEPT ![n] = Free]
  /\ UNCHANGED <<log, snapshot, versions, inner, permit, txn, slot, restoring, calls>>

(* background_update probes for a next log, then takes the permit. *)
FollowStart(n) ==
  /\ task[n] = Free /\ inner[n].seq + 1 \in DOMAIN log
  /\ task' = [task EXCEPT ![n] = Load("follow", permit[n] + 1, NoOp, FALSE)]
  /\ UNCHANGED <<log, snapshot, versions, inner, permit, txn, slot, restoring,
                 calls, faults>>

(* update_to_sequence_number(u64::MAX), which moves the permit with every log. *)
Follow(n) ==
  LET t == task[n]
  IN /\ t.pc = "follow" /\ ~t.force
     /\ \/ /\ t.seq \in DOMAIN log /\ LoadedLog(n)
           /\ permit' = IF inner' = inner THEN permit ELSE [permit EXCEPT ![n] = t.seq]
        \/ /\ t.seq \notin DOMAIN log
           /\ task' = [task EXCEPT ![n] = Free] /\ UNCHANGED <<inner, permit>>
     /\ UNCHANGED <<log, snapshot, versions, txn, slot, restoring, calls, faults>>

FollowFails(n) ==
  /\ task[n].pc = "follow" /\ ~task[n].force /\ Fault("follow")
  /\ task' = [task EXCEPT ![n] = Free]
  /\ UNCHANGED <<log, snapshot, versions, inner, permit, txn, slot, restoring, calls>>

-----------------------------------------------------------------------------
(* Checkpoints                                                             *)

Forcing(n) == task[n].pc \in {"catch", "follow"} /\ task[n].force

\* Mutant of ForceCheckpoint: the header is the permit's number.
ForceCheckpointHeader(n) ==
  /\ slot[n] = {}
  /\ \/ Forcing(n) /\ UNCHANGED restoring
     \/ Up(n) /\ restoring[n] > 0 /\ restoring' = [restoring EXCEPT ![n] = @ - 1]
  /\ slot' = [slot EXCEPT ![n] =
       {[image |-> Image(permit[n], inner[n].cat), forced |-> Forcing(n)]}]
  /\ UNCHANGED <<log, snapshot, versions, inner, permit, task, txn, calls, faults>>

\* Mutant of ForceCheckpoint: taken whether or not a restore asked for it.
ForceCheckpointUnasked(n) ==
  /\ slot[n] = {} /\ Up(n)
  /\ restoring' = [restoring EXCEPT ![n] = @ - 1]
  /\ slot' = [slot EXCEPT ![n] = {[image |-> inner[n], forced |-> Forcing(n)]}]
  /\ UNCHANGED <<log, snapshot, versions, inner, permit, task, txn, calls, faults>>

(* force_checkpoint waits for the slot, then reads number and contents
   together: for restore's caller, or within a catch-up.                   *)
ForceCheckpoint(n) ==
  /\ slot[n] = {}
  /\ \/ /\ Forcing(n) /\ UNCHANGED restoring
        /\ slot' = [slot EXCEPT ![n] = {[image |-> inner[n], forced |-> TRUE]}]
     \/ /\ Up(n) /\ restoring[n] > 0
        /\ restoring' = [restoring EXCEPT ![n] = @ - 1]
        /\ slot' = [slot EXCEPT ![n] = {[image |-> inner[n], forced |-> FALSE]}]
  /\ UNCHANGED <<log, snapshot, versions, inner, permit, task, txn, calls, faults>>

(* The catch-up that waited for its checkpoint goes on. *)
Resume(n, c) ==
  task' = IF c.forced
          THEN [task EXCEPT ![n] = Load(task[n].pc, task[n].seq, task[n].op, FALSE)]
          ELSE task

(* write_checkpoint overwrites the snapshot, whatever it holds. *)
WriteCheckpoint(n) ==
  /\ \E c \in slot[n] : snapshot' = {c.image} /\ Resume(n, c)
  /\ slot' = [slot EXCEPT ![n] = {}]
  /\ UNCHANGED <<log, versions, inner, permit, txn, restoring, calls, faults>>

(* A failed checkpoint is logged, or fails the update_to_sequence_number that
   forced it.  (The catch_up_from that forced it fails like any of its reads:
   CatchUpFails has that outcome.)                                         *)
CheckpointFails(n) ==
  /\ Fault("checkpoint")
  /\ \E c \in slot[n] :
       /\ c.forced => task[n].pc = "follow"
       /\ task' = IF c.forced THEN [task EXCEPT ![n] = Free] ELSE task
  /\ slot' = [slot EXCEPT ![n] = {}]
  /\ UNCHANGED <<log, snapshot, versions, inner, permit, txn, restoring, calls>>

(* The process dies, wherever it is. *)
Stop(n) ==
  /\ Fault("stop")
  /\ task[n] # Down /\ task' = [task EXCEPT ![n] = Down]
  /\ txn' = [txn EXCEPT ![n] = {}] /\ slot' = [slot EXCEPT ![n] = {}]
  /\ restoring' = [restoring EXCEPT ![n] = 0]
  /\ UNCHANGED <<log, snapshot, versions, inner, permit, calls>>

-----------------------------------------------------------------------------
(* What the node's own tasks go on doing, given time. *)
Work(n) ==
  \/ LoadSnapshot(n) \/ InitSnapshot(n) \/ ListLogs(n) \/ ReplayLog(n)
  \/ PutLog(n) \/ CatchUp(n) \/ FollowStart(n) \/ Follow(n)

Checkpointing(n) == ForceCheckpoint(n) \/ WriteCheckpoint(n)

Calls(n) ==
  \/ \E op \in Ops : Update(n, op)
  \/ Begin(n) \/ (\E op \in CreateOps : BeginRead(n, op)) \/ Commit(n)

Failures(n) ==
  PutFails(n) \/ FollowFails(n) \/ CheckpointFails(n) \/ Stop(n)

Next == \E n \in Nodes : Work(n) \/ Checkpointing(n) \/ Calls(n) \/ Failures(n)

Spec == Init /\ [][Next]_vars

(* The same, where a read of catch_up_from may fail as well. *)
FaultySpec == Init /\ [][Next \/ \E n \in Nodes : CatchUpFails(n)]_vars

(* The tasks are spawned and the object store answers. *)
FairSpec ==
  Spec /\ \A n \in Nodes : WF_vars(Work(n)) /\ WF_vars(Checkpointing(n))

-----------------------------------------------------------------------------
(* Properties                                                              *)

(* The variables keep their types. *)
TypeOK ==
  /\ DOMAIN log \subseteq Nat
  /\ \A n \in Nodes :
       /\ inner[n].seq \in Nat /\ permit[n] \in Nat /\ restoring[n] \in Nat
       /\ task[n].pc \in {"down", "init", "list", "replay", "free", "put", "catch",
                          "follow"}
  /\ calls \in 0..MaxCalls /\ faults \in 0..MaxFaults

(* The catalog the log holds at image.seq is the one image has. *)
Exact(image) ==
  /\ image.seq \in 0..(Len(versions) - 1)
  /\ image.cat = versions[image.seq + 1]

(* Every copy of the catalog, in a node's memory, in the snapshot file or on
   its way there, is the log's catalog at the number it carries, however it
   came about: own writes, catch-ups, restores, startups from old or new
   snapshots.  "header and body aligned regardless of any interleaving"
   (catalog.rs, force_checkpoint).                                         *)
CopiesExact ==
  /\ \A s \in snapshot : Exact(s)
  /\ \A n \in Nodes : Exact(inner[n]) /\ \A c \in slot[n] : Exact(c.image)

(* No two databases of one catalog share an id, no two in use share a name,
   whichever nodes created them at the same time: repository.rs, "Invariants
   of this data type prevent duplicate IDs".                               *)
IdsOnce == \A i \in DOMAIN versions : WellFormed(versions[i])

One == INSTANCE OneCatalog WITH seen <- [n \in Nodes |-> inner[n].seq + 1]

(* The nodes implement one catalog: every record that lands in the log was
   prepared against the version it changes, and no node ever sees an older
   catalog than it has seen, restarts included.                            *)
Implements == One!Spec

(* Every node that runs is up to date again and again, with its permit free:
   update's retries end, and no catch-up or forced checkpoint waits for ever. *)
CaughtUp ==
  \A n \in Nodes :
    []<>(task[n] = Free /\ inner[n].seq = Len(versions) - 1 /\ permit[n] = inner[n].seq)

(* "Monotonically increasing sequence number" (inner.rs, InnerCatalog). *)
SequenceMonotone ==
  [][\A n \in Nodes : inner'[n].seq >= inner[n].seq]_vars
=============================================================================
