------------------------------ MODULE Handoff ------------------------------
(***************************************************************************)
(* One compactor and the node that owns the files it merges                *)
(* (influxdb3_cluster/src/compactor.rs and apply_compaction_locally in     *)
(* rpc/server.rs): the merge, the notice, the swap and the manifest on the *)
(* owner, the acknowledgement, the grace period and the deletion of the    *)
(* inputs, with crashes of either side and notices delivered again.        *)
(*                                                                         *)
(* objects, manifests and queue are in the object store and survive every  *)
(* crash.  The compactor plans from its replica of the file index, which   *)
(* holds the manifests the owner's publisher has drained, up to pos.       *)
(***************************************************************************)
EXTENDS MergePlan, Manifests, FiniteSets

CONSTANTS Times,         \* the chunk times the owner persists one file for
          SizesOf,       \* [Times -> SUBSET Nat]: the sizes that file may have
          Grace,         \* --compact-input-grace, in passes
          MaxCrashes,    \* bound: crashes of each side
          Faults         \* "persist", "save", "delete", "load": that request may fail
                         \* "drop": the server may drop a call nobody waits for
                         \* "merge": a merge may fail, or have no rows

ASSUME HandoffAssumption ==
  /\ Times \subseteq Nat /\ SizesOf \in [Times -> SUBSET Nat]
  /\ Grace \in Nat /\ MaxCrashes \in Nat

VARIABLES
  objects,    \* Parquet objects in the store
  manifests,  \* the owner's snapshot manifests
  queue,      \* pending-deletions.json
  memory,     \* the owner's PersistedFiles
  next,       \* the owner's next snapshot sequence number
  handlers,   \* running apply_compaction_locally calls
  drained,    \* manifests in the file index log, in the publisher's order
  pos,        \* the manifest number the compactor's index has reached
  pc,         \* where the compactor is
  plan,       \* the groups the pass still has to merge
  notice,     \* the group whose notice is under way, or {}
  reply,      \* its answer: "none", "ok", "error"
  pending,    \* InputDeleter::pending
  due,        \* the paths reclaim_due has taken off it
  crashes,    \* [{"owner", "compactor"} -> Nat]
  owed        \* history: paths the stored queue has named, neither deleted
              \*   nor given up since

ownerVars == <<memory, next, handlers>>
storeVars == <<objects, manifests, queue>>
indexVars == <<drained, pos>>
compVars == <<pc, plan, notice, reply, pending, due>>
vars == <<storeVars, ownerVars, indexVars, compVars, crashes, owed>>

Durable == View(manifests)
Index == View({m \in drained : m.seq <= pos})

Init ==
  /\ objects = {} /\ manifests = {} /\ queue = {}
  /\ memory = {} /\ next = 1 /\ handlers = {}
  /\ drained = {} /\ pos = 0
  /\ pc = "load" /\ plan = {} /\ notice = {} /\ reply = "none"
  /\ pending = {} /\ due = {}
  /\ crashes = [s \in {"owner", "compactor"} |-> 0] /\ owed = {}

-----------------------------------------------------------------------------
(* The owner and its publisher                                             *)

Ingested == {t \in Times : \E m \in manifests : \E f \in m.added : f.from = {} /\ t \in f.rows}

(* A snapshot persists the file of chunk t and its manifest (WriteBuffer has
   the steps in between), also while a compaction has a number and no manifest. *)
Ingest(t, size) ==
  LET f == Gen1File(t, t, size)
  IN /\ \A u \in Times : u <= t => (u = t <=> u \notin Ingested)
     /\ objects' = objects \cup {f}
     /\ memory' = memory \cup {f}
     /\ manifests' = manifests \cup {Manifest(next, {f}, {})}
     /\ next' = next + 1
     /\ UNCHANGED <<queue, handlers, indexVars, compVars, crashes, owed>>

Publish ==
  /\ Undrained(manifests, drained) # {}
  /\ drained' = drained \cup Undrained(manifests, drained)
  /\ UNCHANGED <<storeVars, ownerVars, pos, compVars, crashes, owed>>

(* The compactor's own sync of the log. *)
SyncIndex ==
  /\ pos < LastSeq(drained)
  /\ pos' = LastSeq(drained)
  /\ UNCHANGED <<storeVars, ownerVars, drained, compVars, crashes, owed>>

-----------------------------------------------------------------------------
(* apply_compaction_locally                                                *)

(* Only the caller of the notice under way still waits for an answer.      *)
Answer(h, value) == reply' = IF h.heard THEN value ELSE reply

Handler(stage, added, removed, seq, heard) ==
  [stage |-> stage, added |-> added, removed |-> removed, seq |-> seq, heard |-> heard]

\* Mutant of HandlerSwap: the notice is acknowledged before it is persisted.
HandlerSwapAcks ==
  LET merged == MergedFile(notice)
  IN /\ pc = "notify" /\ reply = "none"
     /\ ~\E h \in handlers : h.heard
     /\ memory' = (memory \cup {merged}) \ notice
     /\ reply' = "ok"
     /\ handlers' = handlers \cup
          {Handler("reserve", {merged}, memory \cap notice, 0, FALSE)}
     /\ UNCHANGED <<storeVars, next, indexVars, pc, plan, notice, pending, due,
                    crashes, owed>>

\* Mutant of HandlerSwap: the inputs go, whether or not the output came.
HandlerSwapRemovesOnly ==
  /\ pc = "notify" /\ reply = "none"
  /\ ~\E h \in handlers : h.heard
  /\ memory' = memory \ notice
  /\ handlers' = handlers \cup
       {Handler("reserve", {MergedFile(notice)}, memory \cap notice, 0, TRUE)}
  /\ UNCHANGED <<storeVars, next, indexVars, pc, plan, notice, reply, pending, due,
                 crashes, owed>>

(* PersistedFiles::apply_compaction under one lock, then the early return of
   a notice that changed nothing.                                          *)
HandlerSwap ==
  LET merged == MergedFile(notice)
      added == {merged} \ memory
      removed == memory \cap notice
  IN /\ pc = "notify" /\ reply = "none"
     /\ ~\E h \in handlers : h.heard
     /\ memory' = (memory \cup {merged}) \ notice
     /\ IF added = {} /\ removed = {}
        THEN reply' = "ok" /\ UNCHANGED handlers
        ELSE /\ handlers' = handlers \cup {Handler("reserve", {merged}, removed, 0, TRUE)}
             /\ UNCHANGED reply
     /\ UNCHANGED <<storeVars, next, indexVars, pc, plan, notice, pending, due, crashes, owed>>

\* Mutant of HandlerReserve: the number is read, not reserved.
HandlerReserveReads(h) ==
  /\ h.stage = "reserve"
  /\ handlers' = (handlers \ {h}) \cup
                   {[h EXCEPT !.stage = "persist", !.seq = next]}
  /\ UNCHANGED <<storeVars, memory, next, indexVars, compVars, crashes, owed>>

(* reserve_snapshot_sequence_number *)
HandlerReserve(h) ==
  /\ h.stage = "reserve"
  /\ handlers' = (handlers \ {h}) \cup
                   {[h EXCEPT !.stage = "persist", !.seq = next]}
  /\ next' = next + 1
  /\ UNCHANGED <<storeVars, memory, indexVars, compVars, crashes, owed>>

\* Mutant of HandlerPersist: the manifest forgets what the merge replaced.
HandlerPersistAddsOnly(h) ==
  /\ h.stage = "persist"
  /\ handlers' = handlers \ {h}
  /\ manifests' = manifests \cup {Manifest(h.seq, h.added, {})}
  /\ Answer(h, "ok")
  /\ UNCHANGED <<objects, queue, memory, next, indexVars, pc, plan, notice,
                 pending, due, crashes, owed>>

(* persist_snapshot, and the answer *)
HandlerPersist(h) ==
  /\ h.stage = "persist"
  /\ handlers' = handlers \ {h}
  /\ manifests' = manifests \cup {Manifest(h.seq, h.added, h.removed)}
  /\ Answer(h, "ok")
  /\ UNCHANGED <<objects, queue, memory, next, indexVars, pc, plan, notice,
                 pending, due, crashes, owed>>

(* The manifest's PUT fails, or lands and does not say so: that is answered,
   and the swap stays.                                                     *)
PersistFails(h) ==
  /\ h.stage = "persist" /\ "persist" \in Faults
  /\ handlers' = handlers \ {h}
  /\ manifests' \in {manifests, manifests \cup {Manifest(h.seq, h.added, h.removed)}}
  /\ Answer(h, "error")
  /\ UNCHANGED <<objects, queue, memory, next, indexVars, pc, plan, notice,
                 pending, due, crashes, owed>>

(* The server drops a call whose client is gone, at any of its awaits.     *)
HandlerDropped(h) ==
  /\ ~h.heard /\ "drop" \in Faults
  /\ handlers' = handlers \ {h}
  /\ UNCHANGED <<storeVars, memory, next, indexVars, compVars, crashes, owed>>

Unheard == {[h EXCEPT !.heard = FALSE] : h \in handlers}

(* The owner dies and is started again from its manifests.                 *)
OwnerCrash ==
  /\ crashes["owner"] < MaxCrashes
  /\ crashes' = [crashes EXCEPT !["owner"] = @ + 1]
  /\ memory' = Durable
  /\ next' = LastSeq(manifests) + 1
  /\ handlers' = {}
  /\ reply' = IF pc = "notify" /\ reply = "none" THEN "error" ELSE reply
  /\ UNCHANGED <<storeVars, indexVars, pc, plan, notice, pending, due, owed>>

-----------------------------------------------------------------------------
(* spawn_compactor and compact_once                                        *)

\* Mutant of LoadQueue: the queue lives in memory alone.
LoadQueueNothing ==
  /\ pc = "load" /\ pc' = "idle"
  /\ UNCHANGED <<storeVars, ownerVars, indexVars, plan, notice, reply, pending,
                 due, crashes, owed>>

(* InputDeleter::load: a queue that cannot be read is taken for empty.     *)
LoadQueue ==
  /\ pc = "load" /\ pc' = "idle"
  /\ \/ pending' = queue /\ UNCHANGED owed
     \/ "load" \in Faults /\ pending' = {} /\ owed' = {}
  /\ UNCHANGED <<storeVars, ownerVars, indexVars, plan, notice, reply, due, crashes>>

Sooner(S) == {[e EXCEPT !.wait = Max({@ - 1, 0})] : e \in S}

(* The clock is left out: any threshold may be the one of this pass.       *)
ColdBefore == 0..(Max(Times) + 1)

(* The interval passes and grace periods run out; then the groups are selected
   from the index as it is now.                                            *)
PassStart ==
  /\ pc = "idle" /\ pc' = "group"
  /\ \E cold_before \in ColdBefore : plan' \in SelectMerges(Index, cold_before)
  /\ pending' = Sooner(pending) /\ queue' = Sooner(queue)
  /\ UNCHANGED <<objects, manifests, ownerVars, indexVars, notice, reply, due, crashes, owed>>

(* compact_group up to the notice: read the inputs, write the output.      *)
Merge(g) ==
  /\ pc = "group" /\ g \in plan /\ g \subseteq objects
  /\ plan' = plan \ {g}
  /\ objects' = objects \cup {MergedFile(g)}
  /\ notice' = g /\ reply' = "none" /\ pc' = "notify"
  /\ UNCHANGED <<manifests, queue, ownerVars, indexVars, pending, due,
                 crashes, owed>>

(* An input that is gone, or any other failure, ends this group alone; so do
   a dropped table and a merge without rows.                               *)
MergeFails(g) ==
  /\ pc = "group" /\ g \in plan
  /\ ~(g \subseteq objects) \/ "merge" \in Faults
  /\ plan' = plan \ {g}
  /\ UNCHANGED <<storeVars, ownerVars, indexVars, pc, notice, reply, pending, due, crashes, owed>>

(* The notice does not get through, its answer is lost, or it times out, the
   handler done or not.                                                    *)
NotifyFails ==
  /\ pc = "notify" /\ reply \in {"none", "ok"}
  /\ pc' = "group" /\ notice' = {} /\ reply' = "none"
  /\ handlers' = Unheard
  /\ UNCHANGED <<storeVars, memory, next, indexVars, plan, pending, due,
                 crashes, owed>>

(* "compaction failed; inputs left in place" *)
NotifyError ==
  /\ pc = "notify" /\ reply = "error"
  /\ pc' = "group" /\ notice' = {} /\ reply' = "none"
  /\ UNCHANGED <<storeVars, ownerVars, indexVars, plan, pending, due, crashes, owed>>

Owed(paths) == {[path |-> f, wait |-> Grace] : f \in paths}

(* InputDeleter::schedule, once the owner has answered. *)
Schedule ==
  /\ pc = "notify" /\ reply = "ok"
  /\ pending' = pending \cup Owed(notice)
  /\ pc' = "save" /\ notice' = {} /\ reply' = "none"
  /\ UNCHANGED <<storeVars, ownerVars, indexVars, plan, due, crashes, owed>>

(* InputDeleter::save, an overwriting PUT whose failure is only logged.    *)
Save ==
  /\ pc \in {"save", "saveShorter"}
  /\ pc' = IF pc = "save" THEN "group" ELSE "idle"
  /\ \/ queue' = pending /\ owed' = owed \cup {e.path : e \in pending}
     \/ "save" \in Faults /\ UNCHANGED <<queue, owed>>
  /\ UNCHANGED <<objects, manifests, ownerVars, indexVars, plan, notice, reply,
                 pending, due, crashes>>

-----------------------------------------------------------------------------
(* InputDeleter::reclaim_due, after every group of the pass                *)

Reclaim ==
  LET ready == {e \in pending : e.wait = 0}
  IN /\ pc = "group" /\ plan = {}
     /\ pending' = pending \ ready
     /\ due' = {e.path : e \in ready}
     /\ pc' = IF ready = {} THEN "idle" ELSE "delete"
     /\ UNCHANGED <<storeVars, ownerVars, indexVars, plan, notice, reply, crashes, owed>>

(* One delete; NotFound is fine and an error is logged and forgotten.      *)
Delete(f) ==
  /\ pc = "delete" /\ f \in due
  /\ \/ objects' = objects \ {f}
     \/ "delete" \in Faults /\ UNCHANGED objects
  /\ due' = due \ {f} /\ owed' = owed \ {f}
  /\ pc' = IF due' = {} THEN "saveShorter" ELSE "delete"
  /\ UNCHANGED <<manifests, queue, ownerVars, indexVars, plan, notice, reply,
                 pending, crashes>>

(* The compactor dies.  A call it had under way goes on at the owner.      *)
CompactorCrash ==
  /\ crashes["compactor"] < MaxCrashes
  /\ crashes' = [crashes EXCEPT !["compactor"] = @ + 1]
  /\ pc' = "load" /\ plan' = {} /\ notice' = {} /\ reply' = "none"
  /\ pending' = {} /\ due' = {}
  /\ handlers' = Unheard
  /\ UNCHANGED <<storeVars, memory, next, indexVars, owed>>

HandlerStep(h) ==
  HandlerReserve(h) \/ HandlerPersist(h) \/ PersistFails(h) \/ HandlerDropped(h)

CompactorStep ==
  \/ LoadQueue \/ PassStart \/ NotifyFails \/ NotifyError \/ Schedule \/ Save \/ Reclaim
  \/ \E g \in plan : Merge(g) \/ MergeFails(g)
  \/ \E f \in due : Delete(f)

\* Every step but the swap and the publisher's.
Step ==
  \/ \E h \in handlers : HandlerStep(h)
  \/ CompactorStep
  \/ SyncIndex \/ \E t \in Times : \E size \in SizesOf[t] : Ingest(t, size)
  \/ OwnerCrash \/ CompactorCrash

Next == HandlerSwap \/ Publish \/ Step

Spec == Init /\ [][Next]_vars

(* Nothing in the code rules out either of two timings, and a behaviour with one
   may lose rows.
   A notice is unrecorded when its inputs were swapped out before, and the
   manifest that should say so is still under way or has failed: it changes
   nothing and is acknowledged (server.rs:124).
   The publisher overtakes a compaction when it drains a manifest above a
   number that is reserved and not yet stored: it never goes back for it
   (publisher.rs:174), and the index keeps the inputs.                     *)
Unrecorded == ~(Durable \cap notice \subseteq memory)
Overtakes == \E h \in handlers : h.stage = "persist" /\ h.seq < LastSeq(manifests)

(* The behaviours with neither.                                            *)
TimelyNext ==
  \/ HandlerSwap /\ ~Unrecorded
  \/ Publish /\ ~Overtakes
  \/ Step

TimelySpec == Init /\ [][TimelyNext]_vars

(* The handlers and the compactor's loop, whose call times out, are spawned
   tasks; the publisher and the sync loop tick.                            *)
FairSpec ==
  /\ TimelySpec
  /\ WF_vars(\E h \in handlers : HandlerStep(h)) /\ WF_vars(CompactorStep)
  /\ WF_vars(Publish /\ ~Overtakes) /\ WF_vars(SyncIndex)
-----------------------------------------------------------------------------
(* Properties                                                              *)

(* The variables keep their types; every path is a gen1 file or the output of
   a merge.                                                                *)
Path(f) ==
  \/ \E t \in Times : \E size \in SizesOf[t] : f = Gen1File(t, t, size)
  \/ f = MergedFile(f.from)
TypeOK ==
  /\ \A f \in objects \cup memory \cup due \cup notice : Path(f)
  /\ drained \subseteq manifests /\ \A m \in manifests : m.seq \in 1..(next - 1)
  /\ \A e \in queue \cup pending : Path(e.path) /\ e.wait \in 0..Grace
  /\ \A h \in handlers :
       h.stage \in {"reserve", "persist"} /\ h.seq \in Nat /\ h.heard \in BOOLEAN
  /\ next \in Nat \ {0} /\ pos \in Nat
  /\ pc \in {"load", "idle", "group", "notify", "save", "delete", "saveShorter"}
  /\ reply \in {"none", "ok", "error"}
  /\ crashes \in [{"owner", "compactor"} -> 0..MaxCrashes]

Covers(files) == Ingested \subseteq UNION {f.rows : f \in files}

(* "Returning Ok means the inputs are safe to delete after the grace period"
   (rpc/server.rs:88): what the compactor owes a deletion, in memory, in the
   stored queue or under way, is no longer a file of the owner's manifests. *)
OnlyRetired ==
  \A f \in {e.path : e \in pending \cup queue} \cup due : f \notin Durable

(* Whenever the owner crashes, the manifests it restarts from name only
   objects that exist, and between them these hold every row it persisted:
   "Deletion happens only after the acknowledgement proves the replacement
   is durable" (compactor.rs:104).                                         *)
Recoverable == Durable \subseteq objects /\ Covers(Durable)

(* The running owner never names a file that is gone, and "the rows are
   advertised by one file or the other at every instant" (rpc/server.rs:111),
   swaps, redeliveries and restarts included.                              *)
Served == memory \subseteq objects /\ Covers(memory)

(* What a pass plans is a greedy packing of the cold, small files of the index
   in chunk order: groups of two or more that respect both limits, with no
   eligible file in between, none of which could take in the file that
   follows it; and no file left over that would have fitted with the next.  *)
Follows(E, g) ==
  {f \in E \ g : /\ \A e \in g : e.chunk_time <= f.chunk_time
                 /\ \A e \in E \ g : (\A d \in g : d.chunk_time <= e.chunk_time)
                                      => f.chunk_time <= e.chunk_time}
Fits(g, f) == TotalSize(g) + f.size <= TargetSize /\ Cardinality(g) < MaxInputs

GreedyPacking(P, E) ==
  /\ UNION P \subseteq E
  /\ \A g, h \in P : g # h => g \cap h = {}
  /\ \A g \in P : Cardinality(g) \in 2..MaxInputs /\ TotalSize(g) <= TargetSize
  /\ \A g \in P : \A f \in E \ g : \A d, e \in g :
       ~(d.chunk_time < f.chunk_time /\ f.chunk_time < e.chunk_time)
  /\ \A g \in P \cup {{f} : f \in E \ UNION P} :
       Follows(E, g) # {} => \E f \in Follows(E, g) : ~Fits(g, f)

PlanSound ==
  [][pc = "idle" /\ pc' = "group" =>
       \E cold_before \in ColdBefore :
         GreedyPacking(plan', Eligible(Index, cold_before))]_vars

(* "A compactor that restarts still owes what it owed" (compactor.rs:795): a
   path the stored queue has once named is deleted in the end, unless that
   deletion fails or the queue cannot be read; a crash between any two steps
   or a failed save loses nothing that was ever stored.                    *)
Reclaimed == []<>(owed = {})
=============================================================================
