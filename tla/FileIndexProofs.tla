--------------------------- MODULE FileIndexProofs ---------------------------
(***************************************************************************)
(* Proofs about FileIndexLog for every set of nodes and publishers, every  *)
(* set of deltas, every snapshot interval and every kind of fault.  First  *)
(* what holds with or without rollups: types, control, the bounds every    *)
(* index keeps.  Then, until the first rollup: nothing is skipped, replay  *)
(* is exact, appends are totally ordered.                                  *)
(*                                                                         *)
(* Then the publisher over that log, for any manifests: it is an           *)
(* implementation of the log's specification, so that the log's theorems   *)
(* are theorems about it, and until the first rollup it publishes each     *)
(* manifest once and in order (PublishedOnce).                             *)
(***************************************************************************)
EXTENDS Publisher, NumberLemmas

-----------------------------------------------------------------------------
(* The operations on an index keep its type.                               *)

LEMMA EmptyType == EmptyIndex \in Inner
BY Zenon DEF EmptyIndex, Inner, Absent, NoTime

LEMMA ApplyType ==
  ASSUME NEW ix \in Inner, NEW q \in Nat, NEW d \in FileIndexDelta
  PROVE  Apply(ix, q, d) \in Inner
BY Zenon DEF Apply, Inner, FileIndexDelta, Max2, NoTime, Absent, Holds

(* The position of an index only rises, to an entry applied at least. *)
LEMMA ApplyRaises ==
  ASSUME NEW ix \in Inner, NEW q \in Nat, NEW d
  PROVE  LET s == Apply(ix, q, d).sequence IN s \in Nat /\ s >= ix.sequence /\ s >= q
BY DEF Apply, Inner, Max2

LEMMA RestoreType ==
  ASSUME NEW ix \in Inner, NEW s \in Inner
  PROVE  Restore(ix, s) \in Inner
BY Zenon DEF Restore, Inner, Max2, NoTime, Absent, Holds
-----------------------------------------------------------------------------
(* What a log says, one entry further and after it has grown.              *)

Unique(C) == \A e, f \in C : e.sequence = f.sequence => e = f
Contiguous(C) == \A e \in C : \A q \in 1..e.sequence : q \in Sequences(C)

LEMMA UptoStep ==
  ASSUME NEW C \in SUBSET FileIndexLogEntry, Unique(C),
         NEW e \in C, NEW q \in Nat, e.sequence = q + 1
  PROVE  Upto(C, q + 1) = Upto(C, q) \cup {e}
BY DEF Upto, Unique, FileIndexLogEntry

LEMMA PresentStep ==
  ASSUME NEW C \in SUBSET FileIndexLogEntry, Unique(C),
         NEW e \in C, NEW q \in Nat, e.sequence = q + 1, NEW p \in Paths
  PROVE  Present(C, p, q + 1) <=>
           p \in e.delta.added \/ (Present(C, p, q) /\ p \notin e.delta.removed)
<1>1. Upto(C, q + 1) = Upto(C, q) \cup {e}
  BY UptoStep, Zenon
<1>2. \A f \in Upto(C, q) : f.sequence <= q /\ f.sequence \in Nat
  BY Zenon DEF Upto, FileIndexLogEntry
<1> HIDE DEF Upto
<1> QED BY <1>1, <1>2 DEF Present

LEMMA UptoGrow ==
  ASSUME NEW C \in SUBSET FileIndexLogEntry, NEW e \in FileIndexLogEntry,
         NEW q \in Int, q < e.sequence
  PROVE  Upto(C \cup {e}, q) = Upto(C, q)
BY DEF Upto, FileIndexLogEntry

LEMMA CompleteGrow ==
  ASSUME NEW C \in SUBSET FileIndexLogEntry, NEW e \in FileIndexLogEntry,
         NEW ix \in Inner, ix.sequence < e.sequence, Complete(C, ix)
  PROVE  Complete(C \cup {e}, ix)
<1>1. Upto(C \cup {e}, ix.sequence) = Upto(C, ix.sequence)
  BY UptoGrow DEF Inner
<1> QED BY <1>1, Zenon DEF Complete, Present, Watermarks, Times

LEMMA ExactGrow ==
  ASSUME NEW C \in SUBSET FileIndexLogEntry, NEW e \in FileIndexLogEntry,
         NEW ix \in Inner, ix.sequence < e.sequence, Exact(C, ix)
  PROVE  Exact(C \cup {e}, ix)
<1>1. Upto(C \cup {e}, ix.sequence) = Upto(C, ix.sequence)
  BY UptoGrow DEF Inner
<1>2. ASSUME NEW p \in Paths, Holds(ix, p)
      PROVE  AddedAt(C \cup {e}, p, ix.sequence, ix.files[p])
  <2>1. PICK f \in Upto(C, ix.sequence) :
          /\ f.sequence = ix.files[p] /\ p \in f.delta.added
          /\ p \in f.delta.removed \/ ~Present(C, p, ix.files[p] - 1)
          /\ \A g \in Upto(C, ix.sequence) :
               g.sequence > ix.files[p] => p \notin g.delta.removed
    BY <1>2, Zenon DEF Exact, AddedAt
  <2>2. f.sequence <= ix.sequence
    BY Zenon DEF Upto
  <2>3. ix.files[p] - 1 \in Int /\ ix.files[p] - 1 < e.sequence
    BY <2>1, <2>2 DEF Inner, FileIndexLogEntry
  <2>4. Upto(C \cup {e}, ix.files[p] - 1) = Upto(C, ix.files[p] - 1)
    BY <2>3, UptoGrow, Zenon
  <2> QED BY <1>1, <2>1, <2>4, Zenon DEF AddedAt, Present
<1> QED BY <1>2, CompleteGrow, Zenon DEF Exact

LEMMA EmptyExact ==
  ASSUME NEW C \in SUBSET FileIndexLogEntry
  PROVE  Exact(C, EmptyIndex)
<1>1. Upto(C, 0) = {}
  BY DEF Upto, FileIndexLogEntry
<1> QED BY <1>1, Zenon DEF Exact, Complete, Present, Watermarks, Times, Highest,
                    EmptyIndex, Holds, Absent

-----------------------------------------------------------------------------
(* Applying the next entry keeps an index complete, and exact; applying one
   at or below the position does nothing.                                  *)

LEMMA HighestStep ==
  ASSUME NEW v \in Int, NEW u \in Int, NEW S \in SUBSET Int, NEW none \in Int,
         Highest(v, S, none), none <= u
  PROVE  Highest(Max2(v, u), S \cup {u}, none)
BY DEF Highest, Max2

LEMMA WatermarksStep ==
  ASSUME NEW C \in SUBSET FileIndexLogEntry, Unique(C), NEW e \in C,
         NEW q \in Nat, e.sequence = q + 1, NEW n \in Nodes
  PROVE  /\ e.delta.node = n =>
              /\ Watermarks(C, n, q + 1) = Watermarks(C, n, q) \cup {e.delta.snapshot_sequence}
              /\ Times(C, n, q + 1) = Times(C, n, q) \cup {e.delta.max_time}
         /\ e.delta.node # n =>
              /\ Watermarks(C, n, q + 1) = Watermarks(C, n, q)
              /\ Times(C, n, q + 1) = Times(C, n, q)
<1>1. Upto(C, q + 1) = Upto(C, q) \cup {e}
  BY UptoStep
<1>2. CASE e.delta.node = n
  <2>1. {f \in Upto(C, q + 1) : f.delta.node = n} =
          {f \in Upto(C, q) : f.delta.node = n} \cup {e}
    BY <1>1, <1>2, Zenon
  <2> QED BY <1>2, <2>1, Zenon DEF Watermarks, Times
<1>3. CASE e.delta.node # n
  <2>1. {f \in Upto(C, q + 1) : f.delta.node = n} = {f \in Upto(C, q) : f.delta.node = n}
    BY <1>1, <1>3, Zenon
  <2> QED BY <1>3, <2>1, Zenon DEF Watermarks, Times
<1> QED BY <1>2, <1>3, Zenon

LEMMA WatermarksType ==
  ASSUME NEW C \in SUBSET FileIndexLogEntry, NEW n \in Nodes, NEW q \in Nat
  PROVE  /\ Watermarks(C, n, q) \in SUBSET Nat
         /\ Times(C, n, q) \in SUBSET Int
BY DeltasAssumption
   DEF Watermarks, Times, Upto, FileIndexLogEntry, FileIndexDelta, NoTime

LEMMA ApplyComplete ==
  ASSUME NEW C \in SUBSET FileIndexLogEntry, Unique(C), NEW e \in C,
         NEW ix \in Inner, Complete(C, ix), e.sequence <= ix.sequence + 1
  PROVE  Complete(C, Apply(ix, e.sequence, e.delta))
<1> DEFINE jx == Apply(ix, e.sequence, e.delta)
<1>1. ix.sequence \in Nat /\ e.sequence \in Nat /\ e.delta \in FileIndexDelta
  BY DeltasAssumption, Zenon DEF Inner, FileIndexLogEntry
<1>2. CASE e.sequence <= ix.sequence
  BY <1>2, Zenon DEF Apply
<1>3. CASE e.sequence = ix.sequence + 1
  <2>1. jx.sequence = ix.sequence + 1
    BY <1>1, <1>3 DEF Apply
  <2>2. ASSUME NEW p \in Paths, Present(C, p, ix.sequence + 1) PROVE Holds(jx, p)
    <3>1. p \in e.delta.added \/ (Present(C, p, ix.sequence) /\ p \notin e.delta.removed)
      BY <1>1, <1>3, <2>2, PresentStep, Zenon
    <3>2. p \in e.delta.added \/ (Holds(ix, p) /\ p \notin e.delta.removed)
      BY <3>1, Zenon DEF Complete
    <3> QED BY <1>1, <1>3, <3>2 DEF Apply, Holds, Absent, Inner
  <2>3. ASSUME NEW n \in Nodes
        PROVE  /\ Highest(jx.watermarks[n], Watermarks(C, n, ix.sequence + 1), 0)
               /\ Highest(jx.persisted_max_times[n], Times(C, n, ix.sequence + 1), NoTime)
    <3>1. /\ jx.watermarks[n] = IF e.delta.node = n
               THEN Max2(ix.watermarks[n], e.delta.snapshot_sequence) ELSE ix.watermarks[n]
          /\ jx.persisted_max_times[n] = IF e.delta.node = n
               THEN Max2(ix.persisted_max_times[n], e.delta.max_time)
               ELSE ix.persisted_max_times[n]
      BY <1>1, <1>3 DEF Apply, Inner, FileIndexDelta
    <3>2. /\ ix.watermarks[n] \in Int /\ ix.persisted_max_times[n] \in Int
          /\ e.delta.snapshot_sequence \in Int /\ 0 <= e.delta.snapshot_sequence
          /\ e.delta.max_time \in Int /\ NoTime <= e.delta.max_time
          /\ NoTime \in Int
      BY <1>1 DEF Inner, FileIndexDelta, NoTime
    <3>3. /\ Watermarks(C, n, ix.sequence) \in SUBSET Int
          /\ Times(C, n, ix.sequence) \in SUBSET Int
      <4>1. /\ Watermarks(C, n, ix.sequence) \in SUBSET Nat
            /\ Times(C, n, ix.sequence) \in SUBSET Int
        BY <1>1, WatermarksType, Zenon
      <4> QED BY <4>1
    <3>4. /\ Highest(ix.watermarks[n], Watermarks(C, n, ix.sequence), 0)
          /\ Highest(ix.persisted_max_times[n], Times(C, n, ix.sequence), NoTime)
      BY Zenon DEF Complete
    <3>5. CASE e.delta.node = n
      <4>1. /\ Watermarks(C, n, ix.sequence + 1)
                 = Watermarks(C, n, ix.sequence) \cup {e.delta.snapshot_sequence}
            /\ Times(C, n, ix.sequence + 1) = Times(C, n, ix.sequence) \cup {e.delta.max_time}
        BY <1>1, <1>3, <3>5, WatermarksStep
      <4> QED BY <3>1, <3>2, <3>3, <3>4, <3>5, <4>1, HighestStep
    <3>6. CASE e.delta.node # n
      <4>1. /\ Watermarks(C, n, ix.sequence + 1) = Watermarks(C, n, ix.sequence)
            /\ Times(C, n, ix.sequence + 1) = Times(C, n, ix.sequence)
        BY <1>1, <1>3, <3>6, WatermarksStep
      <4> QED BY <3>1, <3>4, <3>6, <4>1, Zenon
    <3> QED BY <3>5, <3>6, Zenon
  <2> QED BY <2>1, <2>2, <2>3, Zenon DEF Complete
<1> QED BY <1>1, <1>2, <1>3

LEMMA ApplyExact ==
  ASSUME NEW C \in SUBSET FileIndexLogEntry, Unique(C), NEW e \in C,
         NEW ix \in Inner, Exact(C, ix), e.sequence <= ix.sequence + 1
  PROVE  Exact(C, Apply(ix, e.sequence, e.delta))
<1> DEFINE jx == Apply(ix, e.sequence, e.delta)
<1>1. ix.sequence \in Nat /\ e.sequence \in Nat /\ e.delta \in FileIndexDelta
  BY DeltasAssumption DEF Inner, FileIndexLogEntry
<1>2. Complete(C, jx)
  BY ApplyComplete, Zenon DEF Exact
<1>3. CASE e.sequence <= ix.sequence
  BY <1>3 DEF Apply
<1>4. CASE e.sequence = ix.sequence + 1
  <2>1. Upto(C, ix.sequence + 1) = Upto(C, ix.sequence) \cup {e}
    BY <1>1, <1>4, UptoStep, Zenon
  <2>2. \A f \in Upto(C, ix.sequence) : f.sequence <= ix.sequence /\ f.sequence \in Nat
    BY Zenon DEF Upto, FileIndexLogEntry
  <2>3. jx.sequence = ix.sequence + 1
    BY <1>1, <1>4 DEF Apply
  <2>4. ASSUME NEW p \in Paths, Holds(jx, p)
        PROVE  AddedAt(C, p, ix.sequence + 1, jx.files[p])
    <3>1. CASE Holds(ix, p) /\ p \notin e.delta.removed
      <4>1. jx.files[p] = ix.files[p]
        BY <1>1, <1>4, <3>1, Zenon DEF Apply
      <4>2. PICK g \in Upto(C, ix.sequence) :
              /\ g.sequence = ix.files[p] /\ p \in g.delta.added
              /\ p \in g.delta.removed \/ ~Present(C, p, ix.files[p] - 1)
              /\ \A f \in Upto(C, ix.sequence) :
                   f.sequence > ix.files[p] => p \notin f.delta.removed
        BY <3>1, Zenon DEF Exact, AddedAt
      <4> HIDE DEF Upto, Present
      <4> QED BY <2>1, <3>1, <4>1, <4>2, Zenon DEF AddedAt
    <3>2. CASE ~(Holds(ix, p) /\ p \notin e.delta.removed)
      <4>1. jx.files[p] = ix.sequence + 1 /\ p \in e.delta.added
        BY <1>1, <1>4, <2>4, <3>2 DEF Apply, Holds, Absent
      <4>2. p \in e.delta.removed \/ ~Present(C, p, ix.sequence)
        BY <3>2, Zenon DEF Exact, Complete
      <4>3. (ix.sequence + 1) - 1 = ix.sequence
        BY <1>1
      <4> HIDE DEF Upto, Present
      <4> QED BY <1>1, <1>4, <2>1, <2>2, <4>1, <4>2, <4>3 DEF AddedAt
    <3> QED BY <3>1, <3>2, Zenon
  <2> QED BY <1>2, <2>3, <2>4, Zenon DEF Exact
<1> QED BY <1>1, <1>3, <1>4

(* merge_from keeps what either side has.                                  *)
LEMMA HighestMerge ==
  ASSUME NEW none \in Int, NEW S \in SUBSET Int, NEW T \in SUBSET Int, S \subseteq T,
         \A u \in T : none <= u, NEW a \in Int, NEW b \in Int,
         Highest(a, S, none), Highest(b, T, none)
  PROVE  Max2(a, b) = b /\ Max2(b, a) = b
BY DEF Highest, Max2

LEMMA WatermarksMono ==
  ASSUME NEW C \in SUBSET FileIndexLogEntry, NEW n \in Nodes,
         NEW q \in Nat, NEW r \in Nat, q <= r
  PROVE  /\ Watermarks(C, n, q) \subseteq Watermarks(C, n, r)
         /\ Times(C, n, q) \subseteq Times(C, n, r)
<1>1. Upto(C, q) \subseteq Upto(C, r)
  BY DEF Upto, FileIndexLogEntry
<1> QED BY <1>1, Zenon DEF Watermarks, Times

LEMMA RestoreMerges ==
  ASSUME NEW C \in SUBSET FileIndexLogEntry, NEW ix \in Inner, NEW v \in Inner,
         Complete(C, ix), Complete(C, v), NEW n \in Nodes
  PROVE  LET r == Restore(ix, v)
         IN /\ Highest(r.watermarks[n], Watermarks(C, n, r.sequence), 0)
            /\ Highest(r.persisted_max_times[n], Times(C, n, r.sequence), NoTime)
<1> DEFINE r == Restore(ix, v)
<1>1. /\ ix.sequence \in Nat /\ v.sequence \in Nat
      /\ ix.watermarks[n] \in Int /\ v.watermarks[n] \in Int
      /\ ix.persisted_max_times[n] \in Int /\ v.persisted_max_times[n] \in Int
      /\ NoTime \in Int
  BY DEF Inner, NoTime
<1>2. /\ r.sequence = Max2(ix.sequence, v.sequence)
      /\ r.watermarks[n] = Max2(ix.watermarks[n], v.watermarks[n])
      /\ r.persisted_max_times[n] = Max2(ix.persisted_max_times[n], v.persisted_max_times[n])
  BY Zenon DEF Restore
<1>3. ASSUME NEW q \in Nat
      PROVE  /\ Watermarks(C, n, q) \in SUBSET Int /\ Times(C, n, q) \in SUBSET Int
             /\ \A u \in Watermarks(C, n, q) : 0 <= u
             /\ \A u \in Times(C, n, q) : NoTime <= u
  BY <1>3, DeltasAssumption
     DEF Watermarks, Times, Upto, FileIndexLogEntry, FileIndexDelta, NoTime
<1>4. /\ Highest(ix.watermarks[n], Watermarks(C, n, ix.sequence), 0)
      /\ Highest(ix.persisted_max_times[n], Times(C, n, ix.sequence), NoTime)
      /\ Highest(v.watermarks[n], Watermarks(C, n, v.sequence), 0)
      /\ Highest(v.persisted_max_times[n], Times(C, n, v.sequence), NoTime)
  BY Zenon DEF Complete
<1>5. CASE ix.sequence <= v.sequence
  <2>1. r.sequence = v.sequence
    BY <1>1, <1>2, <1>5 DEF Max2
  <2>2. /\ Watermarks(C, n, ix.sequence) \subseteq Watermarks(C, n, v.sequence)
        /\ Times(C, n, ix.sequence) \subseteq Times(C, n, v.sequence)
    BY <1>1, <1>5, WatermarksMono, Zenon
  <2>3. r.watermarks[n] = v.watermarks[n]
    BY <1>1, <1>2, <1>3, <1>4, <2>2, HighestMerge
  <2>4. r.persisted_max_times[n] = v.persisted_max_times[n]
    BY <1>1, <1>2, <1>3, <1>4, <2>2, HighestMerge, Zenon
  <2> QED BY <1>4, <2>1, <2>3, <2>4, Zenon
<1>6. CASE v.sequence < ix.sequence
  <2>1. r.sequence = ix.sequence
    BY <1>1, <1>2, <1>6 DEF Max2
  <2>2. /\ Watermarks(C, n, v.sequence) \subseteq Watermarks(C, n, ix.sequence)
        /\ Times(C, n, v.sequence) \subseteq Times(C, n, ix.sequence)
    BY <1>1, <1>6, WatermarksMono
  <2>3. r.watermarks[n] = ix.watermarks[n]
    BY <1>1, <1>2, <1>3, <1>4, <2>2, HighestMerge
  <2>4. r.persisted_max_times[n] = ix.persisted_max_times[n]
    BY <1>1, <1>2, <1>3, <1>4, <2>2, HighestMerge, Zenon
  <2> QED BY <1>4, <2>1, <2>3, <2>4, Zenon
<1> QED BY <1>1, <1>5, <1>6

LEMMA RestoreComplete ==
  ASSUME NEW C \in SUBSET FileIndexLogEntry, NEW ix \in Inner, NEW v \in Inner,
         Complete(C, ix), Complete(C, v)
  PROVE  Complete(C, Restore(ix, v))
<1>1. Restore(ix, v).sequence \in {ix.sequence, v.sequence}
  BY Zenon DEF Restore, Max2
<1>2. ASSUME NEW p \in Paths, Present(C, p, Restore(ix, v).sequence)
      PROVE  Holds(Restore(ix, v), p)
  <2>1. Holds(ix, p) \/ Holds(v, p)
    BY <1>1, <1>2, Zenon DEF Complete
  <2> QED BY <2>1, Zenon DEF Restore, Holds
<1> QED BY <1>2, RestoreMerges, Zenon DEF Complete

LEMMA RestoreEmpty ==
  ASSUME NEW v \in Inner
  PROVE  Restore(EmptyIndex, v) = v
BY DEF Restore, EmptyIndex, Inner, Holds, Absent, Max2, NoTime

-----------------------------------------------------------------------------
(* The slot append is about to create is never 0: sequences start at 1.    *)
SlotChosen == \A t \in Tasks : pc[t] = "put" => slot[t] # 0

TypeInv == TypeOK /\ SlotChosen

LEMMA TypeInit == Init => TypeInv
BY EmptyType DEF Init, TypeInv, TypeOK, SlotChosen, Start, Labels

LEMMA EntryType ==
  ASSUME NEW q \in Nat \ {0}, NEW d \in Deltas
  PROVE  Entry(q, d) \in FileIndexLogEntry
BY Zenon DEF Entry, FileIndexLogEntry

LEMMA TargetType ==
  ASSUME TypeOK, NEW t \in Tasks
  PROVE  Target(t) \in Inner /\ t[1] \in Nodes
BY PublishersAssumption, Zenon DEF TypeOK, Target, Tasks

LEMMA SyncType ==
  ASSUME TypeInv, NEW t \in Tasks, SyncStep(t)
  PROVE  TypeInv'
<1> USE DEF TypeInv, TypeOK, SlotChosen, Labels, Goto
<1>1. CASE SyncList(t)
  BY <1>1, Zenon DEF SyncList, store
<1>2. CASE SyncFetch(t)
  BY <1>2, EmptyType DEF SyncFetch, Finish, Return, store
<1>3. CASE RestoreGet(t)
  BY <1>3, Zenon DEF RestoreGet, store, locals
<1>4. CASE ResetClear(t)
  BY <1>4, EmptyType, Zenon DEF ResetClear, store, locals
<1>5. CASE ResetFill(t)
  BY <1>5, EmptyType, RestoreType, TargetType, Zenon DEF ResetFill, store, locals
<1>6. CASE SyncApply(t)
  <2>1. PICK e \in held[t] :
          /\ SetTarget(t, Apply(Target(t), e.sequence, e.delta))
          /\ held' = [held EXCEPT ![t] = @ \ {e}]
          /\ pc' = [pc EXCEPT ![t] = IF held[t] = {e} THEN Return(t) ELSE "apply"]
    BY <1>6, Zenon DEF SyncApply
  <2>2. Apply(Target(t), e.sequence, e.delta) \in Inner
    BY ApplyType, TargetType, DeltasAssumption DEF FileIndexLogEntry
  <2>3. index' \in [Nodes -> Inner] /\ view' \in [Tasks -> Inner]
    BY <2>1, <2>2, TargetType, Zenon DEF SetTarget
  <2> QED BY <1>6, <2>1, <2>3, Zenon DEF SyncApply, store, Return
<1> QED BY <1>1, <1>2, <1>3, <1>4, <1>5, <1>6, Zenon DEF SyncStep

LEMMA LoadType ==
  ASSUME TypeInv, NEW t \in Tasks, LoadStep(t)
  PROVE  TypeInv'
<1> USE DEF TypeInv, TypeOK, SlotChosen, Labels, Goto
<1>1. CASE LoadGet(t)
  <2>1. view' \in [Tasks -> Inner]
    BY <1>1, EmptyType, RestoreType DEF LoadGet
  <2> QED BY <1>1, <2>1, Zenon DEF LoadGet, CallSync, store, locals
<1>2. CASE LoadMerge(t)
  BY <1>2, EmptyType, RestoreType, TargetType, Zenon DEF LoadMerge, Finish, store
<1>3. CASE PollSync(t)
  BY <1>3, Zenon DEF PollSync, CallSync, store, locals
<1> QED BY <1>1, <1>2, <1>3, Zenon DEF LoadStep

LEMMA AppendType ==
  ASSUME TypeInv, NEW t \in Tasks, AppendStep(t)
  PROVE  TypeInv'
<1> USE DEF TypeInv, TypeOK, SlotChosen, Labels, Goto
<1> t[1] \in Nodes
  BY TargetType, Zenon
<1>1. CASE AppendSlot(t)
  <2>1. index[t[1]].sequence \in Nat
    BY Zenon DEF Inner
  <2> QED BY <1>1, <2>1 DEF AppendSlot, store
<1>2. CASE AppendPut(t)
  <2>1. CASE \E d \in deltas[t] : Create(Entry(slot[t], d))
    <3>1. PICK d \in deltas[t] : Create(Entry(slot[t], d))
      BY <2>1, Zenon
    <3>2. Entry(slot[t], d) \in FileIndexLogEntry
      BY <1>2, EntryType, Zenon DEF AppendPut
    <3>3. log' \in SUBSET FileIndexLogEntry /\ created' \in SUBSET FileIndexLogEntry
          /\ UNCHANGED snapshot
      BY <3>1, <3>2, Zenon DEF Create
    <3> QED BY <1>2, <3>3, EmptyType DEF AppendPut, Finish, CallSync, store
  <2>2. CASE UNCHANGED store
    BY <1>2, <2>2, EmptyType DEF AppendPut, Finish, CallSync, store
  <2> QED BY <1>2, <2>1, <2>2, Zenon DEF AppendPut
<1>3. CASE AppendApply(t)
  <2>1. PICK d \in deltas[t] : index' = [index EXCEPT ![t[1]] = Apply(@, slot[t], d)]
    BY <1>3, Zenon DEF AppendApply
  <2>2. Apply(index[t[1]], slot[t], d) \in Inner
    BY ApplyType, DeltasAssumption, Zenon
  <2>3. index' \in [Nodes -> Inner]
    BY <2>1, <2>2, Zenon
  <2> QED BY <1>3, <2>3, Zenon DEF AppendApply, store, locals
<1>4. CASE MaybeSnapshot(t)
  BY <1>4, EmptyType DEF MaybeSnapshot, Finish, store, locals
<1>5. CASE ToSnapshot(t)
  BY <1>5, Zenon DEF ToSnapshot, store, locals
<1>6. CASE WriteSnapshot(t)
  BY <1>6, Zenon DEF WriteSnapshot, store, locals
<1>7. CASE PruneList(t)
  <2>1. Sequences(log) \in SUBSET Nat
    BY Zenon DEF Sequences, FileIndexLogEntry
  <2> QED BY <1>7, <2>1, EmptyType DEF PruneList, Finish, store
<1>8. CASE PruneDelete(t)
  <2>1. log' \in SUBSET FileIndexLogEntry
    BY <1>8, Zenon DEF PruneDelete
  <2> QED BY <1>8, <2>1, EmptyType DEF PruneDelete, Finish, store
<1> QED BY <1>1, <1>2, <1>3, <1>4, <1>5, <1>6, <1>7, <1>8, Zenon DEF AppendStep

LEMMA PublishType ==
  ASSUME TypeInv, NEW t \in Tasks, PublishStep(t) \/ StoreFail(t)
  PROVE  TypeInv'
<1> USE DEF TypeInv, TypeOK, SlotChosen, Labels, Goto
<1>1. CASE PublishSync(t)
  BY <1>1, Zenon DEF PublishSync, CallSync, store, locals
<1>2. CASE PublishNothing(t)
  BY <1>2, EmptyType, Zenon DEF PublishNothing, Finish, store
<1>3. CASE \E d \in Deltas : AppendCall(t, d)
  BY <1>3 DEF AppendCall, CallSync, store
<1>4. CASE StoreFail(t)
  <2>1. /\ log' \in SUBSET FileIndexLogEntry
        /\ created' \in SUBSET FileIndexLogEntry
        /\ snapshot' \in SUBSET Inner
    BY <1>4, EntryType DEF StoreFail, Create, store
  <2> QED BY <1>4, <2>1, EmptyType, Zenon DEF StoreFail, Finish
<1> QED BY <1>1, <1>2, <1>3, <1>4, Zenon DEF PublishStep

LEMMA RestartType ==
  ASSUME TypeInv, NEW n \in Nodes, Restart(n)
  PROVE  TypeInv'
BY EmptyType, RestartsAssumption
   DEF TypeInv, TypeOK, SlotChosen, Labels, Restart, Lost, Start, store

LEMMA TypeStep == TypeInv /\ [Next]_vars => TypeInv'
<1> SUFFICES ASSUME TypeInv, [Next]_vars PROVE TypeInv'
  BY Zenon
<1>1. CASE UNCHANGED vars
  BY <1>1, Zenon DEF TypeInv, TypeOK, SlotChosen, vars
<1>2. CASE Next
  BY <1>2, SyncType, LoadType, AppendType, PublishType, RestartType, Zenon DEF Next
<1> QED BY <1>1, <1>2, Zenon

(* The variables keep their types, whatever the interleaving and the faults:
   an entry is created at a sequence of at least 1, and every operation on an
   index yields an index.                                                  *)
THEOREM TypeCorrect == Spec => []TypeOK
<1>1. TypeInv => TypeOK
  BY Zenon DEF TypeInv
<1> QED BY <1>1, TypeInit, TypeStep, PTL DEF Spec

-----------------------------------------------------------------------------
(* The time watermarks cover the files.  The invariant also has to speak of
   the indexes tasks hold privately: what a load read, what a gap recovery
   got, what a rollup is about to write.                                   *)

BoundInv == TimesCoverFiles /\ \A t \in Tasks : Bounded(view[t])

LEMMA EmptyBounded == Bounded(EmptyIndex)
BY Zenon DEF Bounded, EmptyIndex, Holds, Absent

LEMMA ApplyBounded ==
  ASSUME NEW ix \in Inner, Bounded(ix), NEW q \in Nat, NEW d \in Deltas
  PROVE  Bounded(Apply(ix, q, d))
<1>1. /\ d \in FileIndexDelta
      /\ \A p \in d.added : OwnerOf[p] = d.node /\ TimeOf[p] <= d.max_time
  BY DeltasAssumption, Zenon
<1> QED BY <1>1, OwnerOfAssumption, TimeOfAssumption
        DEF Bounded, Apply, Holds, Absent, Inner, FileIndexDelta, Max2, NoTime

LEMMA RestoreBounded ==
  ASSUME NEW ix \in Inner, Bounded(ix), NEW s \in Inner, Bounded(s)
  PROVE  Bounded(Restore(ix, s))
BY OwnerOfAssumption, TimeOfAssumption
   DEF Bounded, Restore, Holds, Absent, Inner, Max2, NoTime

LEMMA BoundInit == Init => BoundInv
BY EmptyBounded, Zenon DEF Init, BoundInv, TimesCoverFiles

(* A step stores nothing in an index but what these operations yield.      *)
LEMMA BoundStep == TypeInv /\ BoundInv /\ [Next]_vars => BoundInv'
<1> SUFFICES ASSUME TypeInv, BoundInv, [Next]_vars PROVE BoundInv'
  BY Zenon
<1> USE EmptyBounded DEF BoundInv, TimesCoverFiles, TypeInv, TypeOK
<1>1. ASSUME NEW t \in Tasks, SyncStep(t) PROVE BoundInv'
  <2> t[1] \in Nodes
    BY TargetType, Zenon
  <2>1. CASE SyncList(t)
    BY <2>1, Zenon DEF SyncList, store
  <2>2. CASE SyncFetch(t)
    BY <2>2 DEF SyncFetch, Finish, store
  <2>3. CASE RestoreGet(t)
    BY <2>3, Zenon DEF RestoreGet, store
  <2>4. CASE ResetClear(t)
    BY <2>4, Zenon DEF ResetClear, store
  <2>5. CASE ResetFill(t)
    BY <2>5, RestoreBounded, Zenon DEF ResetFill, store
  <2>6. CASE SyncApply(t)
    <3>1. PICK e \in held[t] : SetTarget(t, Apply(Target(t), e.sequence, e.delta))
      BY <2>6, Zenon DEF SyncApply
    <3>2. Bounded(Apply(Target(t), e.sequence, e.delta))
      BY ApplyBounded, TargetType DEF FileIndexLogEntry, Target
    <3> QED BY <2>6, <3>1, <3>2, Zenon DEF SyncApply, SetTarget, store
  <2> QED BY <1>1, <2>1, <2>2, <2>3, <2>4, <2>5, <2>6, Zenon DEF SyncStep
<1>2. ASSUME NEW t \in Tasks, LoadStep(t) PROVE BoundInv'
  <2> t[1] \in Nodes
    BY TargetType
  <2>1. CASE LoadGet(t)
    BY <2>1, RestoreBounded, EmptyType DEF LoadGet, store
  <2>2. CASE LoadMerge(t)
    BY <2>2, RestoreBounded, Zenon DEF LoadMerge, Finish, store
  <2>3. CASE PollSync(t)
    BY <2>3, Zenon DEF PollSync, store
  <2> QED BY <1>2, <2>1, <2>2, <2>3, Zenon DEF LoadStep
<1>3. ASSUME NEW t \in Tasks, AppendStep(t) PROVE BoundInv'
  <2> t[1] \in Nodes
    BY TargetType
  <2>1. CASE AppendSlot(t)
    BY <2>1, Zenon DEF AppendSlot, store
  <2>2. CASE AppendPut(t)
    BY <2>2 DEF AppendPut, Finish, Create, store
  <2>3. CASE AppendApply(t)
    BY <2>3, ApplyBounded DEF AppendApply, store
  <2>4. CASE MaybeSnapshot(t)
    BY <2>4 DEF MaybeSnapshot, Finish, store
  <2>5. CASE ToSnapshot(t)
    BY <2>5, Zenon DEF ToSnapshot, store
  <2>6. CASE WriteSnapshot(t)
    BY <2>6, Zenon DEF WriteSnapshot
  <2>7. CASE PruneList(t)
    BY <2>7, Zenon DEF PruneList, Finish, store
  <2>8. CASE PruneDelete(t)
    BY <2>8, Zenon DEF PruneDelete, Finish
  <2> QED BY <1>3, <2>1, <2>2, <2>3, <2>4, <2>5, <2>6, <2>7, <2>8, Zenon DEF AppendStep
<1>4. ASSUME NEW t \in Tasks, PublishStep(t) \/ StoreFail(t) PROVE BoundInv'
  BY <1>4 DEF PublishStep, PublishSync, PublishNothing, AppendCall, StoreFail,
              Finish, Create, store
<1>5. ASSUME NEW n \in Nodes, Restart(n) PROVE BoundInv'
  BY <1>5, Zenon DEF Restart, Lost, store
<1>6. CASE UNCHANGED vars
  BY <1>6, Zenon DEF vars
<1> QED BY <1>1, <1>2, <1>3, <1>4, <1>5, <1>6, Zenon DEF Next

(* Every index of the cluster and the stored rollup list only files whose
   max_time their node's persisted_max_times covers and whose added_at is at
   or below the position: applies, merges, resets, rollups and restarts, in
   any interleaving and with any faults, never lower the bound below a file.*)
THEOREM TimesCovered == Spec => []TimesCoverFiles
<1>1. BoundInv => TimesCoverFiles
  BY Zenon DEF BoundInv
<1> QED BY <1>1, TypeInit, TypeStep, BoundInit, BoundStep, PTL DEF Spec

-----------------------------------------------------------------------------
(* Which task may be where, and that an append carries one delta.          *)
Control ==
  \A t \in Tasks :
    /\ caller[t] \in {"publish", "append"} => t[2] = "append"
    /\ pc[t] = "load" \/ caller[t] = "load" => t[2] = "sync"
    /\ pc[t] = "merge" => caller[t] = "load"
    /\ pc[t] \in {"synced", "slot", "put", "own", "maybe", "collapse", "rollup",
                  "prune", "delete"} => t[2] = "append"
    /\ \A d1, d2 \in deltas[t] : d1 = d2

LEMMA ControlInit == Init => Control
BY Zenon DEF Init, Control, Start

LEMMA ControlStep == TypeInv /\ Control /\ [Next]_vars => Control'
<1> SUFFICES ASSUME TypeInv, Control, [Next]_vars PROVE Control'
  OBVIOUS
<1> USE DEF TypeInv, TypeOK, Control, Goto
<1>1. ASSUME NEW t \in Tasks, SyncStep(t) PROVE Control'
  <2>1. CASE SyncList(t)
    BY <2>1, Zenon DEF SyncList
  <2>2. CASE SyncFetch(t)
    BY <2>2 DEF SyncFetch, Finish, Return
  <2>3. CASE RestoreGet(t)
    BY <2>3 DEF RestoreGet, locals
  <2>4. CASE ResetClear(t)
    BY <2>4, Zenon DEF ResetClear, locals
  <2>5. CASE ResetFill(t)
    BY <2>5, Zenon DEF ResetFill, locals
  <2>6. CASE SyncApply(t)
    BY <2>6 DEF SyncApply, Return
  <2> QED BY <1>1, <2>1, <2>2, <2>3, <2>4, <2>5, <2>6, Zenon DEF SyncStep
<1>2. ASSUME NEW t \in Tasks, LoadStep(t) PROVE Control'
  BY <1>2 DEF LoadStep, LoadGet, LoadMerge, PollSync, Finish, CallSync, locals
<1>3. ASSUME NEW t \in Tasks, AppendStep(t) PROVE Control'
  <2>1. CASE AppendSlot(t)
    BY <2>1, Zenon DEF AppendSlot
  <2>2. CASE AppendPut(t)
    BY <2>2 DEF AppendPut, Finish, CallSync
  <2>3. CASE AppendApply(t)
    BY <2>3, Zenon DEF AppendApply, locals
  <2>4. CASE MaybeSnapshot(t)
    BY <2>4 DEF MaybeSnapshot, Finish, locals
  <2>5. CASE ToSnapshot(t)
    BY <2>5, Zenon DEF ToSnapshot, locals
  <2>6. CASE WriteSnapshot(t)
    BY <2>6, Zenon DEF WriteSnapshot, locals
  <2>7. CASE PruneList(t)
    BY <2>7 DEF PruneList, Finish
  <2>8. CASE PruneDelete(t)
    BY <2>8 DEF PruneDelete, Finish
  <2> QED BY <1>3, <2>1, <2>2, <2>3, <2>4, <2>5, <2>6, <2>7, <2>8, Zenon DEF AppendStep
<1>4. ASSUME NEW t \in Tasks, PublishStep(t) PROVE Control'
  BY <1>4 DEF PublishStep, PublishSync, PublishNothing, AppendCall, Finish,
              CallSync, locals
<1>5. ASSUME NEW t \in Tasks, StoreFail(t) PROVE Control'
  BY <1>5, Zenon DEF StoreFail, Finish
<1>6. ASSUME NEW n \in Nodes, Restart(n) PROVE Control'
  BY <1>6, Zenon DEF Restart, Lost, Start
<1>7. CASE UNCHANGED vars
  BY <1>7, Zenon DEF vars
<1> QED BY <1>1, <1>2, <1>3, <1>4, <1>5, <1>6, <1>7, Zenon DEF Next

-----------------------------------------------------------------------------
(* The inductive invariant of a log without a rollup.                      *)

Reached(ix) == ix.sequence = 0 \/ ix.sequence \in Sequences(created)

LogInv == log = created /\ Unique(created) /\ Contiguous(created)

IndexInv ==
  /\ \A n \in Nodes : Reached(index[n]) /\ Complete(created, index[n])
  /\ \A n \in Nodes \ Publishers : Exact(created, index[n])

Loading(t) == pc[t] = "load" \/ caller[t] = "load"

LoadInv ==
  \A t \in Tasks : Loading(t) =>
    /\ Reached(view[t]) /\ Exact(created, view[t])
    /\ t[1] \notin Publishers => index[t[1]] = EmptyIndex

\* What sync has fetched has no holes above the position.
HeldInv ==
  \A t \in Tasks : pc[t] \in {"fetch", "apply"} =>
    /\ held[t] \subseteq created
    /\ \A e \in held[t] : \A q \in (Target(t).sequence + 1)..e.sequence :
         q \in Sequences(held[t])

\* Nobody has seen a gap, and nobody prunes.
NoGapInv ==
  \A t \in Tasks : pc[t] \notin {"restore", "clear", "fill", "prune", "delete"}

\* An append's slot is at most one above its node's position.
SlotInv ==
  \A t \in Tasks : pc[t] \in {"put", "own"} =>
    /\ slot[t] \in 1..(index[t[1]].sequence + 1)
    /\ pc[t] = "own" => \A d \in deltas[t] : Entry(slot[t], d) \in created

ReplayInv ==
  snapshot = {} =>
    LogInv /\ IndexInv /\ LoadInv /\ HeldInv /\ NoGapInv /\ SlotInv

LEMMA ReplayInit == Init => ReplayInv
<1> SUFFICES ASSUME Init PROVE ReplayInv
  BY Zenon
<1>1. Exact({}, EmptyIndex)
  BY EmptyExact, Zenon
<1>2. Complete({}, EmptyIndex)
  BY <1>1, Zenon DEF Exact
<1>3. LogInv
  BY Zenon DEF Init, LogInv, Unique, Contiguous
<1>4. \A t \in Tasks : t[1] \in Nodes
  BY PublishersAssumption, Zenon DEF Tasks
<1>5. Reached(EmptyIndex)
  BY Zenon DEF Reached, EmptyIndex
<1>6. IndexInv /\ LoadInv
  BY <1>1, <1>2, <1>4, <1>5, Zenon DEF Init, IndexInv, LoadInv
<1>7. \A t \in Tasks : pc[t] \in {"load", "idle"}
  BY Zenon DEF Init, Start
<1>8. HeldInv /\ NoGapInv /\ SlotInv
  BY <1>7, Zenon DEF HeldInv, NoGapInv, SlotInv
<1> QED BY <1>3, <1>6, <1>8, Zenon DEF ReplayInv

\* The other tasks' locals, in a step of t.
Others(t) ==
  \A u \in Tasks : u # t =>
    /\ pc'[u] = pc[u] /\ caller'[u] = caller[u] /\ view'[u] = view[u]
    /\ held'[u] = held[u] /\ deltas'[u] = deltas[u] /\ slot'[u] = slot[u]

(* Steps that change neither the log nor an index: only the conjuncts about
   the task that moves are at stake.                                       *)
LEMMA QuietStep ==
  ASSUME TypeInv, Control, snapshot = {}, ReplayInv, NEW t \in Tasks,
         UNCHANGED <<log, created, snapshot, index>>,
         Others(t),
         Loading(t)' => Loading(t) /\ Reached(view'[t]) /\ Exact(created, view'[t]),
         pc'[t] \in {"fetch", "apply"} =>
           /\ held'[t] \subseteq created
           /\ \A e \in held'[t] : \A q \in (Target(t)'.sequence + 1)..e.sequence :
                q \in Sequences(held'[t]),
         pc'[t] \notin {"restore", "clear", "fill", "prune", "delete"},
         pc'[t] \in {"put", "own"} =>
           /\ slot'[t] \in 1..(index[t[1]].sequence + 1)
           /\ pc'[t] = "own" => \A d \in deltas'[t] : Entry(slot'[t], d) \in created
  PROVE  ReplayInv'
<1> USE DEF ReplayInv, Others
<1>1. LogInv' /\ IndexInv'
  BY Zenon DEF LogInv, IndexInv, Reached
<1>2. LoadInv'
  BY Zenon DEF LoadInv, Reached, Loading
<1>3. HeldInv'
  BY Zenon DEF HeldInv, Target
<1>4. NoGapInv' /\ SlotInv'
  BY Zenon DEF NoGapInv, SlotInv
<1> QED BY <1>1, <1>2, <1>3, <1>4, Zenon

(* Steps that raise one node's index along the log.                        *)
LEMMA RaiseStep ==
  ASSUME TypeInv, Control, snapshot = {}, ReplayInv, NEW t \in Tasks, NEW jx \in Inner,
         UNCHANGED <<log, created, snapshot>>,
         index' = [index EXCEPT ![t[1]] = jx],
         Others(t),
         jx.sequence >= index[t[1]].sequence,
         Reached(jx), Complete(created, jx),
         t[1] \notin Publishers => Exact(created, jx),
         ~Loading(t)',
         pc'[t] = "apply" =>
           /\ held'[t] \subseteq created
           /\ \A e \in held'[t] : \A q \in (jx.sequence + 1)..e.sequence :
                q \in Sequences(held'[t]),
         pc'[t] \notin {"fetch", "put", "own", "restore", "clear", "fill", "prune", "delete"}
  PROVE  ReplayInv'
<1> USE DEF ReplayInv, Others
<1>0. /\ t[1] \in Nodes
      /\ \A n \in Nodes : index'[n] = IF n = t[1] THEN jx ELSE index[n]
      /\ \A n \in Nodes : index[n].sequence \in Nat
      /\ jx.sequence \in Nat
      /\ \A u \in Tasks : u[1] \in Nodes
  BY TargetType, Zenon DEF TypeInv, TypeOK, Inner
<1>1. LogInv' /\ IndexInv'
  BY <1>0 DEF LogInv, IndexInv, Reached
<1>2. LoadInv'
  <2> SUFFICES ASSUME NEW u \in Tasks, Loading(u)'
               PROVE  /\ Reached(view[u])' /\ Exact(created, view[u])'
                      /\ u[1] \notin Publishers => index'[u[1]] = EmptyIndex
    BY Zenon DEF LoadInv
  <2>1. u # t /\ Loading(u)
    BY Zenon DEF Loading
  <2>2. u[1] \notin Publishers => u[1] # t[1]
    BY <2>1, <1>0 DEF Tasks
  <2> QED BY <1>0, <2>1, <2>2 DEF LoadInv, Reached
<1>3. HeldInv'
  <2> SUFFICES ASSUME NEW u \in Tasks, pc'[u] \in {"fetch", "apply"}
               PROVE  /\ held'[u] \subseteq created
                      /\ \A e \in held'[u] : \A q \in (Target(u)'.sequence + 1)..e.sequence :
                           q \in Sequences(held'[u])
    BY Zenon DEF HeldInv
  <2>1. CASE u = t
    <3>1. Target(t)' = jx
      BY <1>0, Zenon DEF Target, Loading
    <3> QED BY <2>1, <3>1, Zenon
  <2>2. CASE u # t
    <3>1. /\ held[u] \subseteq created
          /\ \A e \in held[u] : \A q \in (Target(u).sequence + 1)..e.sequence :
               q \in Sequences(held[u])
      BY <2>2, Zenon DEF HeldInv
    <3>2. Target(u).sequence <= Target(u)'.sequence /\ Target(u)'.sequence \in Nat
          /\ Target(u).sequence \in Nat
      BY <1>0, <2>2 DEF Target, TypeInv, TypeOK, Inner
    <3>3. \A e \in held[u] : e.sequence \in Nat
      BY DEF TypeInv, TypeOK, FileIndexLogEntry
    <3> QED BY <2>2, <3>1, <3>2, <3>3
  <2> QED BY <2>1, <2>2, Zenon
<1>4. NoGapInv'
  BY Zenon DEF NoGapInv
<1>5. SlotInv'
  <2> SUFFICES ASSUME NEW u \in Tasks, pc'[u] \in {"put", "own"}
               PROVE  /\ slot'[u] \in 1..(index'[u[1]].sequence + 1)
                      /\ pc'[u] = "own" => \A d \in deltas'[u] : Entry(slot'[u], d) \in created
    BY Zenon DEF SlotInv
  <2>1. u # t
    BY Zenon
  <2>2. /\ slot[u] \in 1..(index[u[1]].sequence + 1)
        /\ pc[u] = "own" => \A d \in deltas[u] : Entry(slot[u], d) \in created
    BY <2>1, Zenon DEF SlotInv
  <2>3. index[u[1]].sequence <= index'[u[1]].sequence /\ index'[u[1]].sequence \in Nat
    BY <1>0
  <2> QED BY <1>0, <2>1, <2>2, <2>3
<1> QED BY <1>1, <1>2, <1>3, <1>4, <1>5, Zenon

(* A position reached is below a slot that is still free.                  *)
LEMMA FreeSlot ==
  ASSUME NEW C \in SUBSET FileIndexLogEntry, Contiguous(C), NEW q \in Nat \ {0},
         q \notin Sequences(C), NEW r \in Nat, r = 0 \/ r \in Sequences(C)
  PROVE  r < q
BY DEF Contiguous, Sequences, FileIndexLogEntry

(* The step that creates a log object.                                     *)
LEMMA GrowStep ==
  ASSUME TypeInv, Control, snapshot = {}, ReplayInv, NEW t \in Tasks,
         pc[t] = "put", NEW d \in deltas[t], Create(Entry(slot[t], d)),
         UNCHANGED index,
         Others(t),
         pc'[t] \in {"own", "idle"}, ~Loading(t)',
         pc'[t] = "own" => slot'[t] = slot[t] /\ deltas'[t] = deltas[t]
  PROVE  ReplayInv'
<1> USE DEF ReplayInv, Others
<1> DEFINE e == Entry(slot[t], d)
<1>0. /\ t[1] \in Nodes /\ \A u \in Tasks : u[1] \in Nodes
      /\ \A n \in Nodes : index[n] \in Inner /\ index[n].sequence \in Nat
      /\ \A u \in Tasks : view[u] \in Inner /\ view[u].sequence \in Nat
      /\ created \in SUBSET FileIndexLogEntry
      /\ slot[t] \in Nat \ {0} /\ d \in Deltas
  BY TargetType, Zenon DEF TypeInv, TypeOK, Inner, SlotChosen
<1>1. e \in FileIndexLogEntry /\ e.sequence = slot[t]
  BY <1>0, EntryType, Zenon DEF Entry
<1>2. /\ log' = created \cup {e} /\ created' = created \cup {e}
      /\ slot[t] \notin Sequences(created) /\ snapshot' = {}
  BY <1>1, Zenon DEF Create, LogInv
<1>3. ASSUME NEW ix \in Inner, Reached(ix) PROVE ix.sequence < e.sequence
  <2>1. ix.sequence \in Nat
    BY Zenon DEF Inner
  <2> QED BY <1>0, <1>1, <1>2, <1>3, <2>1, FreeSlot, Zenon DEF Reached, LogInv
<1>4. Sequences(created') = Sequences(created) \cup {slot[t]}
  BY <1>1, <1>2, Zenon DEF Sequences
<1>5. LogInv'
  <2>1. Unique(created')
    BY <1>0, <1>1, <1>2 DEF LogInv, Unique, Sequences
  <2>2. slot[t] <= index[t[1]].sequence + 1
    BY <1>0 DEF SlotInv
  <2>3. \A q \in 1..index[t[1]].sequence : q \in Sequences(created)
    BY <1>0 DEF IndexInv, Reached, LogInv, Contiguous, Sequences
  <2>4. ASSUME NEW f \in created', NEW q \in 1..f.sequence
        PROVE  q \in Sequences(created')
    <3>1. CASE f \in created
      BY <3>1, <1>4, Zenon DEF LogInv, Contiguous
    <3>2. CASE f = e
      BY <3>2, <1>0, <1>1, <1>4, <2>2, <2>3
    <3> QED BY <1>2, <3>1, <3>2, Zenon
  <2> QED BY <1>2, <2>1, <2>4, Zenon DEF LogInv, Contiguous
<1>6. IndexInv'
  <2>1. ASSUME NEW n \in Nodes
        PROVE  /\ (Reached(index[n]) /\ Complete(created, index[n]))'
               /\ n \notin Publishers => Exact(created', index'[n])
    <3>1. Reached(index[n]) /\ Complete(created, index[n])
          /\ (n \notin Publishers => Exact(created, index[n]))
      BY Zenon DEF IndexInv
    <3>2. index[n].sequence < e.sequence
      BY <1>0, <1>3, <3>1, Zenon
    <3>3. Reached(index[n])'
      BY <1>4, <3>1, Zenon DEF Reached
    <3> QED BY <1>0, <1>1, <1>2, <3>1, <3>2, <3>3, CompleteGrow, ExactGrow, Zenon
  <2> QED BY <2>1, Zenon DEF IndexInv
<1>7. LoadInv'
  <2> SUFFICES ASSUME NEW u \in Tasks, Loading(u)'
               PROVE  /\ Reached(view[u])' /\ Exact(created, view[u])'
                      /\ u[1] \notin Publishers => index'[u[1]] = EmptyIndex
    BY Zenon DEF LoadInv
  <2>1. u # t /\ Loading(u) /\ view'[u] = view[u]
    BY Zenon DEF Loading
  <2>2. Reached(view[u]) /\ Exact(created, view[u])
        /\ (u[1] \notin Publishers => index[u[1]] = EmptyIndex)
    BY <2>1, Zenon DEF LoadInv
  <2>3. view[u].sequence < e.sequence
    BY <1>0, <1>3, <2>2, Zenon
  <2>4. Reached(view[u])'
    BY <1>4, <2>1, <2>2, Zenon DEF Reached
  <2> QED BY <1>0, <1>1, <1>2, <2>1, <2>2, <2>3, <2>4, ExactGrow, Zenon
<1>8. HeldInv'
  <2> SUFFICES ASSUME NEW u \in Tasks, pc'[u] \in {"fetch", "apply"}
               PROVE  /\ held'[u] \subseteq created'
                      /\ \A f \in held'[u] : \A q \in (Target(u)'.sequence + 1)..f.sequence :
                           q \in Sequences(held'[u])
    BY Zenon DEF HeldInv
  <2>1. u # t /\ Target(u)' = Target(u)
    BY Zenon DEF Target
  <2> QED BY <1>2, <2>1, Zenon DEF HeldInv
<1>9. NoGapInv'
  BY Zenon DEF NoGapInv
<1>10. SlotInv'
  <2> SUFFICES ASSUME NEW u \in Tasks, pc'[u] \in {"put", "own"}
               PROVE  /\ slot'[u] \in 1..(index'[u[1]].sequence + 1)
                      /\ pc'[u] = "own" => \A c \in deltas'[u] : Entry(slot'[u], c) \in created'
    BY Zenon DEF SlotInv
  <2>1. CASE u = t
    <3>1. \A c \in deltas[t] : c = d
      BY Zenon DEF Control
    <3> QED BY <1>2, <2>1, <3>1, Zenon DEF SlotInv
  <2>2. CASE u # t
    BY <1>2, <2>2, Zenon DEF SlotInv
  <2> QED BY <2>1, <2>2, Zenon
<1> QED BY <1>5, <1>6, <1>7, <1>8, <1>9, <1>10, Zenon

-----------------------------------------------------------------------------
(* The steps of a task, one by one.                                        *)

LEMMA ReplaySync ==
  ASSUME TypeInv, Control, ReplayInv, NEW t \in Tasks, SyncStep(t)
  PROVE  ReplayInv'
<1> SUFFICES ASSUME snapshot' = {} PROVE ReplayInv'
  BY Zenon DEF ReplayInv
<1>0. /\ snapshot = {} /\ UNCHANGED <<log, created, snapshot>>
      /\ LogInv /\ IndexInv /\ LoadInv /\ HeldInv /\ NoGapInv /\ SlotInv
  BY Zenon DEF ReplayInv, SyncStep, SyncList, SyncFetch, RestoreGet, ResetClear,
         ResetFill, SyncApply, store
<1>1. /\ t[1] \in Nodes /\ Target(t) \in Inner /\ Target(t).sequence \in Nat
      /\ \A e \in created : e.sequence \in Nat
  BY TargetType, Zenon DEF TypeInv, TypeOK, Inner, FileIndexLogEntry
<1>2. CASE SyncList(t)
  <2>1. /\ pc' = [pc EXCEPT ![t] = "fetch"] /\ UNCHANGED <<index, caller, view, deltas, slot>>
        /\ held' = [held EXCEPT ![t] = {e \in created : e.sequence > Target(t).sequence}]
    BY <1>0, <1>2, Zenon DEF SyncList, Goto, LogInv
  <2>2. Target(t)' = Target(t)
    BY <2>1, Zenon DEF Target
  <2>3. ASSUME NEW e \in held'[t], NEW q \in (Target(t).sequence + 1)..e.sequence
        PROVE  q \in Sequences(held'[t])
    <3>1. e \in created /\ q \in 1..e.sequence
      BY <1>1, <2>1 DEF TypeInv, TypeOK
    <3>2. PICK f \in created : f.sequence = q
      BY <1>0, <3>1, Zenon DEF LogInv, Contiguous, Sequences
    <3>3. f \in held'[t]
      BY <1>1, <2>1, <3>2 DEF TypeInv, TypeOK
    <3> QED BY <3>2, <3>3, Zenon DEF Sequences
  <2>4. held'[t] \subseteq created
    BY <2>1, Zenon DEF TypeInv, TypeOK
  <2>5. Loading(t)' => Loading(t) /\ Reached(view'[t]) /\ Exact(created, view'[t])
    BY <1>0, <2>1, Zenon DEF Loading, LoadInv, TypeInv, TypeOK
  <2>6. /\ pc'[t] = "fetch"
        /\ Others(t)
    BY <2>1, Zenon DEF TypeInv, TypeOK, Others
  <2> QED BY <1>0, <2>1, <2>2, <2>3, <2>4, <2>5, <2>6, QuietStep, Zenon
<1>3. CASE SyncFetch(t)
  <2> DEFINE got == {e \in log : e.sequence \in Sequences(held[t])}
  <2>1. pc[t] = "fetch" /\ UNCHANGED index
    BY <1>3, Zenon DEF SyncFetch
  <2>2. /\ held[t] \subseteq created
        /\ \A e \in held[t] : \A q \in (Target(t).sequence + 1)..e.sequence :
             q \in Sequences(held[t])
    BY <1>0, <2>1, Zenon DEF HeldInv
  <2>3. got = held[t]
    BY <1>0, <2>2 DEF LogInv, Unique, Sequences
  <2>4. ~Gap(Target(t).sequence, held[t])
    <3> SUFFICES ASSUME NEW e \in held[t], \A f \in held[t] : f.sequence > Target(t).sequence + 1
                 PROVE  FALSE
      BY Zenon DEF Gap
    <3>1. Target(t).sequence + 1 \in Sequences(held[t])
      BY <1>1, <2>2
    <3> QED BY <1>1, <2>2, <3>1 DEF Sequences
  <2>5. /\ held' = [held EXCEPT ![t] = held[t]]
        /\ pc' = [pc EXCEPT ![t] = IF held[t] = {} THEN Return(t) ELSE "apply"]
        /\ UNCHANGED <<caller, view, deltas, slot>>
    BY <1>3, <2>3, <2>4, Zenon DEF SyncFetch, Goto
  <2>6. pc'[t] \in {"merge", "idle", "synced", "slot", "apply"}
    BY <2>5, Zenon DEF Return, TypeInv, TypeOK
  <2>7. held'[t] = held[t] /\ Target(t)' = Target(t)
    BY <2>1, <2>5, Zenon DEF TypeInv, TypeOK, Target
  <2>8. Loading(t)' => Loading(t) /\ Reached(view'[t]) /\ Exact(created, view'[t])
    BY <1>0, <2>5, <2>6, Zenon DEF Loading, LoadInv, TypeInv, TypeOK
  <2>9. Others(t)
    BY <2>5, Zenon DEF TypeInv, TypeOK, Others
  <2> QED BY <1>0, <2>1, <2>2, <2>6, <2>7, <2>8, <2>9, QuietStep, Zenon
<1>4. CASE RestoreGet(t) \/ ResetClear(t) \/ ResetFill(t)
  BY <1>0, <1>4, Zenon DEF NoGapInv, RestoreGet, ResetClear, ResetFill
<1>5. CASE SyncApply(t)
  <2>1. PICK e \in held[t] :
          /\ \A f \in held[t] : e.sequence <= f.sequence
          /\ SetTarget(t, Apply(Target(t), e.sequence, e.delta))
          /\ held' = [held EXCEPT ![t] = @ \ {e}]
          /\ pc' = [pc EXCEPT ![t] = IF held[t] = {e} THEN Return(t) ELSE "apply"]
    BY <1>5, Zenon DEF SyncApply, Goto
  <2> DEFINE jx == Apply(Target(t), e.sequence, e.delta)
  <2>2. pc[t] = "apply" /\ UNCHANGED <<caller, deltas, slot>>
    BY <1>5, Zenon DEF SyncApply
  <2>3. /\ held[t] \subseteq created
        /\ \A f \in held[t] : \A q \in (Target(t).sequence + 1)..f.sequence :
             q \in Sequences(held[t])
    BY <1>0, <2>2, Zenon DEF HeldInv
  <2>4. /\ e \in created /\ e.sequence \in Nat /\ created \in SUBSET FileIndexLogEntry
        /\ e.delta \in FileIndexDelta /\ Unique(created)
    BY <1>0, <1>1, <2>3, DeltasAssumption, Zenon DEF TypeInv, TypeOK, FileIndexLogEntry, LogInv
  <2>5. e.sequence <= Target(t).sequence + 1
    <3> SUFFICES ASSUME e.sequence > Target(t).sequence + 1 PROVE FALSE
      BY <1>1, <2>4
    <3>1. Target(t).sequence + 1 \in Sequences(held[t])
      BY <1>1, <2>3, <2>4
    <3> QED BY <1>1, <2>1, <2>3, <2>4, <3>1 DEF Sequences
  <2>6. jx \in Inner /\ jx.sequence \in Nat
    BY <1>1, <2>4, ApplyType, Zenon DEF Inner
  <2>7. jx.sequence = Max2(Target(t).sequence, e.sequence)
    BY <1>1, <2>4, Zenon DEF Apply, Max2
  <2>8. jx.sequence >= Target(t).sequence /\ jx.sequence >= e.sequence
    BY <1>1, <2>4, <2>7 DEF Max2
  <2>9. Reached(Target(t)) => Reached(jx)
    BY <1>1, <2>4, <2>7, Zenon DEF Reached, Max2, Sequences
  <2>10. /\ Complete(created, Target(t)) => Complete(created, jx)
         /\ Exact(created, Target(t)) => Exact(created, jx)
    BY <1>1, <2>4, <2>5, ApplyComplete, ApplyExact, Zenon
  <2>11. held'[t] = held[t] \ {e}
    BY <2>1, Zenon DEF TypeInv, TypeOK
  <2>12. ASSUME NEW f \in held'[t], NEW q \in (jx.sequence + 1)..f.sequence
         PROVE  q \in Sequences(held'[t])
    <3>1. f \in held[t] /\ f.sequence \in Nat
      BY <1>1, <2>3, <2>11, Zenon
    <3>2. q \in (Target(t).sequence + 1)..f.sequence /\ q > e.sequence
      BY <1>1, <2>4, <2>6, <2>8, <3>1
    <3>3. PICK g \in held[t] : g.sequence = q
      BY <2>3, <3>1, <3>2, Zenon DEF Sequences
    <3>4. g # e
      BY <2>4, <3>2, <3>3
    <3> QED BY <2>11, <3>3, <3>4, Zenon DEF Sequences
  <2>13. pc'[t] \in {"merge", "idle", "synced", "slot", "apply"}
    BY <2>1, Zenon DEF Return, TypeInv, TypeOK
  <2>14. CASE caller[t] = "load"
    <3>1. Target(t) = view[t] /\ view' = [view EXCEPT ![t] = jx] /\ UNCHANGED index
      BY <2>1, <2>14, Zenon DEF Target, SetTarget
    <3>2. Loading(t) /\ Reached(view[t]) /\ Exact(created, view[t])
      BY <1>0, <2>14, Zenon DEF Loading, LoadInv
    <3>3. view'[t] = jx /\ Target(t)' = jx
      BY <2>2, <2>14, <3>1, Zenon DEF TypeInv, TypeOK, Target
    <3>4. Loading(t)' => Loading(t) /\ Reached(view'[t]) /\ Exact(created, view'[t])
      BY <2>9, <2>10, <3>1, <3>2, <3>3, Zenon
    <3>5. Others(t)
      BY <2>1, <2>2, <3>1, Zenon DEF TypeInv, TypeOK, Others
    <3>6. held'[t] \subseteq created
      BY <2>3, <2>11, Zenon
    <3> QED BY <1>0, <2>12, <2>13, <3>1, <3>3, <3>4, <3>5, <3>6, QuietStep, Zenon
  <2>15. CASE caller[t] # "load"
    <3>1. Target(t) = index[t[1]] /\ index' = [index EXCEPT ![t[1]] = jx] /\ UNCHANGED view
      BY <2>1, <2>15, Zenon DEF Target, SetTarget
    <3>2. Reached(jx) /\ Complete(created, jx) /\ (t[1] \notin Publishers => Exact(created, jx))
      BY <1>0, <1>1, <2>9, <2>10, <3>1, Zenon DEF IndexInv
    <3>3. ~Loading(t)'
      BY <2>2, <2>13, <2>15, Zenon DEF Loading
    <3>4. Others(t)
      BY <2>1, <2>2, <3>1, Zenon DEF TypeInv, TypeOK, Others
    <3>5. held'[t] \subseteq created
      BY <2>3, <2>11
    <3> QED BY <1>0, <2>6, <2>8, <2>12, <2>13, <3>1, <3>2, <3>3, <3>4, <3>5,
               RaiseStep, Zenon
  <2> QED BY <2>14, <2>15, Zenon
<1> QED BY <1>2, <1>3, <1>4, <1>5, Zenon DEF SyncStep

LEMMA ReplayLoad ==
  ASSUME TypeInv, Control, ReplayInv, NEW t \in Tasks, LoadStep(t)
  PROVE  ReplayInv'
<1> SUFFICES ASSUME snapshot' = {} PROVE ReplayInv'
  BY DEF ReplayInv
<1>0. /\ snapshot = {} /\ UNCHANGED <<log, created, snapshot>>
      /\ LogInv /\ IndexInv /\ LoadInv
      /\ t[1] \in Nodes /\ created \in SUBSET FileIndexLogEntry
  BY TargetType, Zenon DEF ReplayInv, LoadStep, LoadGet, LoadMerge, PollSync, store, TypeInv, TypeOK
<1>1. Others(t)
  BY Zenon DEF Others, LoadStep, LoadGet, LoadMerge, PollSync, CallSync, Finish, Goto, locals,
         TypeInv, TypeOK
<1>2. CASE LoadGet(t)
  <2>1. /\ pc[t] = "load" /\ pc'[t] = "sync" /\ caller'[t] = "load"
        /\ UNCHANGED <<view, index>>
    BY <1>0, <1>2, Zenon DEF LoadGet, CallSync, Goto, TypeInv, TypeOK
  <2>2. Loading(t) /\ Reached(view'[t]) /\ Exact(created, view'[t])
    BY <1>0, <2>1, Zenon DEF Loading, LoadInv
  <2> QED BY <1>0, <1>1, <2>1, <2>2, QuietStep, Zenon
<1>3. CASE PollSync(t)
  <2>1. /\ pc'[t] = "sync" /\ caller'[t] = "poll" /\ UNCHANGED index
    BY <1>3, Zenon DEF PollSync, CallSync, Goto, TypeInv, TypeOK
  <2>2. ~Loading(t)'
    BY <2>1, Zenon DEF Loading
  <2> QED BY <1>0, <1>1, <2>1, <2>2, QuietStep, Zenon
<1>4. CASE LoadMerge(t)
  <2> DEFINE jx == Restore(index[t[1]], view[t])
  <2>1. /\ pc[t] = "merge" /\ pc'[t] = "idle" /\ caller'[t] = "poll"
        /\ index' = [index EXCEPT ![t[1]] = jx]
    BY <1>0, <1>4, Zenon DEF LoadMerge, Finish, Goto, TypeInv, TypeOK
  <2>2. /\ Reached(view[t]) /\ Exact(created, view[t])
        /\ t[1] \notin Publishers => index[t[1]] = EmptyIndex
    BY <1>0, <2>1, Zenon DEF Control, LoadInv, Loading
  <2>3. /\ index[t[1]] \in Inner /\ view[t] \in Inner
        /\ index[t[1]].sequence \in Nat /\ view[t].sequence \in Nat
        /\ Reached(index[t[1]]) /\ Complete(created, index[t[1]])
    BY <1>0, Zenon DEF TypeInv, TypeOK, Inner, IndexInv
  <2>4. jx \in Inner
    BY <2>3, RestoreType, Zenon
  <2>5. jx.sequence = Max2(index[t[1]].sequence, view[t].sequence)
    BY Zenon DEF Restore
  <2>6. jx.sequence >= index[t[1]].sequence /\ Reached(jx)
    BY <2>2, <2>3, <2>5 DEF Max2, Reached
  <2>7. Complete(created, jx)
    BY <1>0, <2>2, <2>3, RestoreComplete, Zenon DEF Exact
  <2>8. t[1] \notin Publishers => Exact(created, jx)
    BY <2>2, <2>3, RestoreEmpty, Zenon
  <2>9. ~Loading(t)'
    BY <2>1, Zenon DEF Loading
  <2> QED BY <1>0, <1>1, <2>1, <2>4, <2>6, <2>7, <2>8, <2>9, RaiseStep, Zenon
<1> QED BY <1>2, <1>3, <1>4, Zenon DEF LoadStep

LEMMA ReplayAppend ==
  ASSUME TypeInv, Control, ReplayInv, NEW t \in Tasks, AppendStep(t)
  PROVE  ReplayInv'
<1> SUFFICES ASSUME snapshot' = {} PROVE ReplayInv'
  BY DEF ReplayInv
<1>0. snapshot = {}
  BY Zenon DEF AppendStep, AppendSlot, AppendPut, AppendApply, MaybeSnapshot, ToSnapshot,
         WriteSnapshot, PruneList, PruneDelete, Create, store
<1>1. /\ LogInv /\ IndexInv /\ LoadInv /\ NoGapInv /\ SlotInv
      /\ t[1] \in Nodes /\ created \in SUBSET FileIndexLogEntry
      /\ index[t[1]] \in Inner /\ index[t[1]].sequence \in Nat
  <2>1. LogInv /\ IndexInv /\ LoadInv /\ NoGapInv /\ SlotInv
    BY <1>0, Zenon DEF ReplayInv
  <2>2. t[1] \in Nodes /\ created \in SUBSET FileIndexLogEntry /\ index[t[1]] \in Inner
    BY TargetType, Zenon DEF TypeInv, TypeOK
  <2>3. index[t[1]].sequence \in Nat
    BY <2>2, Zenon DEF Inner
  <2> QED BY <2>1, <2>2, <2>3, Zenon
<1>2. CASE AppendSlot(t)
  <2>1. /\ pc[t] = "slot" /\ pc'[t] = "put" /\ slot'[t] = index[t[1]].sequence + 1
        /\ UNCHANGED <<log, created, snapshot, index, caller>> /\ Others(t)
    BY <1>2, Zenon DEF AppendSlot, Goto, store, Others, TypeInv, TypeOK
  <2>2. ~Loading(t)'
    BY <2>1, Zenon DEF Loading, Control
  <2>3. slot'[t] \in 1..(index[t[1]].sequence + 1)
    BY <1>1, <2>1
  <2> QED BY <1>0, <2>1, <2>2, <2>3, QuietStep, Zenon
<1>3. CASE AppendPut(t)
  <2>1. pc[t] = "put" /\ UNCHANGED index /\ Others(t)
    BY <1>3 DEF AppendPut, Finish, CallSync, Goto, Others, TypeInv, TypeOK
  <2>2. caller[t] # "load"
    BY <2>1, Zenon DEF Control
  <2>3. CASE \E d \in deltas[t] : Create(Entry(slot[t], d))
    <3>1. PICK d \in deltas[t] : Create(Entry(slot[t], d))
      BY <2>3, Zenon
    <3>2. slot[t] \notin Sequences(log)
      BY <3>1, Zenon DEF Create, Entry
    <3>3. pc'[t] = "own" /\ UNCHANGED <<slot, deltas, caller>>
      BY <1>3, <3>2, Zenon DEF AppendPut, Goto, TypeInv, TypeOK
    <3>4. ~Loading(t)'
      BY <2>2, <3>3, Zenon DEF Loading
    <3> QED BY <1>0, <2>1, <3>1, <3>3, <3>4, GrowStep, Zenon
  <2>4. CASE ~ \E d \in deltas[t] : Create(Entry(slot[t], d))
    <3>1. /\ UNCHANGED <<log, created, snapshot>>
          /\ pc'[t] \in {"sync", "idle"} /\ caller'[t] \in {"append", "poll"}
      BY <1>3, <2>4, Zenon DEF AppendPut, Finish, CallSync, Goto, store, TypeInv, TypeOK
    <3>2. ~Loading(t)'
      BY <3>1, Zenon DEF Loading
    <3> QED BY <1>0, <2>1, <3>1, <3>2, QuietStep, Zenon
  <2> QED BY <2>3, <2>4, Zenon
<1>4. CASE AppendApply(t)
  <2>1. /\ pc[t] = "own" /\ pc'[t] = "maybe"
        /\ UNCHANGED <<log, created, snapshot, caller>> /\ Others(t)
    BY <1>4, Zenon DEF AppendApply, Goto, store, locals, Others, TypeInv, TypeOK
  <2>2. PICK d \in deltas[t] :
          index' = [index EXCEPT ![t[1]] = Apply(index[t[1]], slot[t], d)]
    BY <1>1, <1>4, Zenon DEF AppendApply, TypeInv, TypeOK
  <2> DEFINE e == Entry(slot[t], d)
             jx == Apply(index[t[1]], slot[t], d)
  <2>3. /\ e \in created /\ e.sequence = slot[t] /\ e.delta = d
        /\ slot[t] \in Nat /\ slot[t] <= index[t[1]].sequence + 1
    <3>1. /\ slot[t] \in 1..(index[t[1]].sequence + 1) /\ index[t[1]].sequence \in Nat
          /\ e \in created
      BY <1>1, <2>1, Zenon DEF SlotInv, TypeInv, TypeOK, Inner
    <3>2. e.sequence = slot[t] /\ e.delta = d
      BY Zenon DEF Entry
    <3>3. \A x, s : x \in Nat /\ s \in 1..(x + 1) => s \in Nat /\ s <= x + 1
      OBVIOUS
    <3> QED BY <3>1, <3>2, <3>3, Zenon
  <2>4. d \in FileIndexDelta /\ Unique(created)
    BY <1>1, DeltasAssumption, Zenon DEF TypeInv, TypeOK, LogInv
  <2>5. jx \in Inner
    BY <1>1, <2>3, <2>4, ApplyType, Zenon
  <2>6. jx.sequence = Max2(index[t[1]].sequence, slot[t])
    BY <1>1, <2>3, Zenon DEF Apply, Max2
  <2>7. jx.sequence >= index[t[1]].sequence /\ Reached(jx)
    <3>1. Reached(index[t[1]])
      BY <1>1, Zenon DEF IndexInv
    <3> QED BY <1>1, <2>3, <2>6, <3>1 DEF Max2, Reached, Sequences
  <2>8. Complete(created, jx)
    <3>1. Complete(created, index[t[1]])
      BY <1>1, Zenon DEF IndexInv
    <3>2. Complete(created, Apply(index[t[1]], e.sequence, e.delta))
      BY <1>1, <2>3, <2>4, <3>1, ApplyComplete, Zenon
    <3> QED BY <2>3, <3>2, Zenon
  <2>9. t[1] \in Publishers /\ ~Loading(t)'
    BY <2>1, Zenon DEF Control, Tasks, Loading
  <2> QED BY <1>0, <2>1, <2>2, <2>5, <2>7, <2>8, <2>9, RaiseStep, Zenon
<1>5. CASE MaybeSnapshot(t) \/ ToSnapshot(t)
  <2>1. /\ pc[t] \in {"maybe", "collapse"} /\ pc'[t] \in {"idle", "collapse", "rollup"}
        /\ caller'[t] \in {caller[t], "poll"}
        /\ UNCHANGED <<log, created, snapshot, index>> /\ Others(t)
    BY <1>5 DEF MaybeSnapshot, ToSnapshot, Finish, Goto, store, locals, Others, TypeInv, TypeOK
  <2>2. ~Loading(t)'
    BY <2>1, Zenon DEF Loading, Control
  <2> QED BY <1>0, <2>1, <2>2, QuietStep, Zenon
<1>6. CASE WriteSnapshot(t)
  BY <1>6, Zenon DEF WriteSnapshot
<1>7. CASE PruneList(t) \/ PruneDelete(t)
  BY <1>1, <1>7, Zenon DEF NoGapInv, PruneList, PruneDelete
<1> QED BY <1>2, <1>3, <1>4, <1>5, <1>6, <1>7, Zenon DEF AppendStep

LEMMA ReplayPublish ==
  ASSUME TypeInv, Control, ReplayInv, NEW t \in Tasks, PublishStep(t) \/ StoreFail(t)
  PROVE  ReplayInv'
<1> SUFFICES ASSUME snapshot' = {} PROVE ReplayInv'
  BY Zenon DEF ReplayInv
<1>0. snapshot = {}
  BY Zenon
     DEF PublishStep, PublishSync, PublishNothing, AppendCall, StoreFail, Create, store
<1>1. /\ UNCHANGED index /\ Others(t)
      /\ pc'[t] \in {"sync", "idle"} /\ caller'[t] # "load"
  BY Zenon DEF PublishStep, PublishSync, PublishNothing, AppendCall, StoreFail, CallSync, Finish,
         Goto, locals, Others, TypeInv, TypeOK
<1>2. ~Loading(t)'
  BY <1>1, Zenon DEF Loading
<1>3. CASE UNCHANGED <<log, created, snapshot>>
  BY <1>0, <1>1, <1>2, <1>3, QuietStep, Zenon
<1>4. CASE ~UNCHANGED <<log, created, snapshot>>
  <2>1. PICK d \in deltas[t] : pc[t] = "put" /\ Create(Entry(slot[t], d)) /\ pc'[t] = "idle"
    BY <1>4, Zenon DEF PublishStep, PublishSync, PublishNothing, AppendCall, StoreFail, Finish,
                Goto, store, TypeInv, TypeOK
  <2> QED BY <1>0, <1>1, <1>2, <2>1, GrowStep, Zenon
<1> QED BY <1>3, <1>4, Zenon

LEMMA ReplayRestart ==
  ASSUME TypeInv, Control, ReplayInv, NEW n \in Nodes, Restart(n)
  PROVE  ReplayInv'
<1> SUFFICES ASSUME snapshot' = {} PROVE ReplayInv'
  BY Zenon DEF ReplayInv
<1>0. /\ snapshot = {} /\ UNCHANGED <<log, created, snapshot>>
      /\ LogInv /\ IndexInv /\ LoadInv /\ HeldInv /\ NoGapInv /\ SlotInv
      /\ created \in SUBSET FileIndexLogEntry /\ \A t \in Tasks : t[1] \in Nodes
  BY TargetType, Zenon DEF ReplayInv, Restart, store, TypeInv, TypeOK
<1>1. \A t \in Tasks : t[1] # n =>
        /\ pc'[t] = pc[t] /\ caller'[t] = caller[t] /\ view'[t] = view[t]
        /\ held'[t] = held[t] /\ deltas'[t] = deltas[t] /\ slot'[t] = slot[t]
        /\ index'[t[1]] = index[t[1]]
  BY <1>0, Zenon DEF Restart, Lost, TypeInv, TypeOK
<1>2. \A t \in Tasks : t[1] = n =>
        /\ pc'[t] \in {"load", "idle"} /\ view'[t] = EmptyIndex
        /\ index'[t[1]] = EmptyIndex
  BY <1>0, Zenon DEF Restart, Lost, Start, TypeInv, TypeOK
<1>3. \A m \in Nodes : index'[m] = IF m = n THEN EmptyIndex ELSE index[m]
  BY Zenon DEF Restart, TypeInv, TypeOK
<1>4. /\ Reached(EmptyIndex) /\ Exact(created, EmptyIndex) /\ Complete(created, EmptyIndex)
  BY <1>0, EmptyExact, Zenon DEF Reached, EmptyIndex, Exact
<1>5. LogInv' /\ IndexInv'
  BY <1>0, <1>3, <1>4, Zenon DEF LogInv, IndexInv, Reached
<1>6. LoadInv'
  <2> SUFFICES ASSUME NEW t \in Tasks, Loading(t)'
               PROVE  /\ Reached(view[t])' /\ Exact(created, view[t])'
                      /\ t[1] \notin Publishers => index'[t[1]] = EmptyIndex
    BY Zenon DEF LoadInv
  <2>1. CASE t[1] = n
    BY <1>0, <1>2, <1>4, <2>1, Zenon DEF Reached
  <2>2. CASE t[1] # n
    <3>1. Loading(t)
      BY <1>1, <2>2, Zenon DEF Loading
    <3> QED BY <1>0, <1>1, <2>2, <3>1, Zenon DEF LoadInv, Reached
  <2> QED BY <2>1, <2>2, Zenon
<1>7. HeldInv'
  <2>1. \A t \in Tasks : t[1] # n => Target(t)' = Target(t)
    BY <1>1, Zenon DEF Target
  <2> QED BY <1>0, <1>1, <1>2, <2>1, Zenon DEF HeldInv
<1>8. NoGapInv' /\ SlotInv'
  BY <1>0, <1>1, <1>2, Zenon DEF NoGapInv, SlotInv
<1> QED BY <1>5, <1>6, <1>7, <1>8, Zenon DEF ReplayInv

LEMMA ReplayStutter ==
  ASSUME ReplayInv, UNCHANGED vars
  PROVE  ReplayInv'
<1>1. LogInv' = LogInv /\ IndexInv' = IndexInv /\ NoGapInv' = NoGapInv /\ SlotInv' = SlotInv
  BY Zenon DEF vars, LogInv, IndexInv, NoGapInv, SlotInv, Reached
<1>2. LoadInv' = LoadInv /\ HeldInv' = HeldInv
  BY Zenon DEF vars, LoadInv, HeldInv, Loading, Target, Reached
<1> QED BY <1>1, <1>2, Zenon DEF ReplayInv, vars

LEMMA ReplayStep == TypeInv /\ Control /\ ReplayInv /\ [Next]_vars => ReplayInv'
BY ReplaySync, ReplayLoad, ReplayAppend, ReplayPublish, ReplayRestart, ReplayStutter, Zenon DEF Next

LEMMA ReplayInvariant == Spec => [](TypeInv /\ ReplayInv)
<1>1. Init => TypeInv /\ Control /\ ReplayInv
  BY TypeInit, ControlInit, ReplayInit, Zenon
<1>2. TypeInv /\ Control /\ ReplayInv /\ [Next]_vars => (TypeInv /\ Control /\ ReplayInv)'
  BY TypeStep, ControlStep, ReplayStep, Zenon
<1> QED BY <1>1, <1>2, PTL DEF Spec

(* sync, append, the load and its merge_from, restarts and failing requests
   never make an index skip an entry at or below the position it claims.   *)
THEOREM NothingSkipped == Spec => []ReplayComplete
<1>1. ReplayInv => ReplayComplete
  BY Zenon DEF ReplayInv, IndexInv, ReplayComplete
<1> QED BY <1>1, ReplayInvariant, PTL

(* The index of a node that only syncs is the replay of the log up to its
   position, the sequence each file was added at included.                 *)
THEOREM ReplayIsExact == Spec => []ReplayExact
<1>1. ReplayInv => ReplayExact
  BY Zenon DEF ReplayInv, IndexInv, ReplayExact
<1> QED BY <1>1, ReplayInvariant, PTL

(* Any number of publishers racing through append's compare-and-swap: no
   sequence is created twice, so the log is a total order of the appends.  *)
THEOREM AppendsTotallyOrdered == Spec => []CreatedOnce
<1>1. ReplayInv => CreatedOnce
  BY Zenon DEF ReplayInv, LogInv, Unique, CreatedOnce
<1> QED BY <1>1, ReplayInvariant, PTL

-----------------------------------------------------------------------------
(* The publisher.                                                          *)

Mine(n) == {e \in created : e.delta.node = n}

(* Only a publisher's own task appends for it, what it drains it has persisted,
   and it has read its watermark only while it is about to drain.          *)
OwnInv ==
  /\ persisted \in [Publishers -> SUBSET Nat]
  /\ \A n \in Publishers : persisted[n] \subseteq DOMAIN Manifest[n]
  /\ watermark \in [Publishers -> Nat \cup {Unread}]
  /\ \A n \in Publishers : watermark[n] # Unread => pc[Appender(n)] = "synced"
  /\ \A t \in Tasks : \A d \in deltas[t] : d.node = t[1]

(* Between its sync and its PUT a publisher's index has every entry of its own;
   its watermark, and then its delta, are above all of them.               *)
Appending(t) ==
  pc[t] \in {"slot", "put"} \/ (caller[t] = "append" /\ pc[t] \in {"sync", "fetch", "apply"})
Known(n) == \A e \in Mine(n) : e.sequence <= index[n].sequence
Reading(n) ==
  caller[Appender(n)] = "publish" /\ pc[Appender(n)] \in {"fetch", "apply"} =>
    \A e \in Mine(n) : e.sequence <= index[n].sequence \/ e \in held[Appender(n)]
Drains(n) ==
  /\ Reading(n)
  /\ Appending(Appender(n)) \/ pc[Appender(n)] = "synced" => Known(n)
  /\ watermark[n] # Unread => \A e \in Mine(n) : e.delta.snapshot_sequence <= watermark[n]
  /\ Appending(Appender(n)) => \A d \in deltas[Appender(n)] : \A e \in Mine(n) :
       e.delta.snapshot_sequence < d.snapshot_sequence
DrainInv == snapshot = {} => PublishedOnce /\ \A n \in Publishers : Drains(n)

-----------------------------------------------------------------------------
LEMMA AppenderTask ==
  ASSUME NEW n \in Publishers
  PROVE  Appender(n) \in Tasks /\ Appender(n)[1] = n /\ Appender(n)[2] = "append" /\ n \in Nodes
BY PublishersAssumption, Zenon DEF Appender, Tasks

LEMMA ManifestNumbers ==
  ASSUME NEW n \in Publishers
  PROVE  \E N \in Nat : DOMAIN Manifest[n] = 1..N
BY ManifestAssumption

LEMMA OwnInit == PubInit => OwnInv
<1> SUFFICES ASSUME PubInit PROVE OwnInv
  OBVIOUS
<1>1. \A n \in Publishers : watermark[n] = Unread
  BY Zenon DEF PubInit
<1> QED BY <1>1, Zenon DEF PubInit, Init, OwnInv

LEMMA PendingPersisted ==
  ASSUME OwnInv, NEW n \in Publishers, NEW w \in Nat
  PROVE  Pending(n, w) \in SUBSET (DOMAIN Manifest[n])
BY Zenon DEF OwnInv, Pending, LoadSnapshotsAfter, Newest

(* Every step of the publisher is a step of the log, or leaves it alone. *)
LEMMA PubStepIsStep == OwnInv /\ [PubNext]_pubVars => [Next]_vars
<1> SUFFICES ASSUME OwnInv, [PubNext]_pubVars PROVE [Next]_vars
  BY Zenon
<1>1. ASSUME NEW t \in Tasks, LogStep(t) PROVE Next
  BY <1>1, Zenon DEF LogStep, Succeeds, PublishStep, Next
<1>2. ASSUME NEW n \in Publishers, NEW k, PersistManifest(n, k) PROVE UNCHANGED vars
  BY <1>2, Zenon DEF PersistManifest
<1>3. ASSUME NEW n \in Publishers, PublishRead(n) PROVE UNCHANGED vars
  BY <1>3, Zenon DEF PublishRead
<1>4. ASSUME NEW n \in Publishers, PublishPending(n) PROVE Next
  <2> DEFINE K == Pending(n, watermark[n])
  <2>1. watermark[n] \in Nat
    BY <1>4, Zenon DEF PublishPending, OwnInv
  <2>2. K # {} => Drain(n, K) \in Deltas
    BY <2>1, PendingPersisted, DrainAssumption, Zenon
  <2>3. PublishStep(Appender(n))
    BY <1>4, <2>2, Zenon DEF PublishPending, PublishStep
  <2> QED BY <2>3, AppenderTask, Zenon DEF Next
<1>5. ASSUME NEW n \in Nodes, PubRestart(n) PROVE Next
  BY <1>5, Zenon DEF PubRestart, Next
<1>6. CASE UNCHANGED pubVars
  BY <1>6, Zenon DEF pubVars
<1> QED BY <1>1, <1>2, <1>3, <1>4, <1>5, <1>6, Zenon DEF PubNext

-----------------------------------------------------------------------------
(* What a step of the log does to the tasks.                               *)

LEMMA LogStepMoves ==
  ASSUME TypeInv, NEW t \in Tasks, LogStep(t)
  PROVE  Others(t) /\ pc[t] # "synced" /\ deltas'[t] \subseteq deltas[t]
<1> USE DEF TypeInv, TypeOK, Others, Goto, Finish, CallSync, locals
<1>1. CASE SyncStep(t)
  <2>1. CASE SyncList(t)
    BY <2>1, Zenon DEF SyncList
  <2>2. CASE SyncFetch(t)
    BY <2>2 DEF SyncFetch
  <2>3. CASE RestoreGet(t)
    BY <2>3, Zenon DEF RestoreGet
  <2>4. CASE ResetClear(t)
    BY <2>4, Zenon DEF ResetClear
  <2>5. CASE ResetFill(t)
    BY <2>5, Zenon DEF ResetFill
  <2>6. CASE SyncApply(t)
    BY <2>6, Zenon DEF SyncApply, SetTarget
  <2> QED BY <1>1, <2>1, <2>2, <2>3, <2>4, <2>5, <2>6, Zenon DEF SyncStep
<1>2. CASE LoadStep(t)
  BY <1>2, Zenon DEF LoadStep, LoadGet, LoadMerge, PollSync
<1>3. CASE AppendStep(t)
  <2>1. CASE AppendSlot(t)
    BY <2>1, Zenon DEF AppendSlot
  <2>2. CASE AppendPut(t)
    BY <2>2 DEF AppendPut
  <2>3. CASE AppendApply(t)
    BY <2>3, Zenon DEF AppendApply
  <2>4. CASE MaybeSnapshot(t)
    BY <2>4 DEF MaybeSnapshot
  <2>5. CASE ToSnapshot(t)
    BY <2>5, Zenon DEF ToSnapshot
  <2>6. CASE WriteSnapshot(t)
    BY <2>6, Zenon DEF WriteSnapshot
  <2>7. CASE PruneList(t)
    BY <2>7, Zenon DEF PruneList
  <2>8. CASE PruneDelete(t)
    BY <2>8 DEF PruneDelete
  <2> QED BY <1>3, <2>1, <2>2, <2>3, <2>4, <2>5, <2>6, <2>7, <2>8, Zenon DEF AppendStep
<1>4. CASE PublishSync(t) \/ StoreFail(t)
  BY <1>4, Zenon DEF PublishSync, StoreFail
<1> QED BY <1>1, <1>2, <1>3, <1>4, Zenon DEF LogStep, Succeeds

LEMMA OwnStep == TypeInv /\ OwnInv /\ [PubNext]_pubVars => OwnInv'
<1> SUFFICES ASSUME TypeInv, OwnInv, [PubNext]_pubVars PROVE OwnInv'
  OBVIOUS
<1>1. ASSUME NEW t \in Tasks, LogStep(t) PROVE OwnInv'
  <2>1. UNCHANGED <<persisted, watermark>>
    BY <1>1, Zenon DEF LogStep
  <2>2. \A n \in Publishers : watermark[n] # Unread => pc'[Appender(n)] = "synced"
    BY <1>1, LogStepMoves, AppenderTask, Zenon DEF OwnInv, Others
  <2>3. \A u \in Tasks : deltas'[u] \subseteq deltas[u]
    BY <1>1, LogStepMoves, Zenon DEF Others
  <2> QED BY <2>1, <2>2, <2>3, Zenon DEF OwnInv
<1>2. ASSUME NEW n \in Publishers, NEW k \in DOMAIN Manifest[n], PersistManifest(n, k)
      PROVE  OwnInv'
  <2>1. k \in Nat
    BY ManifestNumbers
  <2>2. /\ UNCHANGED <<pc, deltas, watermark>>
        /\ persisted' = [persisted EXCEPT ![n] = persisted[n] \cup {k}]
    BY <1>2, Zenon DEF PersistManifest, vars
  <2>3. \A m \in Publishers : persisted'[m] = IF m = n THEN persisted[n] \cup {k} ELSE persisted[m]
    BY <2>2, Zenon DEF OwnInv
  <2>4. persisted' \in [Publishers -> SUBSET Nat]
    BY <2>1, <2>2, Zenon DEF OwnInv
  <2>5. \A m \in Publishers : persisted'[m] \subseteq DOMAIN Manifest[m]
    BY <2>3 DEF OwnInv
  <2> QED BY <2>2, <2>4, <2>5, Zenon DEF OwnInv
<1>3. ASSUME NEW n \in Publishers, PublishRead(n) PROVE OwnInv'
  <2>1. index[n].watermarks[n] \in Nat
    BY AppenderTask DEF TypeInv, TypeOK, Inner
  <2>2. /\ UNCHANGED <<pc, deltas, persisted>> /\ pc[Appender(n)] = "synced"
        /\ watermark' = [watermark EXCEPT ![n] = index[n].watermarks[n]]
    BY <1>3, Zenon DEF PublishRead, vars
  <2>3. watermark' \in [Publishers -> Nat \cup {Unread}]
    BY <2>1, <2>2, Zenon DEF OwnInv
  <2>4. \A m \in Publishers : watermark'[m] # Unread => pc'[Appender(m)] = "synced"
    BY <2>2, Zenon DEF OwnInv
  <2> QED BY <2>2, <2>3, <2>4, Zenon DEF OwnInv
<1>4. ASSUME NEW n \in Publishers, PublishPending(n) PROVE OwnInv'
  <2> DEFINE t == Appender(n)
  <2>1. /\ UNCHANGED persisted /\ watermark' = [watermark EXCEPT ![n] = Unread]
    BY <1>4, Zenon DEF PublishPending
  <2>2. \A u \in Tasks : u # t => pc'[u] = pc[u] /\ deltas'[u] = deltas[u]
    BY <1>4, AppenderTask
       DEF PublishPending, PublishNothing, AppendCall, Finish, CallSync, Goto, TypeInv, TypeOK
  <2>3. \A d \in deltas'[t] : d.node = t[1]
    BY <1>4, AppenderTask
       DEF PublishPending, PublishNothing, AppendCall, Finish, TypeInv, TypeOK
  <2>4. watermark' \in [Publishers -> Nat \cup {Unread}]
    BY <2>1, Zenon DEF OwnInv
  <2>5. \A m \in Publishers : m # n => Appender(m) # t
    BY AppenderTask, Zenon
  <2>6. \A m \in Publishers : watermark'[m] # Unread => pc'[Appender(m)] = "synced"
    BY <2>1, <2>2, <2>5, AppenderTask, Zenon DEF OwnInv
  <2>7. \A u \in Tasks : \A d \in deltas'[u] : d.node = u[1]
    BY <2>2, <2>3, Zenon DEF OwnInv
  <2> QED BY <2>1, <2>4, <2>6, <2>7, Zenon DEF OwnInv
<1>5. ASSUME NEW n \in Nodes, PubRestart(n) PROVE OwnInv'
  <2>1. UNCHANGED persisted
        /\ watermark' = [m \in Publishers |-> IF m = n THEN Unread ELSE watermark[m]]
    BY <1>5, Zenon DEF PubRestart
  <2>2. \A u \in Tasks : /\ deltas'[u] \subseteq deltas[u]
                         /\ u[1] # n => pc'[u] = pc[u]
    BY <1>5, Zenon DEF PubRestart, Restart, Lost
  <2>3. watermark' \in [Publishers -> Nat \cup {Unread}]
    BY <2>1, Zenon DEF OwnInv
  <2>4. \A m \in Publishers : watermark'[m] # Unread => pc'[Appender(m)] = "synced"
    BY <2>1, <2>2, AppenderTask, Zenon DEF OwnInv
  <2> QED BY <2>1, <2>2, <2>3, <2>4, Zenon DEF OwnInv
<1>6. CASE UNCHANGED pubVars
  BY <1>6, Zenon DEF pubVars, vars, OwnInv
<1> QED BY <1>1, <1>2, <1>3, <1>4, <1>5, <1>6, Zenon DEF PubNext

(* The publisher implements the log's specification: NothingSkipped,
   ReplayIsExact, AppendsTotallyOrdered and TimesCovered hold of it.       *)
THEOREM PublisherImplementsLog == PubSpec => Spec
<1>1. PubInit => Init /\ TypeInv /\ OwnInv
  BY OwnInit, TypeInit, Zenon DEF PubInit
<1>2. TypeInv /\ OwnInv /\ [PubNext]_pubVars => (TypeInv /\ OwnInv)' /\ [Next]_vars
  BY PubStepIsStep, OwnStep, TypeStep, Zenon
<1> QED BY <1>1, <1>2, PTL DEF PubSpec, Spec

-----------------------------------------------------------------------------
(* Each manifest once and in order.                                        *)

(* A step of some other task, which may raise the index. *)
LEMMA DrainsKept ==
  ASSUME NEW n \in Publishers, Drains(n), TypeInv,
         Mine(n)' = Mine(n),
         index'[n].sequence \in Nat, index'[n].sequence >= index[n].sequence,
         pc'[Appender(n)] = pc[Appender(n)], caller'[Appender(n)] = caller[Appender(n)],
         held'[Appender(n)] = held[Appender(n)], deltas'[Appender(n)] = deltas[Appender(n)],
         watermark'[n] = watermark[n]
  PROVE  Drains(n)'
<1>1. index[n].sequence \in Nat /\ \A e \in Mine(n) : e.sequence \in Nat
  BY AppenderTask, Zenon DEF TypeInv, TypeOK, Inner, FileIndexLogEntry, Mine
<1>2. \A e \in Mine(n) : e.sequence <= index[n].sequence => e.sequence <= index'[n].sequence
  BY <1>1
<1>3. Reading(n)'
  BY <1>2, Zenon DEF Drains, Reading
<1>4. Appending(Appender(n))' = Appending(Appender(n))
  BY Zenon DEF Appending
<1>5. Known(n) => Known(n)'
  BY <1>2, Zenon DEF Known
<1> QED BY <1>3, <1>4, <1>5, Zenon DEF Drains

(* A publisher that is neither between its sync and its PUT nor reading. *)
LEMMA DrainsIdle ==
  ASSUME NEW n \in Publishers, watermark'[n] = Unread,
         pc'[Appender(n)] \notin {"fetch", "apply", "slot", "put", "synced"},
         pc'[Appender(n)] = "sync" => caller'[Appender(n)] # "append"
  PROVE  Drains(n)'
<1>1. ~Appending(Appender(n))'
  BY Zenon DEF Appending
<1> QED BY <1>1, Zenon DEF Drains, Reading

(* No index moves back, and an entry is created by its publisher's own task. *)
LEMMA IndexRises ==
  ASSUME TypeInv, Control, snapshot = {}, ReplayInv, NEW t \in Tasks, LogStep(t),
         NEW n \in Nodes
  PROVE  index'[n].sequence \in Nat /\ index'[n].sequence >= index[n].sequence
<1>0. /\ t[1] \in Nodes /\ index \in [Nodes -> Inner] /\ index[n].sequence \in Nat
      /\ index[t[1]] \in Inner /\ index[t[1]].sequence \in Nat /\ view[t].sequence \in Nat
  BY TargetType, Zenon DEF TypeInv, TypeOK, Inner
<1>1. \A ix \in Inner : \A q \in Nat : \A d :
        Apply(ix, q, d).sequence \in Nat /\ Apply(ix, q, d).sequence >= ix.sequence
  BY DEF Apply, Inner
<1>2. \A ix \in Inner : Restore(ix, view[t]).sequence \in Nat
                       /\ Restore(ix, view[t]).sequence >= ix.sequence
  BY <1>0 DEF Restore, Max2, Inner
<1>3. CASE UNCHANGED index
  BY <1>0, <1>3
<1>4. ASSUME NEW jx, index' = [index EXCEPT ![t[1]] = jx], jx.sequence \in Nat,
             jx.sequence >= index[t[1]].sequence
      PROVE  index'[n].sequence \in Nat /\ index'[n].sequence >= index[n].sequence
  <2>1. index'[n] = IF n = t[1] THEN jx ELSE index[n]
    BY <1>0, <1>4, Zenon
  <2> QED BY <1>0, <1>4, <2>1
<1>5. pc[t] \notin {"clear", "fill"}
  BY Zenon DEF ReplayInv, NoGapInv
<1>6. CASE SyncApply(t)
  <2>1. PICK e \in held[t] : SetTarget(t, Apply(Target(t), e.sequence, e.delta))
    BY <1>6, Zenon DEF SyncApply
  <2>2. e.sequence \in Nat
    BY DEF TypeInv, TypeOK, FileIndexLogEntry
  <2>3. UNCHANGED index
        \/ index' = [index EXCEPT ![t[1]] = Apply(index[t[1]], e.sequence, e.delta)]
    BY <2>1, Zenon DEF SetTarget, Target
  <2> QED BY <1>0, <1>1, <1>3, <1>4, <2>2, <2>3, Zenon
<1>7. CASE LoadMerge(t)
  BY <1>0, <1>2, <1>4, <1>7, Zenon DEF LoadMerge
<1>8. CASE AppendApply(t)
  <2>1. slot[t] \in Nat
    BY Zenon DEF TypeInv, TypeOK
  <2> QED BY <1>0, <1>1, <1>4, <1>8, <2>1, Zenon DEF AppendApply
<1>9. CASE ~SyncApply(t) /\ ~LoadMerge(t) /\ ~AppendApply(t)
  <2>1. UNCHANGED index
    BY <1>5, <1>9, Zenon
       DEF LogStep, Succeeds, SyncStep, LoadStep, AppendStep, SyncList, SyncFetch, RestoreGet,
           ResetClear, ResetFill, LoadGet, PollSync, AppendSlot, AppendPut, MaybeSnapshot,
           ToSnapshot, WriteSnapshot, PruneList, PruneDelete, PublishSync, StoreFail
  <2> QED BY <1>3, <2>1, Zenon
<1> QED BY <1>6, <1>7, <1>8, <1>9, Zenon

LEMMA OwnEntries ==
  ASSUME TypeInv, NEW t \in Tasks, LogStep(t), created' # created
  PROVE  pc[t] = "put" /\ pc'[t] \in {"own", "idle"}
         /\ \E d \in deltas[t] : Create(Entry(slot[t], d))
<1>1. CASE AppendPut(t)
  BY <1>1, Zenon DEF AppendPut, store, Goto, TypeInv, TypeOK
<1>2. CASE StoreFail(t)
  BY <1>2, Zenon DEF StoreFail, store, Finish, Goto, TypeInv, TypeOK
<1>3. CASE ~AppendPut(t) /\ ~StoreFail(t)
  BY <1>3, Zenon
     DEF LogStep, Succeeds, SyncStep, LoadStep, AppendStep, SyncList, SyncFetch, RestoreGet,
         ResetClear, ResetFill, SyncApply, LoadGet, LoadMerge, PollSync, AppendSlot, AppendApply,
         MaybeSnapshot, ToSnapshot, WriteSnapshot, PruneList, PruneDelete, PublishSync, store
<1> QED BY <1>1, <1>2, <1>3, Zenon

LEMMA OthersDrain ==
  ASSUME TypeInv, Control, OwnInv, snapshot = {}, ReplayInv, NEW t \in Tasks, LogStep(t),
         NEW n \in Publishers, Drains(n), t # Appender(n)
  PROVE  Drains(n)'
<1>1. Mine(n)' = Mine(n)
  <2>1. CASE created' = created
    BY <2>1, Zenon DEF Mine
  <2>2. CASE created' # created
    <3>1. PICK d \in deltas[t] : pc[t] = "put" /\ Create(Entry(slot[t], d))
      BY <2>2, OwnEntries, Zenon
    <3>2. t[2] = "append" /\ d.node = t[1]
      BY <3>1, Zenon DEF Control, OwnInv
    <3>3. t[1] # n
      BY <3>2 DEF Tasks, Appender
    <3>4. created' = created \cup {Entry(slot[t], d)} /\ Entry(slot[t], d).delta = d
      BY <3>1, Zenon DEF Create, Entry
    <3> QED BY <3>2, <3>3, <3>4, Zenon DEF Mine
  <2> QED BY <2>1, <2>2, Zenon
<1>2. Appender(n) \in Tasks /\ n \in Nodes /\ Others(t)
  BY AppenderTask, LogStepMoves, Zenon
<1>3. watermark' = watermark
  BY Zenon DEF LogStep
<1>4. index'[n].sequence \in Nat /\ index'[n].sequence >= index[n].sequence
  BY <1>2, IndexRises, Zenon
<1> QED BY <1>1, <1>2, <1>3, <1>4, DrainsKept, Zenon DEF Others

(* The publisher's own sync: what it has listed and not yet applied is held. *)
LEMMA SyncDrains ==
  ASSUME TypeInv, Control, OwnInv, snapshot = {}, ReplayInv, ReplayInv', snapshot' = {},
         NEW n \in Publishers, Drains(n), SyncStep(Appender(n)),
         UNCHANGED watermark, LogStep(Appender(n))
  PROVE  Drains(n)'
<1> DEFINE t == Appender(n)
<1>0. /\ t \in Tasks /\ t[1] = n /\ t[2] = "append" /\ n \in Nodes
      /\ Target(t) = index[n] /\ caller[t] # "load"
      /\ log = created /\ Unique(created)
      /\ watermark'[n] = Unread
  <2>1. t \in Tasks /\ t[1] = n /\ t[2] = "append" /\ n \in Nodes
    BY AppenderTask, Zenon
  <2>2. caller[t] # "load" /\ "append" # "sync"
    BY <2>1, Zenon DEF Control
  <2>3. watermark[n] = Unread
    BY <2>1, LogStepMoves, Zenon DEF OwnInv
  <2> QED BY <2>1, <2>2, <2>3, Zenon DEF Target, ReplayInv, LogInv
<1>1. index[n].sequence \in Nat /\ \A e \in created : e.sequence \in Nat
  BY <1>0, Zenon DEF TypeInv, TypeOK, Inner, FileIndexLogEntry
<1>2. pc[t] \notin {"restore", "clear", "fill"} /\ pc'[t] # "restore"
  BY <1>0, Zenon DEF ReplayInv, NoGapInv
<1>3. /\ Known(n) = (\A e \in Mine(n) : e.sequence <= index[n].sequence)
      /\ Known(n)' = (\A e \in Mine(n)' : e.sequence <= index'[n].sequence)
  BY Zenon DEF Known
<1> HIDE DEF t
<1>4. CASE SyncList(t)
  <2>1. /\ UNCHANGED <<created, index, caller, deltas>> /\ pc[t] = "sync" /\ pc'[t] = "fetch"
        /\ held'[t] = {e \in created : e.sequence > index[n].sequence}
    BY <1>0, <1>4, Zenon DEF SyncList, Goto, TypeInv, TypeOK, store
  <2>2. \A e \in created : e.sequence <= index[n].sequence \/ e \in held'[t]
    BY <1>1, <2>1
  <2>3. Mine(n)' = Mine(n) /\ Mine(n) \subseteq created
    BY <2>1, Zenon DEF Mine
  <2>4. Reading(n)'
    BY <2>1, <2>2, <2>3, Zenon DEF Reading, t
  <2>5. Appending(t)' => Appending(t)
    BY <2>1, Zenon DEF Appending
  <2>6. Known(n)' = Known(n)
    BY <2>1, <2>3, Zenon DEF Known
  <2> QED BY <1>0, <2>1, <2>3, <2>4, <2>5, <2>6, Zenon DEF Drains, t
<1>5. CASE SyncFetch(t)
  <2>1. UNCHANGED <<created, index>> /\ pc[t] = "fetch" /\ Mine(n)' = Mine(n)
    BY <1>5, Zenon DEF SyncFetch, store, Mine
  <2>2. held[t] \subseteq created
    BY <1>0, <2>1, Zenon DEF ReplayInv, HeldInv
  <2>3. {e \in log : e.sequence \in Sequences(held[t])} = held[t]
    BY <1>0, <2>2, Zenon DEF Unique, Sequences
  <2>4. /\ UNCHANGED <<caller, deltas>> /\ held'[t] = held[t]
        /\ pc'[t] = "apply" \/ (held[t] = {} /\ pc'[t] = Return(t))
    BY <1>0, <1>2, <1>5, <2>3, Zenon DEF SyncFetch, Goto, TypeInv, TypeOK
  <2>5. Known(n)' = Known(n)
    BY <2>1, Zenon DEF Known
  <2>6. CASE pc'[t] = "apply"
    <3>1. Reading(n)'
      BY <2>1, <2>4, <2>6, Zenon DEF Drains, Reading, t
    <3>2. Appending(t)' = Appending(t)
      BY <2>1, <2>4, <2>6, Zenon DEF Appending
    <3> QED BY <1>0, <2>1, <2>4, <2>5, <2>6, <3>1, <3>2, Zenon DEF Drains, t
  <2>7. CASE held[t] = {} /\ pc'[t] = Return(t)
    <3>1. Reading(n)' /\ Return(t) \in {"idle", "synced", "slot"}
      BY <1>0, <2>7, Zenon DEF Reading, Return, t
    <3>2. Return(t) = "synced" => caller[t] = "publish"
      BY <1>0, Zenon DEF Return
    <3>3. Return(t) = "slot" => caller[t] = "append"
      BY <1>0, Zenon DEF Return, TypeInv, TypeOK
    <3>4. caller[t] = "publish" => Known(n)
      BY <2>1, <2>7, Zenon DEF Drains, Reading, Known, t
    <3>5. Appending(t)' => Appending(t)
      BY <2>1, <2>4, <2>7, <3>1, <3>3, Zenon DEF Appending
    <3> QED BY <1>0, <2>1, <2>4, <2>5, <2>7, <3>1, <3>2, <3>4, <3>5, Zenon DEF Drains, t
  <2> QED BY <2>4, <2>6, <2>7, Zenon
<1>6. CASE SyncApply(t)
  <2>1. PICK e \in held[t] :
          /\ index' = [index EXCEPT ![n] = Apply(index[n], e.sequence, e.delta)]
          /\ held'[t] = held[t] \ {e}
          /\ pc'[t] = IF held[t] = {e} THEN Return(t) ELSE "apply"
    BY <1>0, <1>6, Zenon DEF SyncApply, SetTarget, Goto, TypeInv, TypeOK
  <2>2. UNCHANGED <<created, caller, deltas>> /\ pc[t] = "apply" /\ Mine(n)' = Mine(n)
    BY <1>6, Zenon DEF SyncApply, store, Mine
  <2>3. e.sequence \in Nat /\ index[n] \in Inner
    BY <1>0 DEF TypeInv, TypeOK, FileIndexLogEntry
  <2>4. index'[n] = Apply(index[n], e.sequence, e.delta)
    BY <1>0, <2>1, Zenon DEF TypeInv, TypeOK
  <2>5. /\ index'[n].sequence \in Nat /\ index'[n].sequence >= index[n].sequence
        /\ index'[n].sequence >= e.sequence
    BY <2>3, <2>4, ApplyRaises, Zenon
  <2>6. \A f \in Mine(n) : f.sequence <= index[n].sequence => f.sequence <= index'[n].sequence
    BY <1>1, <2>5 DEF Mine
  <2>7. e.sequence <= index'[n].sequence
    BY <2>3, <2>5, Zenon
  <2>8. caller[t] = "publish" => \A f \in Mine(n) : f.sequence <= index'[n].sequence \/ f \in held'[t]
    BY <2>1, <2>2, <2>6, <2>7, Zenon DEF Drains, Reading, t
  <2>9. Known(n) => Known(n)'
    BY <2>2, <2>6, Zenon DEF Known
  <2>10. Reading(n)'
    BY <2>2, <2>8, Zenon DEF Reading, t
  <2>11. pc'[t] = "synced" => caller[t] = "publish" /\ held'[t] = {}
    BY <1>0, <2>1, Zenon DEF Return
  <2>12. pc'[t] = "slot" => caller[t] = "append"
    BY <1>0, <2>1, Zenon DEF Return, TypeInv, TypeOK
  <2>13. pc'[t] \in {"apply", "idle", "synced", "slot"}
    BY <1>0, <2>1, Zenon DEF Return
  <2>14. Appending(t)' => Appending(t)
    BY <2>2, <2>12, <2>13, Zenon DEF Appending
  <2>15. pc'[t] = "synced" => Known(n)'
    BY <2>2, <2>8, <2>11, Zenon DEF Known
  <2> QED BY <1>0, <2>2, <2>9, <2>10, <2>14, <2>15, Zenon DEF Drains, t
<1>7. CASE RestoreGet(t) \/ ResetClear(t) \/ ResetFill(t)
  BY <1>2, <1>7, Zenon DEF RestoreGet, ResetClear, ResetFill
<1> QED BY <1>4, <1>5, <1>6, <1>7, Zenon DEF SyncStep, t

(* Its other steps: from the slot to the PUT nothing of its own is created. *)
LEMMA AppendDrains ==
  ASSUME TypeInv, Control, OwnInv, snapshot = {}, ReplayInv, ReplayInv', snapshot' = {},
         NEW n \in Publishers, Drains(n), LogStep(Appender(n)), ~SyncStep(Appender(n))
  PROVE  Drains(n)'
<1>0. PICK t : t = Appender(n)
  BY Zenon
<1>1. /\ t \in Tasks /\ t[1] = n /\ t[2] = "append" /\ n \in Nodes
      /\ watermark'[n] = Unread
  BY <1>0, AppenderTask, LogStepMoves, Zenon DEF LogStep, OwnInv
<1>2. CASE AppendSlot(t)
  <2>1. /\ UNCHANGED <<created, index, caller, held, deltas>>
        /\ pc[t] = "slot" /\ pc'[t] = "put" /\ Mine(n)' = Mine(n)
    BY <1>1, <1>2, Zenon DEF AppendSlot, store, Goto, TypeInv, TypeOK, Mine
  <2>2. Appending(t) /\ Reading(n)' /\ Known(n)' = Known(n)
    BY <1>0, <2>1, Zenon DEF Appending, Reading, Known
  <2> QED BY <1>0, <1>1, <2>1, <2>2, Zenon DEF Drains
<1>3. CASE AppendPut(t)
  <2>1. CASE pc'[t] \in {"own", "idle"}
    BY <1>0, <1>1, <2>1, DrainsIdle, Zenon
  <2>2. CASE pc'[t] \notin {"own", "idle"}
    <3>1. /\ UNCHANGED <<created, index, held, deltas>>
          /\ pc[t] = "put" /\ pc'[t] = "sync" /\ Mine(n)' = Mine(n)
      BY <1>1, <1>3, <2>2, Zenon DEF AppendPut, store, Goto, Finish, CallSync, TypeInv, TypeOK, Mine
    <3>2. Appending(t) /\ Reading(n)' /\ Known(n)' = Known(n)
      BY <1>0, <3>1, Zenon DEF Appending, Reading, Known
    <3> QED BY <1>0, <1>1, <3>1, <3>2, Zenon DEF Drains
  <2> QED BY <2>1, <2>2, Zenon
<1>4. CASE ~AppendSlot(t) /\ ~AppendPut(t)
  <2>1. ~LoadStep(t)
    BY <1>1, Zenon DEF LoadStep, LoadGet, LoadMerge, PollSync, Control
  <2>2. ~PruneList(t) /\ ~PruneDelete(t) /\ ~WriteSnapshot(t)
    BY <1>1, Zenon DEF PruneList, PruneDelete, WriteSnapshot, ReplayInv, NoGapInv
  <2>3. CASE AppendApply(t) \/ MaybeSnapshot(t) \/ ToSnapshot(t)
    <3>1. pc'[t] \in {"maybe", "collapse", "idle", "rollup"}
      <4>1. CASE AppendApply(t)
        BY <1>1, <4>1, Zenon DEF AppendApply, Goto, TypeInv, TypeOK
      <4>2. CASE MaybeSnapshot(t)
        BY <1>1, <4>2, Zenon DEF MaybeSnapshot, Goto, Finish, TypeInv, TypeOK
      <4>3. CASE ToSnapshot(t)
        BY <1>1, <4>3, Zenon DEF ToSnapshot, Goto, Finish, TypeInv, TypeOK
      <4> QED BY <2>3, <4>1, <4>2, <4>3, Zenon
    <3> QED BY <1>0, <1>1, <3>1, DrainsIdle, Zenon
  <2>4. CASE PublishSync(t) \/ StoreFail(t)
    <3>1. pc'[t] = "idle" \/ (pc'[t] = "sync" /\ caller'[t] = "publish")
      BY <1>1, <2>4, Zenon DEF PublishSync, StoreFail, CallSync, Finish, Goto, TypeInv, TypeOK
    <3> QED BY <1>0, <1>1, <3>1, DrainsIdle, Zenon
  <2> QED BY <1>0, <1>4, <2>1, <2>2, <2>3, <2>4, Zenon DEF LogStep, Succeeds, AppendStep
<1> QED BY <1>2, <1>3, <1>4, Zenon

(* What is created is above all that its publisher has created. *)
LEMMA OnceKept ==
  ASSUME TypeInv, Control, OwnInv, snapshot = {}, ReplayInv, DrainInv,
         NEW t \in Tasks, LogStep(t), snapshot' = {}
  PROVE  PublishedOnce'
<1>1. CASE created' = created
  BY <1>1, Zenon DEF DrainInv, PublishedOnce
<1>2. CASE created' # created
  <2>1. PICK d \in deltas[t] : pc[t] = "put" /\ Create(Entry(slot[t], d))
    BY <1>2, OwnEntries, Zenon
  <2>2. PICK e : e = Entry(slot[t], d)
    BY Zenon
  <2>3. /\ created' = created \cup {e} /\ e.sequence = slot[t] /\ e.delta = d
        /\ slot[t] \notin Sequences(created)
    BY <2>1, <2>2, Zenon DEF Create, Entry, ReplayInv, LogInv
  <2>4. /\ t[2] = "append" /\ d.node = t[1]
    BY <2>1, Zenon DEF Control, OwnInv
  <2>5. PICK n \in Publishers : n = t[1] /\ t = Appender(n)
    BY <2>4 DEF Tasks, Appender
  <2>6. \A f \in Mine(n) : f.delta.snapshot_sequence < d.snapshot_sequence
    BY <2>1, <2>5, Zenon DEF DrainInv, Drains, Appending
  <2>7. created \in SUBSET FileIndexLogEntry /\ slot[t] \in Nat \ {0}
    BY <2>1, Zenon DEF TypeInv, TypeOK, SlotChosen
  <2>8. \A f \in created : f.sequence \in Nat /\ f.sequence < slot[t]
    BY <2>3, <2>7, FreeSlot, Zenon DEF ReplayInv, LogInv, Sequences, FileIndexLogEntry
  <2>9. ASSUME NEW f \in created', NEW g \in created',
               f.sequence < g.sequence, f.delta.node = g.delta.node
        PROVE  f.delta.snapshot_sequence < g.delta.snapshot_sequence
    <3>1. CASE f \in created /\ g \in created
      BY <2>9, <3>1, Zenon DEF DrainInv, PublishedOnce
    <3>2. CASE f \in created /\ g = e
      BY <2>3, <2>4, <2>5, <2>6, <2>9, <3>2, Zenon DEF Mine
    <3>3. f # e
      BY <2>3, <2>7, <2>8, <2>9
    <3> QED BY <2>3, <3>1, <3>2, <3>3, Zenon
  <2> QED BY <2>9, Zenon DEF PublishedOnce
<1> QED BY <1>1, <1>2, Zenon

(* publish_pending's own two steps: the watermark is at least what the publisher
   has published, and what it drains is above the watermark.               *)
LEMMA ReadDrains ==
  ASSUME TypeInv, snapshot = {}, ReplayInv, OwnInv, NEW n \in Publishers, Drains(n),
         PublishRead(n)
  PROVE  Drains(n)'
<1>1. /\ UNCHANGED <<created, index, pc, caller, held, deltas>> /\ n \in Nodes
      /\ pc[Appender(n)] = "synced" /\ watermark'[n] = index[n].watermarks[n]
      /\ Mine(n)' = Mine(n)
  BY AppenderTask, Zenon DEF PublishRead, vars, OwnInv, Mine
<1>2. Known(n) /\ Known(n)' = Known(n) /\ Reading(n)' = Reading(n)
      /\ Appending(Appender(n))' = Appending(Appender(n))
  BY <1>1, Zenon DEF Drains, Known, Reading, Appending
<1>3. Highest(index[n].watermarks[n], Watermarks(created, n, index[n].sequence), 0)
  BY <1>1, Zenon DEF ReplayInv, IndexInv, Complete
<1>4. \A e \in Mine(n) : e.delta.snapshot_sequence <= index[n].watermarks[n]
  BY <1>2, <1>3, Zenon DEF Highest, Watermarks, Upto, Known, Mine
<1> QED BY <1>1, <1>2, <1>4, Zenon DEF Drains

LEMMA PendingDrains ==
  ASSUME TypeInv, snapshot = {}, OwnInv, NEW n \in Publishers, Drains(n), PublishPending(n)
  PROVE  Drains(n)'
<1>0. PICK t : t = Appender(n)
  BY Zenon
<1> DEFINE K == Pending(n, watermark[n])
<1>1. /\ t \in Tasks /\ watermark[n] \in Nat /\ watermark'[n] = Unread /\ pc[t] = "synced"
  BY <1>0, AppenderTask, Zenon DEF PublishPending, OwnInv
<1>2. CASE K = {}
  <2>1. pc'[t] = "idle"
    BY <1>0, <1>1, <1>2, Zenon DEF PublishPending, PublishNothing, Finish, Goto, TypeInv, TypeOK
  <2> QED BY <1>0, <1>1, <2>1, DrainsIdle, Zenon
<1>3. CASE K # {}
  <2>1. /\ UNCHANGED <<created, index, held>> /\ deltas'[t] = {Drain(n, K)}
        /\ pc'[t] = "sync" /\ Mine(n)' = Mine(n)
    BY <1>0, <1>1, <1>3, Zenon
       DEF PublishPending, AppendCall, CallSync, Goto, TypeInv, TypeOK, store, Mine
  <2>2. PICK N \in Nat : DOMAIN Manifest[n] = 1..N
    BY ManifestNumbers, Zenon
  <2>3. K \in SUBSET (1..N) /\ Max(K) \in K
    <3>1. K \in SUBSET (1..N)
      BY <1>1, <2>2, PendingPersisted, Zenon
    <3> HIDE DEF K
    <3>2. K \in SUBSET Int /\ N \in Int /\ \A k \in K : k <= N
      BY <3>1
    <3> QED BY <1>3, <3>1, <3>2, MaxExists, Zenon
  <2>4. Max(K) > watermark[n] /\ Max(K) \in Nat
    <3>1. \A k \in K : k > watermark[n]
      BY Zenon DEF Pending, LoadSnapshotsAfter
    <3>2. \A k \in 1..N : k \in Nat
      OBVIOUS
    <3> QED BY <2>3, <3>1, <3>2, Zenon
  <2>5. Drain(n, K).snapshot_sequence = Max(K)
    BY Zenon DEF Drain
  <2>6. \A e \in Mine(n) : /\ e.delta.snapshot_sequence \in Nat
                           /\ e.delta.snapshot_sequence <= watermark[n]
    BY <1>1, DeltasAssumption DEF Drains, Mine, TypeInv, TypeOK, FileIndexLogEntry, FileIndexDelta, Unread
  <2>7. \A e \in Mine(n) : e.delta.snapshot_sequence < Max(K)
    <3> HIDE DEF K
    <3> QED BY <1>1, <2>4, <2>6
  <2>8. Known(n)' /\ Reading(n)'
    BY <1>0, <1>1, <2>1, Zenon DEF Drains, Known, Reading
  <2> QED BY <1>0, <1>1, <2>1, <2>5, <2>7, <2>8, Zenon DEF Drains
<1> QED BY <1>2, <1>3, Zenon

-----------------------------------------------------------------------------
LEMMA DrainInit == PubInit => DrainInv
<1> SUFFICES ASSUME PubInit PROVE DrainInv
  OBVIOUS
<1>1. created = {} /\ \A n \in Publishers : watermark[n] = Unread /\ Mine(n) = {}
  BY Zenon DEF PubInit, Init, Mine
<1>2. \A n \in Publishers : Drains(n)
  BY <1>1, Zenon DEF Drains, Reading, Known
<1> QED BY <1>1, <1>2, Zenon DEF DrainInv, PublishedOnce

LEMMA DrainStep ==
  ASSUME TypeInv, Control, OwnInv, ReplayInv, ReplayInv', TypeInv', DrainInv, [PubNext]_pubVars
  PROVE  DrainInv'
<1> SUFFICES ASSUME snapshot' = {} PROVE DrainInv'
  BY Zenon DEF DrainInv
<1>1. ASSUME NEW t \in Tasks, LogStep(t) PROVE DrainInv'
  <2>1. snapshot = {}
    BY <1>1, Zenon
       DEF LogStep, Succeeds, SyncStep, LoadStep, AppendStep, SyncList, SyncFetch, RestoreGet,
           ResetClear, ResetFill, SyncApply, LoadGet, LoadMerge, PollSync, AppendSlot, AppendPut,
           AppendApply, MaybeSnapshot, ToSnapshot, WriteSnapshot, PruneList, PruneDelete,
           PublishSync, StoreFail, Create, store
  <2>2. ASSUME NEW n \in Publishers PROVE Drains(n)'
    <3>1. Drains(n)
      BY <2>1, Zenon DEF DrainInv
    <3>2. CASE t # Appender(n)
      BY <1>1, <2>1, <3>1, <3>2, OthersDrain, Zenon
    <3>3. CASE t = Appender(n) /\ SyncStep(t)
      BY <1>1, <2>1, <3>1, <3>3, SyncDrains, Zenon DEF LogStep
    <3>4. CASE t = Appender(n) /\ ~SyncStep(t)
      BY <1>1, <2>1, <3>1, <3>4, AppendDrains, Zenon
    <3> QED BY <3>2, <3>3, <3>4, Zenon
  <2>3. PublishedOnce'
    BY <1>1, <2>1, OnceKept, Zenon
  <2> QED BY <2>2, <2>3, Zenon DEF DrainInv
(* A step that creates nothing and acts for one publisher at most. *)
<1>2. ASSUME NEW m, UNCHANGED <<snapshot, created>>,
             m \in Publishers => Drains(m)',
             \A n \in Publishers : n # m =>
               /\ index'[n] = index[n] /\ watermark'[n] = watermark[n]
               /\ pc'[Appender(n)] = pc[Appender(n)] /\ caller'[Appender(n)] = caller[Appender(n)]
               /\ held'[Appender(n)] = held[Appender(n)]
               /\ deltas'[Appender(n)] = deltas[Appender(n)]
      PROVE  DrainInv'
  <2>1. PublishedOnce'
    BY <1>2, Zenon DEF DrainInv, PublishedOnce
  <2>2. ASSUME NEW n \in Publishers, n # m PROVE Drains(n)'
    <3>1. Drains(n) /\ Mine(n)' = Mine(n)
      BY <1>2, Zenon DEF DrainInv, Mine
    <3>2. index[n] \in Inner
      BY AppenderTask, Zenon DEF TypeInv, TypeOK
    <3>3. index'[n].sequence \in Nat /\ index'[n].sequence >= index[n].sequence
      BY <1>2, <2>2, <3>2 DEF Inner
    <3> QED BY <1>2, <2>2, <3>1, <3>3, DrainsKept, Zenon
  <2> QED BY <1>2, <2>1, <2>2, Zenon DEF DrainInv
<1>3. ASSUME NEW n \in Publishers, NEW k, PersistManifest(n, k) PROVE DrainInv'
  <2>1. UNCHANGED <<snapshot, created, index, pc, caller, held, deltas, watermark>>
    BY <1>3, Zenon DEF PersistManifest, vars
  <2>2. PICK m : m \notin Publishers
    BY NoSetContainsEverything, Zenon
  <2> QED BY <1>2, <2>1, <2>2, Zenon
<1>4. ASSUME NEW n \in Publishers, PublishRead(n) PROVE DrainInv'
  <2>1. /\ UNCHANGED <<snapshot, created, index, pc, caller, held, deltas>>
        /\ \A m \in Publishers : m # n => watermark'[m] = watermark[m]
    BY <1>4, Zenon DEF PublishRead, vars, OwnInv
  <2>2. Drains(n)'
    BY <1>4, <2>1, ReadDrains, Zenon DEF DrainInv
  <2> QED BY <1>2, <2>1, <2>2, Zenon
<1>5. ASSUME NEW n \in Publishers, PublishPending(n) PROVE DrainInv'
  <2>1. /\ UNCHANGED <<snapshot, created, index>>
        /\ \A m \in Publishers : m # n => watermark'[m] = watermark[m]
    BY <1>5, Zenon DEF PublishPending, PublishNothing, AppendCall, store, OwnInv
  <2>2. Drains(n)'
    BY <1>5, <2>1, PendingDrains, Zenon DEF DrainInv
  <2>3. \A u \in Tasks : u # Appender(n) =>
          /\ pc'[u] = pc[u] /\ caller'[u] = caller[u]
          /\ held'[u] = held[u] /\ deltas'[u] = deltas[u]
    BY <1>5, AppenderTask
       DEF PublishPending, PublishNothing, AppendCall, Finish, CallSync, Goto, TypeInv, TypeOK
  <2>4. \A m \in Publishers : m # n => Appender(m) # Appender(n)
    BY AppenderTask, Zenon
  <2>5. \A m \in Publishers : m # n =>
          /\ index'[m] = index[m] /\ watermark'[m] = watermark[m]
          /\ pc'[Appender(m)] = pc[Appender(m)] /\ caller'[Appender(m)] = caller[Appender(m)]
          /\ held'[Appender(m)] = held[Appender(m)]
          /\ deltas'[Appender(m)] = deltas[Appender(m)]
    BY <2>1, <2>3, <2>4, AppenderTask, Zenon
  <2> QED BY <1>2, <2>1, <2>2, <2>5, Zenon
<1>6. ASSUME NEW n \in Nodes, PubRestart(n) PROVE DrainInv'
  <2>1. /\ UNCHANGED <<snapshot, created>>
        /\ \A m \in Publishers : watermark'[m] = IF m = n THEN Unread ELSE watermark[m]
        /\ \A m \in Nodes : m # n => index'[m] = index[m]
    BY <1>6, Zenon DEF PubRestart, Restart, store, TypeInv, TypeOK
  <2>2. \A u \in Tasks :
          IF u[1] = n THEN pc'[u] \in {"load", "idle"}
          ELSE /\ pc'[u] = pc[u] /\ caller'[u] = caller[u]
               /\ held'[u] = held[u] /\ deltas'[u] = deltas[u]
    BY <1>6, Zenon DEF PubRestart, Restart, Lost, Start
  <2>3. n \in Publishers => Drains(n)'
    BY <2>1, <2>2, AppenderTask, DrainsIdle, Zenon
  <2>4. \A m \in Publishers : m # n =>
          /\ index'[m] = index[m] /\ watermark'[m] = watermark[m]
          /\ pc'[Appender(m)] = pc[Appender(m)] /\ caller'[Appender(m)] = caller[Appender(m)]
          /\ held'[Appender(m)] = held[Appender(m)]
          /\ deltas'[Appender(m)] = deltas[Appender(m)]
    BY <2>1, <2>2, AppenderTask, Zenon
  <2> QED BY <1>2, <2>1, <2>3, <2>4, Zenon
<1>7. CASE UNCHANGED pubVars
  <2>1. UNCHANGED <<snapshot, created, index, pc, caller, held, deltas, watermark>>
    BY <1>7, Zenon DEF pubVars, vars
  <2>2. PICK m : m \notin Publishers
    BY NoSetContainsEverything, Zenon
  <2> QED BY <1>2, <2>1, <2>2, Zenon
<1> QED BY <1>1, <1>3, <1>4, <1>5, <1>6, <1>7, Zenon DEF PubNext

(* Until the first rollup each publisher's entries carry its manifests once and
   in order, although a PUT that failed may have landed, a restart forgets the
   watermark, and any number of publishers race for the slots.             *)
THEOREM ManifestsPublishedOnce == PubSpec => []PublishedOnce
<1>1. PubInit => TypeInv /\ Control /\ OwnInv /\ ReplayInv /\ DrainInv
  BY TypeInit, ControlInit, OwnInit, ReplayInit, DrainInit, Zenon DEF PubInit
<1>2. TypeInv /\ Control /\ OwnInv /\ ReplayInv /\ DrainInv /\ [PubNext]_pubVars
        => (TypeInv /\ Control /\ OwnInv /\ ReplayInv /\ DrainInv)'
  BY PubStepIsStep, TypeStep, ControlStep, OwnStep, ReplayStep, DrainStep, Zenon
<1>3. DrainInv => PublishedOnce
  BY Zenon DEF DrainInv, PublishedOnce
<1> QED BY <1>1, <1>2, <1>3, PTL DEF PubSpec
==============================================================================
