----------------------------- MODULE FileIndex -----------------------------
(***************************************************************************)
(* The in-memory projection of the shared file index log: struct Inner of  *)
(* influxdb3_cluster/src/file_index.rs and the operations on it, as pure   *)
(* operators.  Each operator below is one acquisition of FileIndex::inner's*)
(* lock; the modules that use them decide what may happen between two.     *)
(*                                                                         *)
(* A Parquet file is a member of Paths: a path is unique cluster-wide and  *)
(* belongs to one node and one table.  Databases and tables are not told   *)
(* apart, so a path alone names an entry of the index.                     *)
(***************************************************************************)
EXTENDS Integers

CONSTANTS Nodes,     \* object-store prefixes of the cluster's nodes
          Paths,     \* Parquet file paths
          OwnerOf,   \* [Paths -> Nodes]: the node prefix of a path
          TimeOf     \* [Paths -> Nat]: ParquetFile::max_time

ASSUME OwnerOfAssumption == OwnerOf \in [Paths -> Nodes]
ASSUME TimeOfAssumption == TimeOf \in [Paths -> Nat]

Absent == 0      \* added_at of a path the index does not hold
NoTime == -1     \* a node absent from persisted_max_times

Max2(a, b) == IF a >= b THEN a ELSE b

(* What one log object does to the index: the deltas of one publishing pass,
   collapsed.  "removed" are the paths some delta removes, "added" the paths
   the last delta naming them adds, "max_time" the highest max_time of every
   file any delta adds, "snapshot_sequence" the newest manifest drained.    *)
FileIndexDelta ==
  [node: Nodes, snapshot_sequence: Nat \ {0},
   added: SUBSET Paths, removed: SUBSET Paths, max_time: Nat \cup {NoTime}]

(* Inner.  A watermark of 0 is an absent one: snapshot numbers start at 1. *)
Inner ==
  [sequence: Nat,
   files: [Paths -> Nat],                      \* path |-> added_at
   watermarks: [Nodes -> Nat],
   persisted_max_times: [Nodes -> Nat \cup {NoTime}]]

EmptyIndex ==
  [sequence |-> 0,
   files |-> [p \in Paths |-> Absent],
   watermarks |-> [n \in Nodes |-> 0],
   persisted_max_times |-> [n \in Nodes |-> NoTime]]

Holds(index, p) == index.files[p] # Absent

\* Mutants of Apply: the time watermark overwritten, removals forgotten.
ApplyOverwritesTime(index, sequence, delta) ==
  IF sequence <= index.sequence THEN index
  ELSE [index EXCEPT !.sequence = sequence,
          !.files = [p \in Paths |->
             IF Holds(index, p) /\ p \notin delta.removed THEN index.files[p]
             ELSE IF p \in delta.added THEN sequence ELSE Absent],
          !.watermarks[delta.node] = Max2(@, delta.snapshot_sequence),
          !.persisted_max_times[delta.node] = delta.max_time]

ApplyKeepsRemoved(index, sequence, delta) ==
  IF sequence <= index.sequence THEN index
  ELSE [index EXCEPT !.sequence = sequence,
          !.files = [p \in Paths |->
             IF Holds(index, p) THEN index.files[p]
             ELSE IF p \in delta.added THEN sequence ELSE Absent],
          !.watermarks[delta.node] = Max2(@, delta.snapshot_sequence),
          !.persisted_max_times[delta.node] = Max2(@, delta.max_time)]

(* FileIndex::apply: entries at or below the position are ignored, removals
   come before additions, additions dedup by path.  The position jumps to
   the entry's sequence, whatever it was.                                  *)
Apply(index, sequence, delta) ==
  IF sequence <= index.sequence
  THEN index
  ELSE [sequence |-> sequence,
        files |-> [p \in Paths |->
                     IF Holds(index, p) /\ p \notin delta.removed
                     THEN index.files[p]
                     ELSE IF p \in delta.added THEN sequence ELSE Absent],
        watermarks |->
          [index.watermarks EXCEPT
             ![delta.node] = Max2(@, delta.snapshot_sequence)],
        persisted_max_times |->
          [index.persisted_max_times EXCEPT
             ![delta.node] = Max2(@, delta.max_time)]]

\* Mutant of Restore: the time watermarks do not survive the rollup.
RestoreDropsTimes(index, snapshot) ==
  [index EXCEPT
     !.sequence = Max2(@, snapshot.sequence),
     !.files = [p \in Paths |-> IF Holds(index, p) THEN index.files[p]
                                                  ELSE snapshot.files[p]],
     !.watermarks =
       [n \in Nodes |-> Max2(index.watermarks[n], snapshot.watermarks[n])]]

(* FileIndex::restore, and merge_from: additive, entries already present
   are kept.                                                               *)
Restore(index, snapshot) ==
  [sequence |-> Max2(index.sequence, snapshot.sequence),
   files |-> [p \in Paths |-> IF Holds(index, p) THEN index.files[p]
                                                 ELSE snapshot.files[p]],
   watermarks |->
     [n \in Nodes |-> Max2(index.watermarks[n], snapshot.watermarks[n])],
   persisted_max_times |->
     [n \in Nodes |-> Max2(index.persisted_max_times[n],
                           snapshot.persisted_max_times[n])]]
=============================================================================
