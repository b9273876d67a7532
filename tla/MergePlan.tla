----------------------------- MODULE MergePlan -----------------------------
(***************************************************************************)
(* Which files one compaction pass merges (influxdb3_cluster/src/          *)
(* compactor.rs: select_merges, compact_group's output), as pure operators *)
(* on file records.                                                        *)
(*                                                                         *)
(* A file is its path.  A gen1 file is named by the row set it holds; a    *)
(* merged file is named by its inputs, because its path is a hash of their *)
(* paths (hash collisions are left out).  min_time is folded into          *)
(* chunk_time: a gen1 file's rows lie in its chunk.                        *)
(***************************************************************************)
EXTENDS Integers, Sequences, FiniteSetsExt

CONSTANTS TargetSize,     \* target_size_bytes
          MaxInputSize,   \* max_input_size_bytes
          MaxInputs       \* max_inputs

ASSUME PlanAssumption ==
  TargetSize \in Nat /\ MaxInputSize \in Nat /\ MaxInputs \in Nat \ {0}

Gen1File(row, time, size) ==
  [rows |-> {row}, from |-> {}, chunk_time |-> time, size |-> size]

TotalSize(group) == MapThenSumSet(LAMBDA f : f.size, group)

(* The output of compact_group: every row of the inputs, filed under the
   earliest chunk time, at a path that is a function of the inputs.        *)
MergedFile(group) ==
  [rows |-> UNION {f.rows : f \in group}, from |-> group,
   chunk_time |-> Min({f.chunk_time : f \in group}), size |-> TotalSize(group)]

Eligible(files, coldBefore) ==
  {f \in files : f.chunk_time < coldBefore /\ f.size < MaxInputSize}

(* sort_by_key on the chunk time leaves the order of equal keys to the
   index, so every ordered listing is possible.                            *)
Ordered(files) ==
  {s \in Bijection(1..Cardinality(files), files) :
     \A i, j \in DOMAIN s : i < j => s[i].chunk_time <= s[j].chunk_time}

\* Mutant of Pack: a group is closed by its count alone.
PackUnsized(acc, file) ==
  IF acc.current # {} /\ Cardinality(acc.current) >= MaxInputs
  THEN [groups |-> acc.groups \cup {acc.current}, current |-> {file}]
  ELSE [acc EXCEPT !.current = @ \cup {file}]

\* Mutant of Pack: the count limit is forgotten.
PackUncounted(acc, file) ==
  IF acc.current # {} /\ TotalSize(acc.current) + file.size > TargetSize
  THEN [groups |-> acc.groups \cup {acc.current}, current |-> {file}]
  ELSE [acc EXCEPT !.current = @ \cup {file}]

(* The body of the packing loop. *)
Pack(acc, file) ==
  IF /\ acc.current # {}
     /\ \/ TotalSize(acc.current) + file.size > TargetSize
        \/ Cardinality(acc.current) >= MaxInputs
  THEN [groups |-> acc.groups \cup {acc.current}, current |-> {file}]
  ELSE [acc EXCEPT !.current = @ \cup {file}]

(* What it has packed after the n-th file. *)
Packed(s) ==
  LET packed[n \in 0..Len(s)] ==
        IF n = 0 THEN [groups |-> {}, current |-> {}] ELSE Pack(packed[n - 1], s[n])
  IN packed

Groups(s) ==
  LET packed == Packed(s)[Len(s)]
  IN {g \in packed.groups \cup {packed.current} : Cardinality(g) >= 2}

SelectMerges(files, coldBefore) ==
  {Groups(s) : s \in Ordered(Eligible(files, coldBefore))}
=============================================================================
