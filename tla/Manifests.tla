----------------------------- MODULE Manifests -----------------------------
(***************************************************************************)
(* A node's snapshot manifests (influxdb3_write/src/lib.rs,                *)
(* PersistedSnapshot) as its readers see them: numbered records of the     *)
(* files a snapshot or a compaction added and removed.                     *)
(***************************************************************************)
EXTENDS Integers, FiniteSetsExt

Manifest(seq, added, removed) == [seq |-> seq, added |-> added, removed |-> removed]
LastSeq(M) == Max({m.seq : m \in M} \cup {0})

(* What manifests M, folded oldest first, leave.  A fold adds and removes by
   manifest, whatever order they were written in.                          *)
View(M) ==
  {f \in UNION {m.added : m \in M} :
     \E m \in M : f \in m.added /\ \A l \in M : l.seq > m.seq => f \notin l.removed}

(* publish_pending: what it drains next.  A manifest below one already drained
   stays out.                                                              *)
Undrained(M, drained) == {m \in M : m.seq > LastSeq(drained)}
=============================================================================
