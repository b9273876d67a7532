--------------------------- MODULE SnapshotTracker ---------------------------
(***************************************************************************)
(* The snapshot tracker (influxdb3_wal/src/snapshot_tracker.rs): the WAL   *)
(* periods not yet snapshotted, one per WAL file, and the decision which   *)
(* of them the next snapshot covers.  Pure operators on a tracker; None is *)
(* {} and Some(d) is {d}.                                                  *)
(***************************************************************************)
EXTENDS Integers, Sequences, FiniteSets

CONSTANTS Gen1,          \* gen1_duration
          SnapshotSize   \* snapshot_size

ASSUME Gen1Assumption == Gen1 \in Nat \ {0}
ASSUME SnapshotSizeAssumption == SnapshotSize \in Nat \ {0}

Highest(S) == CHOOSE x \in S : \A y \in S : y <= x
Lowest(S) == CHOOSE x \in S : \A y \in S : x <= y

(* chunk_time_for_timestamp, the same rounding as the tracker's.  Rust's
   remainder has the sign of the dividend.                                 *)
ChunkTime(t) == IF t >= 0 THEN t - (t % Gen1) ELSE t + ((-t) % Gen1)

WalPeriod == [wal: Nat, max: Int]
SnapshotDetails == [seq: Nat, marker: Int, last: Nat, forced: BOOLEAN]
Tracker == [snap: Nat, periods: Seq(WalPeriod)]

\* Mutant of NewTracker: one behind.
NewTrackerBehind(lastSnap) == [snap |-> lastSnap - 1, periods |-> <<>>]

NewTracker(lastSnap) == [snap |-> lastSnap, periods |-> <<>>]

\* The caller never violates the assertion that the numbers increase.
AddWalPeriod(tr, wal, max) ==
  [tr EXCEPT !.periods = Append(@, [wal |-> wal, max |-> max])]

ReserveSnapshotSequenceNumber(tr) == [tr EXCEPT !.snap = @ + 1]

PeriodsToSnapshotAfter == SnapshotSize + SnapshotSize \div 2

ShouldRunSnapshot(tr, force) ==
  /\ tr.periods # <<>>
  /\ force \/ Len(tr.periods) >= PeriodsToSnapshotAfter

LastPeriod(tr) == tr.periods[Len(tr.periods)]

\* How many periods take_while keeps: the longest prefix all below t.
TakeWhile(periods, t) ==
  Highest({k \in 0..Len(periods) : \A i \in 1..k : periods[i].max < t})

Nothing(tr) == [tracker |-> tr, details |-> {}]

\* Mutant of SnapshotInOrder: every period is taken, late ones included.
SnapshotInOrderTakesAll(tr) ==
  [tracker |-> [snap |-> tr.snap + 1, periods |-> <<>>],
   details |-> {[seq |-> tr.snap + 1, marker |-> ChunkTime(LastPeriod(tr).max),
                 last |-> LastPeriod(tr).wal, forced |-> FALSE]}]

(* The leading periods whose data all lies before the last period's chunk. *)
SnapshotInOrder(tr) ==
  LET t == ChunkTime(LastPeriod(tr).max)
      k == TakeWhile(tr.periods, t)
  IN IF k = 0 THEN Nothing(tr)
     ELSE [tracker |-> [snap |-> tr.snap + 1,
                        periods |-> SubSeq(tr.periods, k + 1, Len(tr.periods))],
           details |-> {[seq |-> tr.snap + 1, marker |-> t,
                         last |-> tr.periods[k].wal, forced |-> FALSE]}]

(* All of them, up to the end of the chunk of the highest time.            *)
SnapshotAll(tr) ==
  LET top == Highest({tr.periods[i].max : i \in DOMAIN tr.periods})
  IN [tracker |-> [snap |-> tr.snap + 1, periods |-> <<>>],
      details |-> {[seq |-> tr.snap + 1, marker |-> ChunkTime(top) + Gen1,
                    last |-> LastPeriod(tr).wal, forced |-> TRUE]}]

(* SnapshotTracker::snapshot                                               *)
Snapshot(tr, force) ==
  IF ~ ShouldRunSnapshot(tr, force) THEN Nothing(tr)
  ELSE IF force \/ Len(tr.periods) >= 3 * SnapshotSize THEN SnapshotAll(tr)
  ELSE SnapshotInOrder(tr)
==============================================================================
