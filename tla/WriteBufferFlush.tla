-------------------------- MODULE WriteBufferFlush --------------------------
(***************************************************************************)
(* Writing and flushing keep DurableInv: what the snapshot tracker takes,  *)
(* what a flush decides with it, and one lemma for each of the actions.    *)
(***************************************************************************)
EXTENDS WriteBufferInv, NumberLemmas

-----------------------------------------------------------------------------
(* Numbers, and what the tracker takes                                     *)

LEMMA HighestIs ==
  ASSUME NEW S \in SUBSET Int, S # {}, NEW b \in Int, \A x \in S : x <= b
  PROVE  Highest(S) \in S /\ \A x \in S : x <= Highest(S)
<1>1. Max(S) \in S /\ \A x \in S : x <= Max(S)
  BY MaxExists, Zenon
<1>2. \E x \in S : \A y \in S : y <= x
  BY <1>1, Zenon
<1> QED BY <1>2, Zenon DEF Highest

LEMMA LowestIs ==
  ASSUME NEW S \in SUBSET Nat, S # {}
  PROVE  Lowest(S) \in S /\ \A x \in S : Lowest(S) <= x
BY LeastNat, Zenon DEF Lowest

LEMMA PeriodAt ==
  ASSUME NEW p \in Seq(WalPeriod), NEW i \in 1..Len(p)
  PROVE  p[i] \in WalPeriod /\ p[i].wal \in Nat /\ p[i].max \in Int
<1>1. p[i] \in WalPeriod
  OBVIOUS
<1> QED BY <1>1, Zenon DEF WalPeriod

(* A finite sequence of numbers has a highest one. *)
LEMMA PeriodsBound ==
  ASSUME NEW p \in Seq(WalPeriod)
  PROVE  \E b \in Int : \A i \in 1..Len(p) : p[i].max <= b
<1> DEFINE P == {k \in Nat : k <= Len(p) => \E b \in Int : \A i \in 1..k : p[i].max <= b}
<1>1. 0 \in P
  OBVIOUS
<1>2. ASSUME NEW k \in Nat, k \in P PROVE k + 1 \in P
  <2> SUFFICES ASSUME k + 1 <= Len(p) PROVE \E b \in Int : \A i \in 1..(k + 1) : p[i].max <= b
    OBVIOUS
  <2>0. Len(p) \in Nat
    OBVIOUS
  <2>1. PICK b \in Int : \A i \in 1..k : p[i].max <= b
    BY <1>2, <2>0
  <2>2. \A i \in 1..(k + 1) : p[i].max \in Int
    BY <2>0, PeriodAt
  <2>3. PICK m \in Int : m = p[k + 1].max
    BY <2>2
  <2>4. PICK c \in Int : b <= c /\ m <= c
    OBVIOUS
  <2>5. ASSUME NEW i \in 1..(k + 1) PROVE p[i].max <= c
    <3>1. CASE i \in 1..k
      BY <2>1, <2>2, <2>4, <3>1
    <3>2. CASE i = k + 1
      BY <2>3, <2>4, <3>2, Zenon
    <3> QED BY <3>1, <3>2
  <2> QED BY <2>5, Zenon
<1> HIDE DEF P
<1>3. Nat \subseteq P
  BY <1>1, <1>2, SetInduction, Zenon
<1>4. Len(p) \in Nat /\ Len(p) \in P
  BY <1>3
<1>5. Len(p) <= Len(p)
  BY <1>4
<1> QED BY <1>4, <1>5, Zenon DEF P

LEMMA TopIs ==
  ASSUME NEW p \in Seq(WalPeriod), p # <<>>
  PROVE  LET top == Highest({p[i].max : i \in DOMAIN p})
         IN top \in Int /\ \A i \in 1..Len(p) : p[i].max <= top
<1>1. PICK b \in Int : \A i \in 1..Len(p) : p[i].max <= b
  BY PeriodsBound, Zenon
<1>2. DOMAIN p = 1..Len(p) /\ 1 \in DOMAIN p /\ \A i \in DOMAIN p : p[i].max \in Int
  BY PeriodAt
<1> DEFINE S == {p[i].max : i \in DOMAIN p}
<1>3. S \in SUBSET Int /\ S # {} /\ \A x \in S : x <= b
  BY <1>1, <1>2, Zenon
<1>4. \A i \in 1..Len(p) : p[i].max \in S
  BY <1>2, Zenon
<1> HIDE DEF S
<1>5. Highest(S) \in S /\ \A x \in S : x <= Highest(S)
  BY <1>3, HighestIs, Zenon
<1> QED BY <1>3, <1>4, <1>5, Zenon DEF S

LEMMA TakeWhileIs ==
  ASSUME NEW p \in Seq(WalPeriod), NEW t \in Int
  PROVE  LET k == TakeWhile(p, t)
         IN /\ k \in 0..Len(p) /\ \A i \in 1..k : p[i].max < t
            /\ k < Len(p) => ~ (p[k + 1].max < t)
<1> DEFINE S == {k \in 0..Len(p) : \A i \in 1..k : p[i].max < t}
<1>1. S \in SUBSET Int /\ 0 \in S /\ Len(p) \in Int /\ \A x \in S : x <= Len(p)
  OBVIOUS
<1>2. TakeWhile(p, t) = Highest(S)
  BY Zenon DEF TakeWhile
<1>3. S # {}
  BY <1>1, Zenon
<1> HIDE DEF S
<1>4. Highest(S) \in S /\ \A x \in S : x <= Highest(S)
  BY <1>1, <1>3, HighestIs, Zenon
<1>5. PICK k : k = Highest(S)
  BY Zenon
<1>6. k \in 0..Len(p) /\ \A i \in 1..k : p[i].max < t
  BY <1>4, <1>5, Zenon DEF S
<1>7. ASSUME k < Len(p), p[k + 1].max < t PROVE FALSE
  <2>1. k + 1 \in S
    BY <1>6, <1>7 DEF S
  <2> QED BY <1>4, <1>5, <1>6, <2>1
<1> QED BY <1>2, <1>5, <1>6, <1>7, Zenon

LEMMA LastSnapshotIs ==
  ASSUME manifests \subseteq Manifest, NEW b \in Nat, \A m \in manifests : m.seq <= b
  PROVE  /\ LastSnapshot \in Nat /\ \A m \in manifests : m.seq <= LastSnapshot
         /\ manifests # {} => \E m \in manifests : m.seq = LastSnapshot
<1> DEFINE S == {m.seq : m \in manifests}
<1>0. \A m \in manifests : m.seq \in Nat
  BY Zenon DEF Manifest
<1>1. CASE manifests = {}
  BY <1>1, Zenon DEF LastSnapshot
<1>2. CASE manifests # {}
  <2>1. S \in SUBSET Int /\ S # {} /\ \A x \in S : x <= b
    BY <1>0, <1>2
  <2>2. LastSnapshot = Highest(S)
    BY <1>2, Zenon DEF LastSnapshot
  <2> HIDE DEF S
  <2>3. Highest(S) \in S /\ \A x \in S : x <= Highest(S)
    BY <2>1, HighestIs
  <2> QED BY <1>0, <2>2, <2>3, Zenon DEF S
<1> QED BY <1>1, <1>2, Zenon

LEMMA LastWalNat ==
  ASSUME manifests \subseteq Manifest
  PROVE  LastWal \in Nat
<1> DEFINE N == {m \in manifests : m.seq = LastSnapshot}
<1>1. LastWal = IF N = {} THEN 0 ELSE (CHOOSE m \in N : TRUE).wal
  BY Zenon DEF LastWal
<1>2. N \subseteq Manifest
  BY Zenon
<1> HIDE DEF N
<1>3. N # {} => (CHOOSE m \in N : TRUE) \in N
  BY Zenon
<1> QED BY <1>1, <1>2, <1>3, Zenon DEF Manifest

LEMMA AddType ==
  ASSUME TypeInv, NEW n \in Nat, NEW max \in Int
  PROVE  AddWalPeriod(tracker, n, max) \in Tracker
<1>1. [wal |-> n, max |-> max] \in WalPeriod
  BY Zenon DEF WalPeriod
<1>2. tracker.periods \in Seq(WalPeriod) /\ tracker.snap \in Nat /\ tracker \in Tracker
  BY Zenon DEF TypeInv, Tracker
<1>3. Append(tracker.periods, [wal |-> n, max |-> max]) \in Seq(WalPeriod)
  BY <1>1, <1>2
<1> QED BY <1>2, <1>3, Zenon DEF AddWalPeriod, Tracker

LEMMA ChunkTimeBelow ==
  ASSUME NEW t \in Nat
  PROVE  ChunkTime(t) \in Nat /\ ChunkTime(t) <= t
BY Gen1Assumption DEF ChunkTime

(* The rounding keeps the order of times that are not negative.  Negative ones
   are rounded up, and this fails. *)
LEMMA ChunkTimeMonotone ==
  ASSUME NEW s \in Nat, NEW t \in Nat, s <= t
  PROVE  ChunkTime(s) <= ChunkTime(t)
<1>1. PICK G \in Nat \ {0} : G = Gen1
  BY Gen1Assumption, Zenon
<1>2. PICK a \in Nat, b \in Nat : a = s \div G /\ b = t \div G
  BY <1>1
<1>3. s = G * a + (s % G) /\ t = G * b + (t % G) /\ s % G \in 0..(G - 1) /\ t % G \in 0..(G - 1)
  BY <1>1, <1>2
<1>4. G * a \in Nat /\ G * b \in Nat
  BY <1>1, <1>2
<1>5. ChunkTime(s) = G * a /\ ChunkTime(t) = G * b
  <2>1. s - (s % G) = G * a /\ t - (t % G) = G * b
    <3>1. PICK x \in Nat, y \in Nat : x = G * a /\ y = G * b
      BY <1>4, Zenon
    <3>2. PICK q \in Int, r \in Int : q = s % G /\ r = t % G
      BY <1>3
    <3>3. s = x + q /\ t = y + r
      BY <1>3, <3>1, <3>2, Zenon
    <3>4. s - q = x /\ t - r = y
      BY <3>3
    <3> QED BY <3>1, <3>2, <3>4, Zenon
  <2>2. ChunkTime(s) = s - (s % G) /\ ChunkTime(t) = t - (t % G)
    BY <1>1 DEF ChunkTime
  <2> QED BY <2>1, <2>2, Zenon
<1>6. CASE a <= b
  <2>1. PICK c \in Nat : b = a + c
    BY <1>6
  <2>2. G * b = G * a + G * c /\ G * c \in Nat
    BY <1>1, <2>1
  <2> QED BY <1>4, <1>5, <2>2
<1>7. CASE b < a
  <2>1. PICK c \in Nat : a = b + 1 + c
    <3>1. a - b - 1 \in Nat /\ a = b + 1 + (a - b - 1)
      BY <1>7
    <3> QED BY <3>1, Zenon
  <2>2. G * a = G * b + G + G * c /\ G * c \in Nat
    BY <1>1, <2>1
  <2> QED BY <1>1, <1>3, <1>4, <2>2
<1> QED BY <1>6, <1>7

LEMMA SnapshotAllTakes ==
  ASSUME NEW tr \in Tracker, tr.periods # <<>>, \A i \in 1..Len(tr.periods) : tr.periods[i].max \in Nat
  PROVE  \E d : /\ SnapshotAll(tr).details = {d} /\ d.seq = tr.snap + 1 /\ d.forced = TRUE
                /\ Takes(tr.periods, Len(tr.periods), d)
                /\ Left(tr, Len(tr.periods), SnapshotAll(tr).tracker)
<1> DEFINE top == Highest({tr.periods[i].max : i \in DOMAIN tr.periods})
<1>0. tr.snap \in Nat /\ tr.periods \in Seq(WalPeriod) /\ Len(tr.periods) \in Nat
  BY DEF Tracker
<1>1. top \in Int /\ \A i \in 1..Len(tr.periods) : tr.periods[i].max <= top
  BY <1>0, TopIs, Zenon
<1>2. PICK d : d = [seq |-> tr.snap + 1, marker |-> ChunkTime(top) + Gen1,
                    last |-> LastPeriod(tr).wal, forced |-> TRUE]
  BY Zenon
<1>3. PICK rest : rest = [snap |-> tr.snap + 1, periods |-> <<>>]
  BY Zenon
<1>4. SnapshotAll(tr) = [tracker |-> rest, details |-> {d}]
  BY <1>2, <1>3, Zenon DEF SnapshotAll
<1> HIDE DEF top
<1>5. SnapshotAll(tr).details = {d} /\ SnapshotAll(tr).tracker = rest
  BY <1>4
<1>6. d.seq = tr.snap + 1 /\ d.forced = TRUE /\ d.marker = ChunkTime(top) + Gen1 /\ d.last = tr.periods[Len(tr.periods)].wal
  BY <1>2, Zenon DEF LastPeriod
<1>7. ASSUME NEW i \in 1..Len(tr.periods) PROVE ChunkTime(tr.periods[i].max) < d.marker
  <2>1. tr.periods[i].max \in Nat /\ top \in Nat /\ tr.periods[i].max <= top
    BY <1>1
  <2>2. ChunkTime(tr.periods[i].max) <= ChunkTime(top)
    BY <2>1, ChunkTimeMonotone, Zenon
  <2>3. ChunkTime(tr.periods[i].max) \in Nat /\ ChunkTime(top) \in Nat
    BY <2>1, ChunkTimeBelow, Zenon
  <2> QED BY <1>6, <2>2, <2>3, Gen1Assumption
<1>8. Takes(tr.periods, Len(tr.periods), d)
  BY <1>6, <1>7, Zenon DEF Takes
<1>9. rest.snap = tr.snap + 1 /\ Len(rest.periods) = 0
  BY <1>3, Zenon
<1>10. Left(tr, Len(tr.periods), rest)
  BY <1>0, <1>9 DEF Left
<1> QED BY <1>5, <1>6, <1>8, <1>10, Zenon

LEMMA SnapshotInOrderTakes ==
  ASSUME NEW tr \in Tracker, tr.periods # <<>>, \A i \in 1..Len(tr.periods) : tr.periods[i].max \in Nat,
         PeriodsToSnapshotAfter <= Len(tr.periods), Len(tr.periods) < 3 * SnapshotSize
  PROVE  \/ SnapshotInOrder(tr) = Nothing(tr)
         \/ \E d, k : /\ SnapshotInOrder(tr).details = {d} /\ d.seq = tr.snap + 1 /\ d.forced = FALSE
                      /\ k \in 1..Len(tr.periods) /\ Takes(tr.periods, k, d)
                      /\ Left(tr, k, SnapshotInOrder(tr).tracker)
<1>0. tr.snap \in Nat /\ tr.periods \in Seq(WalPeriod) /\ Len(tr.periods) \in Nat /\ Len(tr.periods) \in 1..Len(tr.periods)
  BY DEF Tracker
<1>1. PICK p : p = tr.periods
  BY Zenon
<1>2. PICK t : t = ChunkTime(p[Len(p)].max)
  BY Zenon
<1>3. t \in Nat /\ t <= p[Len(p)].max
  BY <1>0, <1>1, <1>2, ChunkTimeBelow, Zenon
<1>4. PICK k : k = TakeWhile(p, t)
  BY Zenon
<1>5. k \in 0..Len(p) /\ (\A i \in 1..k : p[i].max < t) /\ (k < Len(p) => ~ (p[k + 1].max < t))
  <2>1. p \in Seq(WalPeriod) /\ t \in Int
    BY <1>0, <1>1, <1>3
  <2> QED BY <1>4, <2>1, TakeWhileIs, Zenon
<1>6. CASE k = 0
  BY <1>1, <1>2, <1>4, <1>6, Zenon DEF SnapshotInOrder, LastPeriod
<1>7. CASE k # 0
  <2>1. PICK d : d = [seq |-> tr.snap + 1, marker |-> t, last |-> p[k].wal, forced |-> FALSE]
    BY Zenon
  <2>2. PICK rest : rest = [snap |-> tr.snap + 1, periods |-> SubSeq(p, k + 1, Len(p))]
    BY Zenon
  <2>3. SnapshotInOrder(tr) = [tracker |-> rest, details |-> {d}]
    BY <1>1, <1>2, <1>4, <1>7, <2>1, <2>2, Zenon DEF SnapshotInOrder, LastPeriod
  <2>4. SnapshotInOrder(tr).details = {d} /\ SnapshotInOrder(tr).tracker = rest
    BY <2>3
  <2>5. k < Len(p)
    <3>1. ASSUME k = Len(p) PROVE FALSE
      <4>1. p[Len(p)].max < t /\ p[Len(p)].max \in Nat
        BY <1>0, <1>1, <1>5, <3>1, Zenon
      <4> QED BY <1>3, <4>1
    <3> QED BY <1>0, <1>1, <1>5, <3>1
  <2>6. d.seq = tr.snap + 1 /\ d.forced = FALSE /\ d.marker = t /\ d.last = p[k].wal
    BY <2>1, Zenon
  <2>7. ASSUME NEW i \in 1..k PROVE ChunkTime(p[i].max) < t
    <3>1. p[i].max \in Nat /\ p[i].max < t
      BY <1>0, <1>1, <1>5
    <3>2. ChunkTime(p[i].max) \in Nat /\ ChunkTime(p[i].max) <= p[i].max
      BY <3>1, ChunkTimeBelow, Zenon
    <3> QED BY <1>3, <3>1, <3>2
  <2>8. p[k + 1].max >= t
    <3>1. p[k + 1].max \in Nat
      BY <1>0, <1>1, <1>5, <2>5
    <3> QED BY <1>3, <1>5, <2>5, <3>1
  <2>9. Takes(p, k, d)
    BY <1>1, <1>2, <1>5, <2>5, <2>6, <2>7, <2>8, Zenon DEF Takes
  <2>10. Len(rest.periods) = Len(p) - k /\ rest.snap = tr.snap + 1
    BY <1>0, <1>1, <1>5, <2>2, <2>5
  <2>11. ASSUME NEW i \in 1..(Len(p) - k) PROVE rest.periods[i] = p[k + i]
    BY <1>0, <1>1, <1>5, <2>2, <2>5
  <2>12. Left(tr, k, rest)
    BY <1>1, <2>10, <2>11, Zenon DEF Left
  <2>13. k \in 1..Len(p)
    BY <1>0, <1>1, <1>5, <1>7
  <2> QED BY <1>1, <2>4, <2>6, <2>9, <2>12, <2>13, Zenon
<1> QED BY <1>6, <1>7, Zenon

(* A snapshot takes nothing, or the first of the periods. *)
LEMMA SnapshotTakes ==
  ASSUME NEW tr \in Tracker, tr.periods # <<>>, \A i \in 1..Len(tr.periods) : tr.periods[i].max \in Nat,
         NEW force \in BOOLEAN
  PROVE  \/ Snapshot(tr, force) = Nothing(tr)
         \/ \E d, k : /\ Snapshot(tr, force).details = {d} /\ d.seq = tr.snap + 1
                      /\ d.forced => force \/ Len(tr.periods) >= 3 * SnapshotSize
                      /\ k \in 1..Len(tr.periods) /\ Takes(tr.periods, k, d)
                      /\ Left(tr, k, Snapshot(tr, force).tracker)
<1>0. Len(tr.periods) \in 1..Len(tr.periods) /\ Len(tr.periods) \in Nat
  BY DEF Tracker
<1>1. CASE ~ ShouldRunSnapshot(tr, force)
  BY <1>1, Zenon DEF Snapshot
<1>2. CASE ShouldRunSnapshot(tr, force) /\ (force \/ Len(tr.periods) >= 3 * SnapshotSize)
  <2>1. Snapshot(tr, force) = SnapshotAll(tr)
    BY <1>2, Zenon DEF Snapshot
  <2> QED BY <1>0, <1>2, <2>1, SnapshotAllTakes, Zenon
<1>3. CASE ShouldRunSnapshot(tr, force) /\ ~ (force \/ Len(tr.periods) >= 3 * SnapshotSize)
  <2>1. Snapshot(tr, force) = SnapshotInOrder(tr)
    BY <1>3, Zenon DEF Snapshot
  <2>2. PeriodsToSnapshotAfter <= Len(tr.periods) /\ Len(tr.periods) < 3 * SnapshotSize
    BY <1>0, <1>3, SnapshotSizeAssumption DEF ShouldRunSnapshot, PeriodsToSnapshotAfter
  <2> QED BY <2>1, <2>2, SnapshotInOrderTakes, Zenon
<1> QED BY <1>1, <1>2, <1>3, Zenon

LEMMA OneFlying ==
  ASSUME DurableWhen, NEW f \in Flushers
  PROVE  Flying = IF pc[f] = "idle" THEN {} ELSE {inflight[f]}
BY Zenon DEF DurableWhen, Flying

LEMMA Numbers ==
  ASSUME TypeInv, NumberInv
  PROVE  /\ LastWal \in Nat /\ LastSnapshot \in Nat /\ walNumber \in Nat \ {0} /\ FileNumbers \subseteq Nat
         /\ Begun \subseteq WalFile /\ Flying \subseteq WalFile
         /\ \A w \in WalFile : /\ w.num \in Nat \ {0} /\ w.rows \subseteq Rows /\ w.max \in Int
                               /\ w.snap \subseteq SnapshotDetails
         /\ \A d \in SnapshotDetails : d.seq \in Nat /\ d.marker \in Int /\ d.last \in Nat /\ d.forced \in BOOLEAN
         /\ tracker.snap \in Nat /\ tracker.periods \in Seq(WalPeriod) /\ Len(tracker.periods) \in Nat
         /\ Taken \in Int
         /\ \A f \in Flushers : pc[f] # "idle" => inflight[f] \in WalFile
<1>1. \A f \in Flushers : pc[f] # "idle" => inflight[f] \in WalFile
  BY Zenon DEF TypeInv, NumberInv
<1>2. Flying \subseteq WalFile
  BY <1>1, Zenon DEF Flying
<1>3. Begun \subseteq WalFile
  BY <1>2, Zenon DEF Begun, TypeInv
<1>4. \A w \in WalFile : /\ w.num \in Nat \ {0} /\ w.rows \subseteq Rows /\ w.max \in Int
                         /\ w.snap \subseteq SnapshotDetails
  BY Zenon DEF WalFile
<1>5. \A d \in SnapshotDetails : d.seq \in Nat /\ d.marker \in Int /\ d.last \in Nat /\ d.forced \in BOOLEAN
  BY Zenon DEF SnapshotDetails
<1>6. LastSnapshot \in Nat
  BY LastSnapshotIs, Zenon DEF TypeInv
<1>7. LastWal \in Nat
  BY LastWalNat, Zenon DEF TypeInv
<1>8. tracker.snap \in Nat /\ tracker.periods \in Seq(WalPeriod)
  BY Zenon DEF TypeInv, Tracker
<1>9. Len(tracker.periods) \in Nat
  BY <1>8
<1>10. walNumber \in Nat \ {0}
  BY Zenon DEF TypeInv
<1>11. Taken \in Int
  BY <1>9, <1>10 DEF Taken
<1>12. FileNumbers \subseteq Nat
  BY <1>4, Zenon DEF TypeInv, FileNumbers
<1> QED BY <1>1, <1>2, <1>3, <1>4, <1>5, <1>6, <1>7, <1>8, <1>9, <1>10, <1>11, <1>12, Zenon

-----------------------------------------------------------------------------
(* Steps that move no file, snapshot or row                                *)

LEMMA SameManifests ==
  ASSUME manifests' = manifests
  PROVE  LastWal' = LastWal /\ LastSnapshot' = LastSnapshot /\ ManifestPaths' = ManifestPaths
<1>1. LastSnapshot' = LastSnapshot
  BY Zenon DEF LastSnapshot
<1> QED BY <1>1 DEF LastWal, ManifestPaths

LEMMA SameState ==
  ASSUME FileInv, ManifestInv, SeqInv, TrackInv, DataInv, Durable, Queryable,
         UNCHANGED <<walFiles, parquet, manifests, status, todo, highWater, walNumber, tracker,
                     buffer, snapshotting, files, acked>>,
         Flying' = Flying, Persisting' = Persisting, Persisting => task' = task
  PROVE  FileInv' /\ ManifestInv' /\ SeqInv' /\ TrackInv' /\ DataInv' /\ Durable' /\ Queryable'
<1>1. LastWal' = LastWal /\ LastSnapshot' = LastSnapshot /\ ManifestPaths' = ManifestPaths
  BY SameManifests, Zenon
<1>2. Begun' = Begun /\ FileNumbers' = FileNumbers /\ Taken' = Taken
  BY Zenon DEF Begun, FileNumbers, Taken
<1>3. Base' = Base
  <2>1. CASE Persisting
    BY <2>1 DEF Base
  <2>2. CASE ~ Persisting
    BY <1>1, <2>2, Zenon DEF Base
  <2> QED BY <2>1, <2>2, Zenon
<1>4. \A P : RowsAt(P)' = RowsAt(P)
  BY Zenon DEF RowsAt
<1>5. Stored' = Stored
  BY <1>1, Zenon DEF Stored, RowsAt
<1>6. Written' = Written
  BY Zenon DEF Written, RowsAt
<1>7. FileInv'
  BY <1>1, <1>2, Zenon DEF FileInv
<1>8. ManifestInv'
  BY <1>1, Zenon DEF ManifestInv
<1>9. SeqInv'
  <2>1. CASE Persisting
    BY <1>1, <2>1, ZenonT(30) DEF SeqInv, Unfinished
  <2>2. CASE ~ Persisting
    BY <1>1, <2>2, ZenonT(30) DEF SeqInv, Unfinished
  <2> QED BY <2>1, <2>2, Zenon
<1>10. TrackInv'
  BY <1>1, <1>2, <1>3, Zenon DEF TrackInv, Unfinished
<1>11. DataInv'
  <2>1. CASE Persisting
    BY <1>1, <1>3, <1>5, <1>6, <2>1, Zenon DEF DataInv, RowChunk
  <2>2. CASE ~ Persisting
    BY <1>1, <1>3, <1>5, <1>6, <2>2, Zenon DEF DataInv, RowChunk
  <2> QED BY <2>1, <2>2, Zenon
<1>12. Durable'
  BY <1>1, <1>2, <1>5, Zenon DEF Durable, Recoverable, Stored, ManifestPaths, RowsAt
<1>13. Queryable'
  BY Zenon DEF Queryable, RowsAt
<1> QED BY <1>7, <1>8, <1>9, <1>10, <1>11, <1>12, <1>13, Zenon

LEMMA StepWrite ==
  ASSUME DurableInv, (\E r \in Rows : Write(r)) \/ UNCHANGED vars
  PROVE  DurableInv'
<1>1. UNCHANGED <<walFiles, parquet, manifests, status, todo, highWater, walNumber, tracker, permit,
                  pc, inflight, buffer, snapshotting, files, task, compaction, compactions, acked>>
      /\ (status' # "up" => pending' = pending)
  <2>1. CASE \E r \in Rows : Write(r)
    BY <2>1, Zenon DEF Write, objects, start, flush, queryable, record
  <2>2. CASE UNCHANGED vars
    BY <2>2, Zenon DEF vars
  <2> QED BY <2>1, <2>2, Zenon
<1>2. Flying' = Flying /\ Persisting' = Persisting /\ task' = task
  BY <1>1, Zenon DEF Flying, Persisting
<1>3. FileInv' /\ ManifestInv' /\ SeqInv' /\ TrackInv' /\ DataInv' /\ Durable' /\ Queryable'
  BY <1>1, <1>2, SameState, Zenon DEF DurableInv
<1>4. LastWal' = LastWal
  BY <1>1, SameManifests, Zenon
<1>5. CalmInv'
  BY <1>1, Zenon DEF DurableInv, CalmInv
<1>6. TaskInv'
  BY <1>1, <1>2, <1>4, Zenon DEF DurableInv, TaskInv, Unfinished
<1> QED BY <1>3, <1>5, <1>6, Zenon DEF DurableInv

LEMMA StepPermit ==
  ASSUME TypeInv, DurableInv, NEW f \in Flushers, FlushPermit(f)
  PROVE  DurableInv'
<1>1. UNCHANGED <<walFiles, parquet, manifests, status, todo, highWater, pending, walNumber, tracker,
                  inflight, buffer, snapshotting, files, task, compaction, compactions, acked>>
      /\ pc[f] = "permit" /\ pc' = [pc EXCEPT ![f] = "put"] /\ permit /\ permit' = FALSE /\ status = "up"
  BY Zenon DEF FlushPermit, objects, start, queryable, record
<1>2. pc'[f] = "put" /\ \A g \in Flushers : g # f => pc'[g] = pc[g]
  BY <1>1, Zenon DEF TypeInv
<1>3. {g \in Flushers : pc'[g] # "idle"} = {g \in Flushers : pc[g] # "idle"}
  BY <1>1, <1>2, Zenon
<1>4. Flying' = Flying /\ Persisting' = Persisting /\ task' = task
  BY <1>1, <1>3, Zenon DEF Flying, Persisting
<1>5. FileInv' /\ ManifestInv' /\ SeqInv' /\ TrackInv' /\ DataInv' /\ Durable' /\ Queryable'
  BY <1>1, <1>4, SameState, Zenon DEF DurableInv
<1>6. LastWal' = LastWal
  BY <1>1, SameManifests, Zenon
<1>7. CalmInv'
  BY <1>1, Zenon DEF DurableInv, CalmInv
<1>8. task.phase = "none"
  BY <1>1, Zenon DEF DurableInv, TaskInv
<1>9. TaskInv'
  BY <1>1, <1>2, <1>4, <1>6, <1>8, Zenon DEF DurableInv, TaskInv, Persisting
<1> QED BY <1>5, <1>7, <1>9, Zenon DEF DurableInv

LEMMA StepCleanupStart ==
  ASSUME TypeInv, DurableInv, CleanupStart
  PROVE  DurableInv'
<1>1. UNCHANGED <<walFiles, parquet, manifests, status, todo, highWater, pending, walNumber, tracker, permit,
                  pc, inflight, buffer, snapshotting, files, compaction, compactions, acked>>
      /\ task.phase = "cleanup" /\ Running
  BY Zenon DEF CleanupStart, objects, start, wal, flush, queryable, record
<1>2. PICK d \in task.cleanup : task' = [task EXCEPT !.phase = "delete", !.doomed = FirstWal..(d.last - Keep - 1)]
  BY Zenon DEF CleanupStart
<1>3. /\ task'.phase = "delete" /\ task'.doomed = FirstWal..(d.last - Keep - 1) /\ task'.cleanup = task.cleanup
  BY <1>2, Zenon DEF TypeInv, TaskType
<1>4. Flying' = Flying /\ Persisting' = Persisting /\ ~ Persisting
  BY <1>1, <1>3, Zenon DEF Flying, Persisting
<1>5. FileInv' /\ ManifestInv' /\ SeqInv' /\ TrackInv' /\ DataInv' /\ Durable' /\ Queryable'
  BY <1>1, <1>4, SameState, Zenon DEF DurableInv
<1>6. LastWal' = LastWal /\ LastWal \in Nat
  BY <1>1, SameManifests, LastWalNat, Zenon DEF TypeInv
<1>7. CalmInv'
  BY <1>1, Zenon DEF DurableInv, CalmInv, Running
<1>8. d.last \in Nat /\ d.last <= LastWal /\ FirstWal \in Nat
  <2>1. d.last <= LastWal
    BY <1>1, Zenon DEF DurableInv, TaskInv
  <2>2. d.last \in Nat
    BY Zenon DEF TypeInv, TaskType, SnapshotDetails
  <2>3. FirstWal \in Nat
    BY Zenon DEF TypeInv, FirstWal
  <2> QED BY <2>1, <2>2, <2>3, Zenon
<1>9. \A n \in task'.doomed : n < LastWal'
  BY <1>3, <1>6, <1>8, KeepAssumption
<1>10. \A f \in Flushers : pc[f] \in {"put", "notify"} => inflight[f].snap = {}
  BY <1>1, Zenon DEF DurableInv, TaskInv
<1>11. ~ permit
  BY <1>1, Zenon DEF DurableInv, TaskInv
<1>12. TaskInv'
  <2>1. /\ \A c \in task'.cleanup : c.last <= LastWal'
        /\ \A g \in Flushers : pc'[g] = "permit" => inflight'[g].snap # {}
        /\ \A g \in Flushers : pc'[g] = "notify" => inflight'[g] \in walFiles'
    BY <1>1, <1>3, <1>6, Zenon DEF DurableInv, TaskInv
  <2> QED BY <1>1, <1>3, <1>4, <1>9, <1>10, <1>11, <2>1, Zenon DEF TaskInv
<1> QED BY <1>5, <1>7, <1>12, Zenon DEF DurableInv

LEMMA StepCleanupEnd ==
  ASSUME TypeInv, DurableInv, CleanupEnd
  PROVE  DurableInv'
<1>1. UNCHANGED <<walFiles, parquet, manifests, status, todo, highWater, pending, walNumber, tracker,
                  pc, inflight, buffer, snapshotting, files, compaction, compactions, acked>>
      /\ task.phase = "delete" /\ Running /\ task' = NoTask /\ permit' = TRUE
  BY Zenon DEF CleanupEnd, objects, start, flush, queryable, record
<1>2. task'.phase = "none"
  BY <1>1, Zenon DEF NoTask
<1>3. Flying' = Flying /\ Persisting' = Persisting /\ ~ Persisting
  BY <1>1, <1>2, Zenon DEF Flying, Persisting
<1>4. FileInv' /\ ManifestInv' /\ SeqInv' /\ TrackInv' /\ DataInv' /\ Durable' /\ Queryable'
  BY <1>1, <1>3, SameState, Zenon DEF DurableInv
<1>5. CalmInv'
  BY <1>1, Zenon DEF DurableInv, CalmInv, Running
<1>6. \A f \in Flushers : pc[f] \in {"put", "notify"} => inflight[f].snap = {}
  BY <1>1, Zenon DEF DurableInv, TaskInv
<1>7. /\ \A g \in Flushers : pc'[g] = "permit" => inflight'[g].snap # {}
      /\ \A g \in Flushers : pc'[g] = "notify" => inflight'[g] \in walFiles'
  BY <1>1, Zenon DEF DurableInv, TaskInv
<1>8. TaskInv'
  BY <1>1, <1>2, <1>3, <1>6, <1>7, Zenon DEF TaskInv
<1> QED BY <1>4, <1>5, <1>8, Zenon DEF DurableInv

LEMMA NeverHappens ==
  ASSUME DurableWhen, TypeInv, DurableInv
  PROVE  ~ Compact /\ \A f \in Flushers : ~ FlushAbandon(f) /\ ~ FlushGiveUp(f)
<1>1. ~ CompactReserve
  BY DEF DurableWhen, DurableInv, CalmInv, CompactReserve
<1>2. ~ CompactStamp /\ ~ CompactPersist
  BY Zenon DEF DurableInv, CalmInv, CompactStamp, CompactPersist, NoCompaction
<1>3. ASSUME NEW f \in Flushers PROVE pc[f] # "giveup"
  BY Zenon DEF TypeInv, FlushStates, DurableWhen
<1> QED BY <1>1, <1>2, <1>3, Zenon DEF Compact, DurableWhen, FlushAbandon, FlushGiveUp

-----------------------------------------------------------------------------
(* A flush                                                                 *)

(* Made only speaks of files up to its own. *)
LEMMA MadeGrows ==
  ASSUME NEW w \in WalFile, NEW d \in SnapshotDetails, NEW x \in Int, NEW F, NEW G,
         Made(w, d, x, F), \A u \in G : u.num \in Int /\ (u.num <= w.num => u \in F)
  PROVE  Made(w, d, x, G)
<1>1. w.num \in Int /\ d.last \in Int /\ d.last <= w.num
  BY DEF WalFile, SnapshotDetails, Made
<1>2. \A u \in G : u.num <= d.last => u \in F
  BY <1>1
<1>3. ~ d.forced /\ d.last < w.num => \A u \in G : u.num = d.last + 1 => u \in F
  BY <1>1
<1> QED BY <1>1, <1>2, <1>3, Zenon DEF Made

LEMMA StepPut ==
  ASSUME DurableWhen, TypeInv, NumberInv, DurableInv, NEW f \in Flushers, FlushPut(f)
  PROVE  DurableInv'
<1>1. /\ UNCHANGED <<parquet, manifests, status, todo, highWater, pending, walNumber, tracker, permit,
                     inflight, buffer, snapshotting, files, task, compaction, compactions, acked>>
      /\ status = "up" /\ pc[f] = "put" /\ pc' = [pc EXCEPT ![f] = "notify"]
      /\ walFiles' = walFiles \cup {inflight[f]}
  BY Zenon DEF FlushPut, start, wal, queryable, record
<1>2. PICK v : v = inflight[f]
  BY Zenon
<1>3. Flying = {v} /\ v \in WalFile /\ v.num \in Nat
  <2>1. pc[f] # "idle"
    BY <1>1, Zenon
  <2>2. Flying = {v}
    BY <1>2, <2>1, OneFlying, Zenon
  <2> QED BY <1>2, <2>1, <2>2, Numbers, Zenon
<1>4. pc'[f] = "notify" /\ \A g \in Flushers : g # f => pc'[g] = pc[g]
  BY <1>1, Zenon DEF TypeInv
<1>5. {g \in Flushers : pc'[g] # "idle"} = {g \in Flushers : pc[g] # "idle"}
  BY <1>1, <1>4, Zenon
<1>6. Flying' = Flying /\ Persisting' = Persisting /\ task' = task
  BY <1>1, <1>5, Zenon DEF Flying, Persisting
<1>7. LastWal' = LastWal /\ LastSnapshot' = LastSnapshot /\ ManifestPaths' = ManifestPaths
  BY <1>1, SameManifests, Zenon
<1>8. Begun' = Begun /\ walFiles' = Begun /\ Taken' = Taken /\ Begun = walFiles \cup {v}
  BY <1>1, <1>2, <1>3, <1>6, Zenon DEF Begun, Taken
<1>9. Base' = Base
  <2>1. CASE Persisting
    BY <1>6, <2>1 DEF Base
  <2>2. CASE ~ Persisting
    BY <1>6, <1>7, <2>2, Zenon DEF Base
  <2> QED BY <2>1, <2>2, Zenon
<1>10. v.num = walNumber - 1 /\ v.num > LastWal /\ v.num \notin FileNumbers /\ \A n \in FileNumbers : n < v.num
  <2>1. v.num = walNumber - 1 /\ v.num > LastWal
    BY <1>3, Zenon DEF DurableInv, FileInv
  <2>2. v.num \notin FileNumbers /\ \A n \in FileNumbers : n < walNumber
    BY <1>1, <1>2, Zenon DEF NumberInv
  <2>3. FileNumbers \subseteq Nat /\ walNumber \in Nat
    BY Numbers, Zenon
  <2> QED BY <2>1, <2>2, <2>3
<1>11. v.snap # {} => task.phase = "none" /\ Base = LastWal /\ ~ Persisting
  <2>1. v.snap # {} => task.phase = "none"
    BY <1>1, <1>2, Zenon DEF DurableInv, TaskInv
  <2> QED BY <2>1, Zenon DEF Base, Persisting
<1>12. \A d \in v.snap : Unfinished(d) /\ d.seq = LastSnapshot + 1 /\ Made(v, d, LastWal, Begun)
  <2>1. \A d \in v.snap : Made(v, d, LastWal, Begun)
    BY <1>1, <1>3, <1>11, Zenon DEF DurableInv, TrackInv
  <2>2. \A d \in v.snap : d.seq = LastSnapshot + 0 + 1
    BY <1>1, <1>3, <1>11, Zenon DEF DurableInv, SeqInv
  <2>3. LastSnapshot \in Nat /\ LastWal \in Nat /\ \A d \in v.snap : d.last \in Nat
    BY <1>3, Numbers, Zenon
  <2> QED BY <2>1, <2>2, <2>3 DEF Made, Unfinished
<1>13. CalmInv' /\ ManifestInv'
  BY <1>1, <1>7, Zenon DEF DurableInv, CalmInv, ManifestInv
<1>14. FileInv'
  <2>1. FileNumbers' = FileNumbers \cup {v.num}
    BY <1>1, <1>2, Zenon DEF FileNumbers
  <2>2. ASSUME NEW k \in LastWal + 1 .. v.num - 1 PROVE k \in FileNumbers'
    <3>1. k \in LastWal + 1 .. walNumber - 1 /\ k # v.num
      BY <1>3, <1>10, Numbers
    <3>2. PICK w \in Begun : w.num = k
      BY <1>1, <3>1, Zenon DEF DurableInv, FileInv
    <3> QED BY <1>8, <3>1, <3>2, Zenon DEF FileNumbers
  <2>3. \A n \in FileNumbers' : \A k \in LastWal + 1 .. n - 1 : k \in FileNumbers'
    BY <2>1, <2>2, Zenon DEF DurableInv, FileInv
  <2> QED BY <1>1, <1>6, <1>7, <1>8, <2>3, Zenon DEF DurableInv, FileInv
<1>15. SeqInv'
  <2>1. ASSUME NEW w \in walFiles', NEW d \in w.snap, w.num > LastWal'
        PROVE  IF Unfinished(d)' THEN d.seq = LastSnapshot' + 1 ELSE d.seq <= LastSnapshot'
    <3>1. CASE w = v
      BY <1>7, <1>12, <3>1, Zenon DEF Unfinished
    <3>2. CASE w \in walFiles
      BY <1>7, <2>1, <3>2, Zenon DEF DurableInv, SeqInv, Unfinished
    <3> QED BY <1>8, <3>1, <3>2, Zenon
  <2>2. ASSUME v.snap # {}, NEW w \in walFiles, NEW e \in w.snap, Unfinished(e)
        PROVE  w = v
    BY <1>1, <1>3, <1>11, <2>2, Zenon DEF DurableInv, SeqInv
  <2>3. ASSUME NEW u \in walFiles', NEW w \in walFiles', NEW d \in u.snap, NEW e \in w.snap,
               Unfinished(d)', Unfinished(e)'
        PROVE  u = w
    <3>1. Unfinished(d) /\ Unfinished(e)
      BY <1>7, <2>3, Zenon DEF Unfinished
    <3>2. CASE u \in walFiles /\ w \in walFiles
      BY <3>1, <3>2, Zenon DEF DurableInv, SeqInv
    <3>3. CASE u = v \/ w = v
      BY <1>8, <2>2, <3>1, <3>3, Zenon
    <3> QED BY <1>8, <3>2, <3>3, Zenon
  <2>4. ASSUME NEW w \in walFiles', NEW d \in w.snap, Unfinished(d)'
        PROVE  (Persisting' /\ d \in task'.details) \/ w \in Flying'
    <3>1. CASE w = v
      BY <1>3, <1>6, <3>1, Zenon
    <3>2. CASE w \in walFiles
      BY <1>1, <1>6, <1>7, <2>4, <3>2, Zenon DEF DurableInv, SeqInv, Unfinished
    <3> QED BY <1>8, <3>1, <3>2, Zenon
  <2>5. LET started == IF Persisting THEN 1 ELSE 0
       IN /\ (\A w \in Flying : w.snap = {}) => tracker.snap = LastSnapshot + started
          /\ \A w \in Flying : \A d \in w.snap :
               d.seq = LastSnapshot + started + 1 /\ tracker.snap = d.seq
    BY <1>1, Zenon DEF DurableInv, SeqInv
  <2> QED BY <1>1, <1>6, <1>7, <2>1, <2>3, <2>4, <2>5, Zenon DEF SeqInv
<1>16. TrackInv'
  <2>1. ASSUME NEW w \in walFiles', NEW d \in w.snap, Unfinished(d)'
        PROVE  Made(w, d, LastWal, Begun)
    <3>1. CASE w = v
      BY <1>12, <3>1, Zenon
    <3>2. CASE w \in walFiles
      <4>1. Made(w, d, LastWal, walFiles)
        BY <1>7, <2>1, <3>2, Zenon DEF DurableInv, TrackInv, Unfinished
      <4>2. w \in WalFile /\ d \in SnapshotDetails /\ w.num \in FileNumbers /\ LastWal \in Int
        BY <1>8, <3>2, Numbers DEF FileNumbers
      <4>3. \A u \in Begun : u.num \in Int
        BY Numbers
      <4>4. \A u \in Begun : u.num <= w.num => u \in walFiles
        BY <1>3, <1>8, <1>10, <4>2, Numbers
      <4> QED BY <4>1, <4>2, <4>3, <4>4, MadeGrows, Zenon
    <3> QED BY <1>8, <3>1, <3>2, Zenon
  <2> QED BY <1>1, <1>6, <1>7, <1>8, <1>9, <2>1, Zenon DEF DurableInv, TrackInv, Unfinished
<1>17. TaskInv'
  <2>1. ASSUME Persisting
        PROVE  \E d \in task.details :
         /\ task.details = {d} /\ \E w \in walFiles' : w \notin Flying /\ d \in w.snap /\ w.num < walNumber
         /\ Unfinished(d)
         /\ \E c \in task.cleanup : task.cleanup = {c} /\ c.last = d.last
         /\ \A p \in task.paths : p[2] = d.last /\ p[1] \notin task.jobs
    BY <1>1, <2>1, Zenon DEF DurableInv, TaskInv
  <2>2. \A g \in Flushers : g = f
    BY Zenon DEF DurableWhen
  <2>3. inflight'[f] \in walFiles' /\ (v.snap # {} => ~ permit /\ task.phase = "none")
    BY <1>1, <1>2, Zenon DEF DurableInv, TaskInv
  <2>4. /\ task.phase = "none" => task = NoTask
        /\ task.phase \in {"cleanup", "delete"} =>
             /\ \A c \in task.cleanup : c.last <= LastWal
             /\ \A n \in task.doomed : n < LastWal
        /\ permit => task.phase = "none"
    BY Zenon DEF DurableInv, TaskInv
  <2> QED BY <1>1, <1>2, <1>4, <1>6, <1>7, <2>1, <2>2, <2>3, <2>4 DEF TaskInv, Unfinished
<1>18. DataInv'
  <2>1. walFiles' \ Flying' = walFiles \ Flying
    BY <1>3, <1>6, <1>8, Zenon
  <2>2. Stored' = Stored /\ Written' = Written
    BY <1>1, <1>6, <1>7, Zenon DEF Stored, Written, RowsAt
  <2>3. ASSUME Persisting, NEW w \in walFiles', LastWal < w.num, w.num <= Base
        PROVE  w.rows \subseteq snapshotting \cup Written \cup Stored
    <3>1. CASE w = v
      <4>1. v.num > Base
        BY <1>1, <1>3, Zenon DEF DurableInv, TrackInv
      <4>2. Base \in Nat
        <5>1. PICK d \in task.details : task.details = {d}
          BY <2>3, Zenon DEF DurableInv, TaskInv
        <5>2. Base = d.last
          BY <2>3, <5>1, Zenon DEF Base
        <5>3. d \in SnapshotDetails
          BY Zenon DEF TypeInv, TaskType
        <5> QED BY <5>2, <5>3, Numbers, Zenon
      <4> QED BY <1>3, <2>3, <3>1, <4>1, <4>2
    <3>2. CASE w \in walFiles
      BY <1>1, <2>3, <3>2, Zenon DEF DurableInv, DataInv
    <3> QED BY <1>8, <3>1, <3>2, Zenon
  <2> QED BY <1>1, <1>6, <1>7, <1>9, <2>1, <2>2, <2>3, Zenon DEF DurableInv, DataInv, RowChunk
<1>19. Durable'
  <2>1. RowsAt(ManifestPaths)' = RowsAt(ManifestPaths)
    BY <1>1, <1>7, Zenon DEF RowsAt
  <2>2. UNION {g.rows : g \in {h \in walFiles : h.num > LastWal}}
          \subseteq UNION {g.rows : g \in {h \in walFiles' : h.num > LastWal'}}
    BY <1>1, <1>7, Zenon
  <2> QED BY <1>1, <2>1, <2>2, Zenon DEF DurableInv, Durable, Recoverable, ManifestPaths
<1>20. Queryable'
  BY <1>1, Zenon DEF DurableInv, Queryable, RowsAt
<1> QED BY <1>13, <1>14, <1>15, <1>16, <1>17, <1>18, <1>19, <1>20, Zenon DEF DurableInv

(* The rows of the files a snapshot takes are in chunks before its marker, so
   freezing those chunks leaves none of them behind. *)
LEMMA FreezeData ==
  ASSUME DurableWhen, TypeInv, NumberInv, DurableInv, status # "down", task.phase = "none",
         NEW v \in walFiles, NEW d \in v.snap, Made(v, d, LastWal, walFiles), NEW cleanup,
         NotifyAndSnapshot(v.rows, d, cleanup), UNCHANGED <<walFiles, parquet, manifests, files>>,
         walNumber' \in Nat, v.num < walNumber',
         \A w \in walFiles : LastWal < w.num /\ w.num < walNumber' => w = v \/ (w \notin Flying /\ w.num < walNumber)
  PROVE  /\ DataInv' /\ Persisting' /\ task'.details = {d} /\ task'.cleanup = cleanup /\ task'.paths = {}
         /\ Base' = d.last /\ buffer \cup v.rows \subseteq buffer' \cup snapshotting'
         /\ snapshotting = {}
<1>1. PICK frozen : frozen = Frozen(buffer \cup v.rows, d.marker)
  BY Zenon
<1>2. /\ buffer' = (buffer \cup v.rows) \ frozen /\ snapshotting' = frozen
      /\ task' = [NoTask EXCEPT !.phase = "persist", !.details = {d},
                               !.jobs = ChunksOf(frozen), !.cleanup = cleanup]
  BY <1>1, Zenon DEF NotifyAndSnapshot
<1>3. /\ task'.phase = "persist" /\ task'.details = {d} /\ task'.jobs = ChunksOf(frozen)
      /\ task'.cleanup = cleanup /\ task'.paths = {}
  BY <1>2, Zenon DEF NoTask
<1>4. Persisting' /\ ~ Persisting
  BY <1>3, Zenon DEF Persisting
<1>5. Base' = d.last
  BY <1>3, <1>4, Zenon DEF Base
<1>6. snapshotting = {} /\ Written = {}
  BY <1>4, Zenon DEF DurableInv, DataInv, Written
<1>7. LastWal' = LastWal /\ ManifestPaths' = ManifestPaths
  BY SameManifests, Zenon
<1>8. Stored' = Stored
  BY <1>7, Zenon DEF Stored, RowsAt
<1>9. frozen \subseteq Rows /\ \A r \in frozen : RowChunk(r) \in task'.jobs
  <2>1. v.rows \subseteq Rows /\ buffer \subseteq Rows
    BY Zenon DEF TypeInv, WalFile
  <2> QED BY <1>1, <1>3, <2>1, Zenon DEF Frozen, ChunksOf
<1>10. ASSUME NEW w \in walFiles, LastWal < w.num, w.num < walNumber'
       PROVE  w.rows \subseteq buffer \cup v.rows \cup Stored
  <2>1. CASE w = v
    BY <2>1, Zenon
  <2>2. CASE w \notin Flying /\ w.num < walNumber
    BY <1>6, <1>10, <2>2, Zenon DEF DurableInv, DataInv
  <2> QED BY <1>10, <2>1, <2>2, Zenon
<1>11. ASSUME NEW w \in walFiles, LastWal < w.num, w.num <= d.last
       PROVE  w.rows \subseteq frozen \cup Stored
  <2>1. w \in WalFile /\ v \in WalFile /\ d.last \in Nat /\ d.marker \in Int
    BY Numbers, Zenon DEF TypeInv
  <2>2. w.num \in Nat /\ v.num \in Nat
    BY <2>1, Numbers, Zenon
  <2>3. d.last <= v.num /\ ChunkTime(w.max) < d.marker
    BY <1>11, Zenon DEF Made
  <2>4. w.num < walNumber'
    <3>1. w.num <= v.num
      BY <1>11, <2>1, <2>2, <2>3
    <3> QED BY <2>2, <3>1
  <2>5. w.max \in Nat /\ \A r \in w.rows : TimeOf[r] <= w.max
    BY Zenon DEF DurableInv, FileInv, Begun
  <2>6. ASSUME NEW r \in w.rows PROVE RowChunk(r) < d.marker
    <3>1. r \in Rows
      BY <2>1, Numbers, Zenon
    <3>2. TimeOf[r] \in Nat
      BY <3>1, Zenon DEF DurableWhen
    <3>3. ChunkTime(TimeOf[r]) <= ChunkTime(w.max)
      BY <2>5, <3>2, ChunkTimeMonotone, Zenon
    <3>4. ChunkTime(TimeOf[r]) \in Nat /\ ChunkTime(w.max) \in Nat
      BY <2>5, <3>2, ChunkTimeBelow, Zenon
    <3> QED BY <2>1, <2>3, <3>3, <3>4 DEF RowChunk
  <2>7. w.rows \subseteq buffer \cup v.rows \cup Stored
    BY <1>10, <1>11, <2>4, Zenon
  <2> QED BY <1>1, <2>6, <2>7, Zenon DEF Frozen
<1>12. /\ ManifestPaths' \subseteq files' /\ task'.paths \subseteq files'
       /\ \A p \in files' : p[2] <= LastWal'
  BY <1>3, <1>4, <1>7, Zenon DEF DurableInv, DataInv
<1>13. DataInv'
  <2>1. snapshotting' \subseteq {r \in Rows : Persisting' /\ RowChunk(r) \in task'.jobs}
    BY <1>2, <1>4, <1>9, Zenon
  <2>2. ASSUME NEW w \in walFiles' \ Flying', LastWal' < w.num, w.num < walNumber'
        PROVE  w.rows \subseteq buffer' \cup snapshotting' \cup Written' \cup Stored'
    BY <1>2, <1>7, <1>8, <1>10, <2>2, Zenon
  <2>3. ASSUME NEW w \in walFiles', LastWal' < w.num, w.num <= Base'
        PROVE  w.rows \subseteq snapshotting' \cup Written' \cup Stored'
    BY <1>2, <1>5, <1>7, <1>8, <1>11, <2>3, Zenon
  <2> QED BY <1>12, <2>1, <2>2, <2>3, Zenon DEF DataInv, RowChunk
<1> QED BY <1>2, <1>3, <1>4, <1>5, <1>6, <1>13, Zenon

LEMMA StepNotify ==
  ASSUME DurableWhen, TypeInv, NumberInv, DurableInv, NEW f \in Flushers, FlushNotify(f)
  PROVE  DurableInv'
<1>1. /\ UNCHANGED <<walFiles, parquet, manifests, status, todo, highWater, pending, walNumber, tracker, permit,
                     files, compaction, compactions>>
      /\ status = "up" /\ pc[f] = "notify" /\ pc' = [pc EXCEPT ![f] = "idle"]
      /\ acked' = acked \cup inflight[f].rows
  BY Zenon DEF FlushNotify, objects, start, wal, record
<1>2. PICK v : v = inflight[f]
  OBVIOUS
<1>3. Flying = {v} /\ v \in WalFile /\ v.num \in Nat
  <2>1. pc[f] # "idle"
    BY <1>1, Zenon
  <2>2. Flying = {v}
    BY <1>2, <2>1, OneFlying
  <2> QED BY <1>2, <2>1, <2>2, Numbers
<1>4. v \in walFiles
  BY <1>1, <1>2, Zenon DEF DurableInv, TaskInv
<1>5. \A g \in Flushers : pc'[g] = "idle"
  BY <1>1, Zenon DEF TypeInv, DurableWhen
<1>6. Flying' = {}
  BY <1>5, Zenon DEF Flying
<1>7. LastWal' = LastWal /\ LastSnapshot' = LastSnapshot /\ ManifestPaths' = ManifestPaths
  BY <1>1, SameManifests, Zenon
<1>8. Begun' = Begun /\ Taken' = Taken /\ FileNumbers' = FileNumbers
  BY <1>1, <1>3, <1>4, <1>6, Zenon DEF Begun, Taken, FileNumbers
<1>9. v.num > LastWal /\ v.num < walNumber
  <2>1. v.num > LastWal /\ v.num = walNumber - 1
    BY <1>3, Zenon DEF DurableInv, FileInv
  <2> QED BY <2>1, Numbers
<1>10. CalmInv' /\ ManifestInv'
  BY <1>1, <1>7, Zenon DEF DurableInv, CalmInv, ManifestInv
<1>11. FileInv'
  BY <1>1, <1>6, <1>7, <1>8, Zenon DEF DurableInv, FileInv
<1>12. Stored' = Stored
  BY <1>1, <1>7, Zenon DEF Stored, RowsAt
<1>13. Durable'
  <2>1. v.rows \subseteq UNION {g.rows : g \in {h \in walFiles : h.num > LastWal}}
    BY <1>4, <1>9, Zenon
  <2>2. Recoverable' = Recoverable
    BY <1>1, <1>7, Zenon DEF Recoverable, RowsAt
  <2> QED BY <1>1, <1>2, <2>1, <2>2, Zenon DEF DurableInv, Durable, Recoverable
<1>15. CASE v.snap = {}
  <2>1. UNCHANGED <<task, snapshotting>> /\ buffer' = buffer \cup v.rows
    BY <1>2, <1>15, Zenon DEF FlushNotify, Notify
  <2>2. Persisting' = Persisting /\ Written' = Written
    BY <1>1, <2>1, Zenon DEF Persisting, Written, RowsAt
  <2>3. Base' = Base
    <3>1. CASE Persisting
      BY <2>1, <2>2, <3>1 DEF Base
    <3>2. CASE ~ Persisting
      BY <1>7, <2>2, <3>2, Zenon DEF Base
    <3> QED BY <3>1, <3>2, Zenon
  <2>4. SeqInv'
    <3>1. tracker.snap = LastSnapshot + IF Persisting THEN 1 ELSE 0
      BY <1>1, <1>3, <1>15, Zenon DEF DurableInv, SeqInv
    <3>2. ASSUME NEW w \in walFiles, NEW d \in w.snap, Unfinished(d) PROVE Persisting /\ d \in task.details
      BY <1>1, <1>3, <1>15, <3>2, Zenon DEF DurableInv, SeqInv
    <3>3. /\ \A w \in walFiles : \A d \in w.snap : w.num > LastWal =>
               IF Unfinished(d) THEN d.seq = LastSnapshot + 1 ELSE d.seq <= LastSnapshot
          /\ \A u, w \in walFiles : \A d \in u.snap : \A e \in w.snap :
               Unfinished(d) /\ Unfinished(e) => u = w
      BY Zenon DEF DurableInv, SeqInv
    <3> QED BY <1>1, <1>6, <1>7, <2>1, <2>2, <3>1, <3>2, <3>3 DEF SeqInv, Unfinished
  <2>5. TrackInv'
    <3>1. Taken = Base
      BY <1>1, <1>3, <1>15, Zenon DEF DurableInv, TrackInv
    <3> QED BY <1>1, <1>6, <1>7, <1>8, <2>3, <3>1, Zenon DEF DurableInv, TrackInv, Unfinished
  <2>6. TaskInv'
    <3>1. Persisting =>
            \E d \in task.details :
              /\ task.details = {d} /\ \E w \in walFiles : w \notin {} /\ d \in w.snap /\ w.num < walNumber
              /\ Unfinished(d)
              /\ \E c \in task.cleanup : task.cleanup = {c} /\ c.last = d.last
              /\ \A p \in task.paths : p[2] = d.last /\ p[1] \notin task.jobs
      BY Zenon DEF DurableInv, TaskInv
    <3>2. /\ task.phase = "none" => task = NoTask
          /\ task.phase \in {"cleanup", "delete"} =>
             /\ \A c \in task.cleanup : c.last <= LastWal
             /\ \A n \in task.doomed : n < LastWal
          /\ permit => task.phase = "none"
      BY Zenon DEF DurableInv, TaskInv
    <3> QED BY <1>1, <1>5, <1>6, <1>7, <2>1, <2>2, <3>1, <3>2, Zenon DEF TaskInv, Unfinished
  <2>7. DataInv'
    <3>1. ASSUME NEW w \in walFiles, LastWal < w.num, w.num < walNumber
          PROVE  w.rows \subseteq buffer' \cup snapshotting \cup Written \cup Stored
      <4>1. CASE w = v
        BY <2>1, <4>1, Zenon
      <4>2. CASE w # v
        BY <1>1, <1>3, <2>1, <3>1, <4>2, Zenon DEF DurableInv, DataInv
      <4> QED BY <4>1, <4>2, Zenon
    <3> QED BY <1>1, <1>6, <1>7, <1>12, <2>1, <2>2, <2>3, <3>1, Zenon DEF DurableInv, DataInv, RowChunk
  <2>8. Queryable'
    BY <1>1, <1>2, <2>1, Zenon DEF DurableInv, Queryable, RowsAt
  <2> QED BY <1>10, <1>11, <1>13, <2>4, <2>5, <2>6, <2>7, <2>8, Zenon DEF DurableInv
<1>16. CASE v.snap # {}
  <2>1. PICK d \in v.snap : NotifyAndSnapshot(v.rows, d, {d})
    BY <1>2, <1>16, Zenon DEF FlushNotify
  <2>2. task.phase = "none" /\ ~ permit
    BY <1>1, <1>2, <1>16, Zenon DEF DurableInv, TaskInv
  <2>3. ~ Persisting /\ Base = LastWal
    BY <2>2, Zenon DEF Persisting, Base
  <2>4. Begun = walFiles
    BY <1>3, <1>4, Zenon DEF Begun
  <2>5. Made(v, d, LastWal, walFiles) /\ Taken = d.last
    BY <1>1, <1>3, <2>3, <2>4, Zenon DEF DurableInv, TrackInv
  <2>6. \A w \in walFiles : LastWal < w.num /\ w.num < walNumber' => w = v \/ (w \notin Flying /\ w.num < walNumber)
    BY <1>1, <1>3, Zenon
  <2>7. /\ DataInv' /\ Persisting' /\ task'.details = {d} /\ task'.cleanup = {d} /\ task'.paths = {}
        /\ Base' = d.last /\ buffer \cup v.rows \subseteq buffer' \cup snapshotting'
        /\ snapshotting = {}
    <3>1. status # "down" /\ v.num < walNumber' /\ walNumber' \in Nat
      BY <1>1, <1>9, Numbers, Zenon
    <3> QED BY <1>1, <1>4, <2>1, <2>2, <2>5, <2>6, <3>1, FreezeData, Zenon
  <2>8. v.snap = {d}
    BY <1>4, <2>1 DEF DurableInv, FileInv, Begun
  <2>9. Unfinished(d) /\ d.last \in Nat
    <3>1. d.last \in Nat
      BY <1>3, Numbers, Zenon
    <3> QED BY <2>5, <3>1, Numbers, Zenon DEF Made, Unfinished
  <2>10. SeqInv'
    <3>1. tracker.snap = LastSnapshot + 1
      <4>1. d.seq = LastSnapshot + 0 + 1 /\ tracker.snap = d.seq
        BY <1>1, <1>3, <2>3, Zenon DEF DurableInv, SeqInv
      <4> QED BY <4>1, Numbers
    <3>2. ASSUME NEW w \in walFiles, NEW e \in w.snap, Unfinished(e) PROVE e \in task'.details
      BY <1>1, <1>3, <2>3, <2>7, <2>8, <3>2, Zenon DEF DurableInv, SeqInv
    <3>3. /\ \A w \in walFiles : \A e \in w.snap : w.num > LastWal =>
               IF Unfinished(e) THEN e.seq = LastSnapshot + 1 ELSE e.seq <= LastSnapshot
          /\ \A u, w \in walFiles : \A e \in u.snap : \A c \in w.snap :
               Unfinished(e) /\ Unfinished(c) => u = w
      BY Zenon DEF DurableInv, SeqInv
    <3> QED BY <1>1, <1>6, <1>7, <2>7, <3>1, <3>2, <3>3 DEF SeqInv, Unfinished
  <2>11. TrackInv'
    BY <1>1, <1>6, <1>7, <1>8, <2>5, <2>7, Zenon DEF DurableInv, TrackInv, Unfinished
  <2>12. TaskInv'
    <3>1. task'.phase = "persist"
      BY <2>7, Zenon DEF Persisting
    <3>2. \E w \in walFiles' : w \notin Flying' /\ d \in w.snap /\ w.num < walNumber'
      BY <1>1, <1>4, <1>6, <1>9, Zenon
    <3> QED BY <1>1, <1>5, <1>7, <2>2, <2>7, <2>9, <3>1, <3>2, Zenon DEF TaskInv, Unfinished
  <2>13. Queryable'
    BY <1>1, <1>2, <2>7, Zenon DEF DurableInv, Queryable, RowsAt
  <2> QED BY <1>10, <1>11, <1>13, <2>7, <2>10, <2>11, <2>12, <2>13, Zenon DEF DurableInv
<1> QED BY <1>15, <1>16, Zenon

LEMMA BaseIs ==
  ASSUME TypeInv, NumberInv, DurableInv, status # "down"
  PROVE  /\ Base \in Nat /\ LastWal <= Base /\ Settled(Base, Begun)
         /\ Persisting => \A d \in task.details : d.last = Base
         /\ Flying = {} => \A w \in walFiles : \A e \in w.snap :
              (w.num \in todo /\ status = "replay") \/ e.last <= Base
<1>0. LastWal \in Nat /\ \A w \in walFiles : \A e \in w.snap : e.last \in Nat
  BY Numbers, Zenon DEF Begun
<1>1. CASE ~ Persisting
  <2>1. Base = LastWal
    BY <1>1, Zenon DEF Base
  <2>2. Settled(LastWal, Begun)
    BY Zenon DEF DurableInv, TrackInv
  <2>3. ASSUME Flying = {}, NEW w \in walFiles, NEW e \in w.snap, ~ (w.num \in todo /\ status = "replay")
        PROVE  e.last <= LastWal
    <3>1. ~ Unfinished(e)
      BY <1>1, <2>3, Zenon DEF DurableInv, SeqInv
    <3> QED BY <1>0, <3>1 DEF Unfinished
  <2> QED BY <1>0, <1>1, <2>1, <2>2, <2>3
<1>2. CASE Persisting
  <2>1. PICK d \in task.details : /\ task.details = {d} /\ Unfinished(d)
                                  /\ \E w \in walFiles : w \notin Flying /\ d \in w.snap /\ w.num < walNumber
    BY <1>2, Zenon DEF DurableInv, TaskInv
  <2>2. Base = d.last
    BY <1>2, <2>1, Zenon DEF Base
  <2>3. d.last \in Nat /\ d.last > LastWal
    BY <1>0, <2>1, Zenon DEF Unfinished
  <2>4. Settled(d.last, Begun)
    BY <2>1, Zenon DEF DurableInv, TrackInv, Begun
  <2>5. ASSUME Flying = {}, NEW w \in walFiles, NEW e \in w.snap, ~ (w.num \in todo /\ status = "replay")
        PROVE  e.last <= d.last
    <3>1. CASE ~ Unfinished(e)
      BY <1>0, <2>3, <3>1 DEF Unfinished
    <3>2. CASE Unfinished(e)
      <4>1. e \in task.details
        BY <2>5, <3>2, Zenon DEF DurableInv, SeqInv
      <4> QED BY <2>1, <2>3, <4>1
    <3> QED BY <3>1, <3>2, Zenon
  <2> QED BY <1>0, <1>2, <2>1, <2>2, <2>3, <2>4, <2>5
<1> QED BY <1>1, <1>2, Zenon

LEMMA PeriodsAligned ==
  ASSUME TypeInv, NumberInv, DurableInv, status # "down", Flying = {}, NEW max \in Nat, NEW v,
         v.num = walNumber, v.max = max,
         \A u \in Begun : u.num = walNumber => u = v
  PROVE  LET tr == AddWalPeriod(tracker, walNumber, max)
         IN /\ tr \in Tracker /\ tr.snap = tracker.snap /\ tr.periods # <<>>
            /\ Len(tr.periods) = walNumber - Base
            /\ Taken = Base
            /\ Aligned(tr.periods, Base, Begun \cup {v})
<1>1. PICK tr : tr = AddWalPeriod(tracker, walNumber, max)
  BY Zenon
<1>2. PICK n \in Nat : n = walNumber /\ n # 0
  BY Numbers, Zenon
<1>3. tr \in Tracker
  BY <1>1, <1>2, AddType
<1>4. PICK p \in Seq(WalPeriod) : p = tracker.periods
  BY Numbers, Zenon
<1>5. PICK q : q = [wal |-> n, max |-> max]
  BY Zenon
<1>6. q \in WalPeriod /\ q.wal = n /\ q.max = max
  BY <1>5 DEF WalPeriod
<1>7. tr.periods = Append(p, q) /\ tr.snap = tracker.snap
  BY <1>1, <1>2, <1>4, <1>5, Zenon DEF AddWalPeriod, TypeInv, Tracker
<1>8. Len(tr.periods) = Len(p) + 1 /\ Len(p) \in Nat /\ tr.periods[Len(p) + 1] = q
      /\ \A i \in 1..Len(p) : tr.periods[i] = p[i]
  BY <1>6, <1>7
<1>9. Taken = Base /\ Base \in Nat /\ LastWal <= Base /\ LastWal \in Nat
  <2>1. Taken = Base
    BY Zenon DEF DurableInv, TrackInv
  <2> QED BY <2>1, BaseIs, Numbers, Zenon
<1>10. n - 1 - Len(p) = Base
  BY <1>2, <1>4, <1>9, Zenon DEF Taken
<1>11. Len(tr.periods) = n - Base
  BY <1>8, <1>9, <1>10
<1>12. ASSUME NEW i \in 1..Len(tr.periods)
       PROVE  /\ tr.periods[i].wal = Base + i /\ tr.periods[i].max \in Nat
              /\ \A u \in Begun \cup {v} : u.num = Base + i => tr.periods[i].max = u.max
  <2>1. CASE i = Len(p) + 1
    <3>1. tr.periods[i] = q
      BY <1>8, <2>1, Zenon
    <3>2. Len(p) \in Nat
      BY <1>8, Zenon
    <3>3. Base + i = n
      BY <1>2, <1>9, <1>10, <2>1, <3>2
    <3> QED BY <1>2, <1>6, <3>1, <3>3, Zenon
  <2>2. CASE i \in 1..Len(p)
    <3>1. tr.periods[i] = p[i]
      BY <1>8, <2>2, Zenon
    <3>2. p[i].wal = Base + i /\ \A u \in Begun : u.num = Base + i => p[i].max = u.max
      BY <1>4, <1>9, <2>2, Zenon DEF DurableInv, TrackInv
    <3>3. Base + i \in LastWal + 1 .. walNumber - 1 /\ Base + i # walNumber
      BY <1>2, <1>8, <1>9, <1>10, <2>2
    <3>4. PICK u \in Begun : u.num = Base + i
      BY <3>3, Zenon DEF DurableInv, FileInv
    <3>5. u.max \in Nat
      BY <3>4, Zenon DEF DurableInv, FileInv
    <3> QED BY <3>1, <3>2, <3>3, <3>4, <3>5, Zenon
  <2> QED BY <1>8, <2>1, <2>2
<1>13. Aligned(tr.periods, Base, Begun \cup {v})
  BY <1>12, Zenon DEF Aligned
<1>14. tr.periods # <<>>
  BY <1>8
<1> QED BY <1>1, <1>2, <1>3, <1>7, <1>9, <1>11, <1>13, <1>14, Zenon

LEMMA SettledGrows ==
  ASSUME NEW x \in Int, NEW F, NEW v, Settled(x, F),
         \A w \in F \cup {v} : w.num \in Int,
         \A w \in F : w.num < v.num,
         \A d \in v.snap : d.last \in Int /\ d.last > x
  PROVE  Settled(x, F \cup {v})
<1> SUFFICES ASSUME NEW w \in F \cup {v}, NEW d \in w.snap, w.num > x, d.last <= x
             PROVE  /\ ~ d.forced /\ w.num - x < 3 * SnapshotSize
                    /\ \A u \in F \cup {v} : u.num = x + 1 => u.max >= ChunkTime(w.max)
  BY Zenon DEF Settled
<1>1. w \in F
  OBVIOUS
<1>2. /\ ~ d.forced /\ w.num - x < 3 * SnapshotSize
      /\ \A u \in F : u.num = x + 1 => u.max >= ChunkTime(w.max)
  BY <1>1, Zenon DEF Settled
<1>3. v.num # x + 1
  BY <1>1
<1> QED BY <1>2, <1>3, Zenon

(* What a snapshot takes of aligned periods, in terms of the files. *)
LEMMA TakesMade ==
  ASSUME NEW p, Len(p) \in Nat, NEW x \in Nat, NEW F, Aligned(p, x, F), NEW v \in F,
         v.num \in Nat, v.num = x + Len(p), \A u \in F : u.num \in Nat,
         NEW k \in 1..Len(p), NEW d \in SnapshotDetails, Takes(p, k, d)
  PROVE  Made(v, d, x, F) /\ d.last = x + k
<1>1. d.last = x + k
  BY Zenon DEF Takes, Aligned
<1>2. ASSUME NEW u \in F, x < u.num, u.num <= d.last
      PROVE  ChunkTime(u.max) < d.marker /\ (~ d.forced => u.max < d.marker)
  <2>1. PICK i \in 1..k : u.num = x + i
    <3>1. u.num - x \in 1..k /\ u.num = x + (u.num - x)
      BY <1>1, <1>2
    <3> QED BY <3>1, Zenon
  <2>2. i \in 1..Len(p)
    OBVIOUS
  <2>3. p[i].max = u.max
    BY <2>1, <2>2, Zenon DEF Aligned
  <2> QED BY <2>1, <2>3, Zenon DEF Takes
<1>3. CASE d.forced
  <2>1. k = Len(p)
    BY <1>3, Zenon DEF Takes
  <2> QED BY <1>1, <1>2, <1>3, <2>1 DEF Made
<1>4. CASE ~ d.forced
  <2>1. /\ d.marker = ChunkTime(p[Len(p)].max) /\ k < Len(p)
        /\ PeriodsToSnapshotAfter <= Len(p) /\ Len(p) < 3 * SnapshotSize /\ p[k + 1].max >= d.marker
    BY <1>4, Zenon DEF Takes
  <2>2. p[Len(p)].max = v.max
    BY DEF Aligned
  <2>3. ASSUME NEW u \in F, u.num = d.last + 1 PROVE u.max >= d.marker
    <3>1. k + 1 \in 1..Len(p) /\ u.num = x + (k + 1)
      BY <1>1, <2>1, <2>3
    <3>2. p[k + 1].max = u.max
      BY <3>1, Zenon DEF Aligned
    <3> QED BY <2>1, <3>2, Zenon
  <2>4. d.last < v.num /\ x < d.last /\ d.last <= v.num /\ v.num - x = Len(p)
    BY <1>1, <2>1
  <2>5. PeriodsToSnapshotAfter <= v.num - x /\ v.num - x < 3 * SnapshotSize /\ d.marker = ChunkTime(v.max)
    BY <2>1, <2>2, <2>4, Zenon
  <2> QED BY <1>1, <1>2, <1>4, <2>3, <2>4, <2>5, Zenon DEF Made
<1> QED BY <1>1, <1>3, <1>4, Zenon

(* A snapshot taken with a new file v of aligned periods: what it leaves in the
   tracker, and that the snapshots of the files before stay as they are. *)
LEMMA SettledTaken ==
  ASSUME NEW x \in Nat, NEW F, NEW v, v \notin F, v.num \in Nat, \A u \in F : u.num \in Nat /\ u.num < v.num,
         \A u \in F \cup {v} : u.max \in Nat,
         x < v.num - 1 => \E u \in F : u.num = x + 1,
         Settled(x, F), \A w \in F : \A e \in w.snap : e.last \in Nat /\ e.last <= x,
         NEW d \in SnapshotDetails, v.snap = {d}, Made(v, d, x, F \cup {v})
  PROVE  Settled(d.last, F \cup {v})
<1>0. d.last \in Nat /\ d.marker \in Int /\ SnapshotSize \in Nat
  BY SnapshotSizeAssumption, Zenon DEF SnapshotDetails
<1>1. x < d.last /\ d.last <= v.num /\ (d.forced => d.last = v.num)
  BY Zenon DEF Made
<1> SUFFICES ASSUME NEW w \in F \cup {v}, NEW e \in w.snap, w.num > d.last, e.last <= d.last
             PROVE  /\ ~ e.forced /\ w.num - d.last < 3 * SnapshotSize
                    /\ \A u \in F \cup {v} : u.num = d.last + 1 => u.max >= ChunkTime(w.max)
  BY Zenon DEF Settled
<1>2. ~ d.forced
  BY <1>0, <1>1
<1>3. /\ d.marker = ChunkTime(v.max) /\ d.last < v.num
      /\ v.num - x < 3 * SnapshotSize
      /\ \A u \in F \cup {v} : x < u.num /\ u.num <= d.last => u.max < d.marker
      /\ \A u \in F \cup {v} : u.num = d.last + 1 => u.max >= d.marker
  BY <1>2, Zenon DEF Made
<1>4. CASE w = v
  <2>1. e = d
    BY <1>4, Zenon
  <2>2. v.num - d.last < 3 * SnapshotSize
    BY <1>0, <1>1, <1>3
  <2> QED BY <1>2, <1>3, <1>4, <2>1, <2>2, Zenon
<1>5. CASE w \in F
  <2>1. e.last <= x /\ w.num > x /\ w.num \in Nat
    BY <1>0, <1>1, <1>5
  <2>2. /\ ~ e.forced /\ w.num - x < 3 * SnapshotSize
        /\ \A u \in F : u.num = x + 1 => u.max >= ChunkTime(w.max)
    BY <1>5, <2>1, Zenon DEF Settled
  <2>3. PICK u \in F : u.num = x + 1
    BY <1>0, <1>1, <1>5
  <2>4. u.max < d.marker /\ u.max >= ChunkTime(w.max) /\ u.max \in Nat
    BY <1>0, <1>1, <1>3, <2>2, <2>3
  <2>5. w.num - d.last < 3 * SnapshotSize
    BY <1>0, <1>1, <2>1, <2>2
  <2>6. ChunkTime(w.max) \in Nat
    BY <1>5, ChunkTimeBelow, Zenon
  <2>7. ASSUME NEW y \in F \cup {v}, y.num = d.last + 1 PROVE y.max >= ChunkTime(w.max)
    <3>1. y.max >= d.marker /\ y.max \in Nat
      BY <1>3, <2>7, Zenon
    <3> QED BY <1>0, <2>4, <2>6, <3>1
  <2> QED BY <2>2, <2>5, <2>7, Zenon
<1> QED BY <1>4, <1>5, Zenon

LEMMA TakeDecision ==
  ASSUME TypeInv, NumberInv, DurableInv, status = "up", Flying = {}, NEW v \in WalFile,
         v.num = walNumber, v.max \in Nat, NEW force \in BOOLEAN, NEW s,
         s = Snapshot(AddWalPeriod(tracker, walNumber, v.max), force), v.snap = s.details
  PROVE  Decided(v, s.tracker)
<1>1. Begun = walFiles
  BY Zenon DEF Begun
<1>2. PICK n \in Nat : n = walNumber /\ n # 0
  BY Numbers, Zenon
<1>3. \A u \in Begun : u.num \in Nat /\ u.num < n /\ u.max \in Nat /\ \A e \in u.snap : e.last \in Nat
  <2>1. \A u \in Begun : u.num \in FileNumbers
    BY <1>1, Zenon DEF FileNumbers
  <2>2. \A u \in Begun : u.num < n
    BY <1>2, <2>1, Zenon DEF NumberInv
  <2>3. \A u \in Begun : u.max \in Nat
    BY Zenon DEF DurableInv, FileInv
  <2>4. \A u \in Begun : u \in WalFile
    BY Numbers, Zenon
  <2> QED BY <2>2, <2>3, <2>4, Numbers, Zenon
<1>4. PICK tr : tr = AddWalPeriod(tracker, walNumber, v.max)
  BY Zenon
<1>5. PICK x \in Nat : x = Base
  BY BaseIs, Zenon
<1>6. PICK G : G = Begun \cup {v}
  BY Zenon
<1>7. /\ tr \in Tracker /\ tr.snap = tracker.snap /\ tr.periods # <<>>
      /\ Len(tr.periods) = n - x /\ Aligned(tr.periods, x, G)
  <2>1. \A u \in Begun : u.num = walNumber => u = v
    BY <1>2, <1>3
  <2>2. LET t == AddWalPeriod(tracker, walNumber, v.max)
        IN /\ t \in Tracker /\ t.snap = tracker.snap /\ t.periods # <<>>
           /\ Len(t.periods) = walNumber - Base
           /\ Taken = Base
           /\ Aligned(t.periods, Base, Begun \cup {v})
    BY <2>1, PeriodsAligned, Zenon
  <2> QED BY <1>2, <1>4, <1>5, <1>6, <2>2, Zenon
<1>8. PICK p : p = tr.periods
  BY Zenon
<1>9. p \in Seq(WalPeriod) /\ Len(p) \in Nat /\ Len(p) = n - x /\ Len(p) > 0 /\ tr.snap \in Nat
  BY <1>7, <1>8 DEF Tracker
<1>10. \A i \in 1..Len(tr.periods) : tr.periods[i].max \in Nat
  BY <1>7, Zenon DEF Aligned
<1>11. Settled(x, Begun) /\ \A w \in Begun : \A e \in w.snap : e.last \in Nat /\ e.last <= x
  <2>1. status # "down" /\ status # "replay"
    BY Zenon
  <2>2. Settled(Base, Begun) /\ \A w \in walFiles : \A e \in w.snap : e.last <= Base
    BY <2>1, BaseIs, Zenon
  <2> QED BY <1>1, <1>3, <1>5, <2>2, Zenon
<1>12. v.num = n /\ v.num \in Nat /\ v \notin Begun /\ n > x
  BY <1>2, <1>3, <1>5, <1>9
<1>13. x < n - 1 => \E u \in Begun : u.num = x + 1
  <2>1. ASSUME x < n - 1 PROVE x + 1 \in LastWal + 1 .. walNumber - 1
    <3>1. LastWal \in Nat /\ LastWal <= x
      BY <1>5, BaseIs, Numbers, Zenon
    <3> QED BY <1>2, <2>1, <3>1
  <2> QED BY <2>1, Zenon DEF DurableInv, FileInv
<1>14. \/ s = Nothing(tr)
       \/ \E d, k : /\ s.details = {d} /\ d.seq = tr.snap + 1
                    /\ k \in 1..Len(tr.periods) /\ Takes(tr.periods, k, d)
                    /\ Left(tr, k, s.tracker)
  BY <1>4, <1>7, <1>10, SnapshotTakes, Zenon
<1>18. PICK L : L = s.tracker
  BY Zenon
<1> SUFFICES /\ n > x
             /\ \A d, e \in v.snap : d = e
             /\ v.snap = {} => L.snap = tracker.snap /\ n - Len(L.periods) = x
             /\ \A d \in v.snap : /\ n - Len(L.periods) = d.last /\ d.last > x
                                  /\ d.seq = tracker.snap + 1 /\ L.snap = d.seq
                                  /\ Made(v, d, x, G) /\ Settled(d.last, G)
             /\ \A i \in 1..Len(L.periods) :
                  /\ L.periods[i].wal = n - Len(L.periods) + i
                  /\ \A u \in G : u.num = n - Len(L.periods) + i => L.periods[i].max = u.max
             /\ \A y \in Nat : y <= x /\ Settled(y, Begun) => Settled(y, G)
  BY <1>2, <1>3, <1>5, <1>6, <1>18, Zenon DEF Decided
<1>15. ASSUME NEW y \in Nat, y <= x, Settled(y, Begun), \A e \in v.snap : e.last \in Int /\ e.last > x
       PROVE  Settled(y, G)
  <2>1. \A w \in Begun \cup {v} : w.num \in Int
    BY <1>3, <1>12
  <2>2. \A w \in Begun : w.num < v.num
    BY <1>3, <1>12, Zenon
  <2>3. \A e \in v.snap : e.last \in Int /\ e.last > y
    BY <1>15
  <2> QED BY <1>6, <1>15, <2>1, <2>2, <2>3, SettledGrows
<1>16. CASE s = Nothing(tr)
  <2>1. v.snap = {} /\ L = tr
    BY <1>16, <1>18 DEF Nothing
  <2>2. n - Len(p) = x
    BY <1>9
  <2>3. \A i \in 1..Len(p) : p[i].wal = x + i /\ \A u \in G : u.num = x + i => p[i].max = u.max
    BY <1>7, <1>8, Zenon DEF Aligned
  <2>4. \A y \in Nat : y <= x /\ Settled(y, Begun) => Settled(y, G)
    BY <1>15, <2>1, Zenon
  <2> QED BY <1>7, <1>8, <1>12, <2>1, <2>2, <2>3, <2>4, Zenon
<1>17. CASE \E d, k : /\ s.details = {d} /\ d.seq = tr.snap + 1
                      /\ k \in 1..Len(tr.periods) /\ Takes(tr.periods, k, d)
                      /\ Left(tr, k, s.tracker)
  <2>1. PICK d, k : /\ s.details = {d} /\ d.seq = tr.snap + 1
                    /\ k \in 1..Len(p) /\ Takes(p, k, d)
                    /\ Left(tr, k, s.tracker)
    BY <1>8, <1>17, Zenon
  <2>2. v.snap = {d} /\ d \in SnapshotDetails
    <3>1. v.snap \subseteq SnapshotDetails
      BY Zenon DEF WalFile
    <3> QED BY <2>1, <3>1, Zenon
  <2>3. Made(v, d, x, G) /\ d.last = x + k
    <3>1. Aligned(p, x, G) /\ v \in G /\ v.num = x + Len(p) /\ \A u \in G : u.num \in Nat
      BY <1>3, <1>6, <1>7, <1>8, <1>9, <1>12
    <3>2. Len(p) \in Nat /\ k \in 1..Len(p) /\ Takes(p, k, d)
      BY <1>9, <2>1, Zenon
    <3>3. x \in Nat /\ v.num \in Nat /\ d \in SnapshotDetails
      BY <1>5, <1>12, <2>2, Zenon
    <3> QED BY <3>1, <3>2, <3>3, TakesMade, Zenon
  <2>4. Settled(d.last, G)
    <3>1. /\ \A u \in Begun : u.num \in Nat /\ u.num < v.num
          /\ \A u \in Begun \cup {v} : u.max \in Nat
          /\ x < v.num - 1 => \E u \in Begun : u.num = x + 1
      BY <1>3, <1>12, <1>13, Zenon
    <3> QED BY <1>6, <1>11, <1>12, <2>2, <2>3, <3>1, SettledTaken, Zenon
  <2>6. /\ L.snap = tr.snap + 1 /\ Len(L.periods) = Len(p) - k
        /\ \A i \in 1..(Len(p) - k) : L.periods[i] = p[k + i]
    BY <1>8, <1>18, <2>1, Zenon DEF Left
  <2>7. n - Len(L.periods) = d.last /\ d.last > x /\ d.last \in Int /\ k \in Nat
    BY <1>9, <2>1, <2>3, <2>6
  <2>8. ASSUME NEW i \in 1..Len(L.periods)
        PROVE  L.periods[i].wal = d.last + i /\ \A u \in G : u.num = d.last + i => L.periods[i].max = u.max
    <3>1. k + i \in 1..Len(p) /\ x + (k + i) = d.last + i /\ L.periods[i] = p[k + i]
      BY <1>9, <2>1, <2>3, <2>6
    <3>2. p[k + i].wal = x + (k + i) /\ \A u \in G : u.num = x + (k + i) => p[k + i].max = u.max
      BY <1>7, <1>8, <3>1, Zenon DEF Aligned
    <3> QED BY <3>1, <3>2, ZenonT(30)
  <2>9. \A y \in Nat : y <= x /\ Settled(y, Begun) => Settled(y, G)
    BY <1>15, <2>2, <2>7, Zenon
  <2>10. \A e \in v.snap : e = d
    BY <2>2, Zenon
  <2>11. d.seq = tracker.snap + 1 /\ L.snap = d.seq /\ v.snap # {}
    BY <1>7, <2>1, <2>2, <2>6, Zenon
  <2> QED BY <1>12, <2>3, <2>4, <2>7, <2>8, <2>9, <2>10, <2>11, Zenon
<1> QED BY <1>14, <1>16, <1>17, Zenon

LEMMA StepTake ==
  ASSUME DurableWhen, TypeInv, NumberInv, DurableInv, TypeInv', NEW f \in Flushers, FlushTake(f)
  PROVE  DurableInv'
<1>1. /\ UNCHANGED <<walFiles, parquet, manifests, status, todo, highWater, buffer, snapshotting, files, task,
                     compaction, compactions, acked>>
      /\ status = "up" /\ pc[f] = "idle" /\ walNumber' = walNumber + 1
  BY Zenon DEF FlushTake, objects, start, queryable, record
<1>2. PICK max : max = IF pending = {} THEN NoopTime + 1 ELSE Highest({TimeOf[r] : r \in pending})
  BY Zenon
<1>3. max \in Nat /\ \A r \in pending : TimeOf[r] <= max
  <2>1. CASE pending = {}
    BY <1>2, <2>1, TimesAssumption
  <2>2. CASE pending # {}
    <3> DEFINE S == {TimeOf[r] : r \in pending}
    <3>1. \A r \in pending : TimeOf[r] \in Nat
      BY Zenon DEF DurableWhen, TypeInv
    <3>2. PICK b \in Int : \A r \in pending : TimeOf[r] <= b
      BY Zenon DEF TypeInv
    <3>3. S \in SUBSET Int /\ S # {} /\ (\A y \in S : y <= b) /\ (\A y \in S : y \in Nat) /\ \A r \in pending : TimeOf[r] \in S
      BY <2>2, <3>1, <3>2
    <3>4. max = Highest(S)
      BY <1>2, <2>2, Zenon
    <3> HIDE DEF S
    <3>5. Highest(S) \in S /\ \A y \in S : y <= Highest(S)
      BY <3>2, <3>3, HighestIs, Zenon
    <3> QED BY <3>3, <3>4, <3>5, Zenon
  <2> QED BY <2>1, <2>2, Zenon
<1>4. PICK s : s = Snapshot(AddWalPeriod(tracker, walNumber, max), f = "forced")
  BY Zenon
<1>5. PICK v : v = [num |-> walNumber, rows |-> pending, max |-> max, snap |-> s.details]
  BY Zenon
<1>6. v.num = walNumber /\ v.rows = pending /\ v.max = max /\ v.snap = s.details
  BY <1>5, Zenon
<1>7. /\ tracker' = s.tracker /\ inflight' = [inflight EXCEPT ![f] = v]
      /\ pc' = [pc EXCEPT ![f] = IF s.details = {} \/ permit THEN "put" ELSE "permit"]
      /\ permit' = (permit /\ s.details = {})
  BY <1>2, <1>4, <1>5, Zenon DEF FlushTake
<1>8. inflight'[f] = v /\ pc'[f] = IF v.snap = {} \/ permit THEN "put" ELSE "permit"
  BY <1>6, <1>7, Zenon DEF TypeInv
<1>9. \A g \in Flushers : g = f
  BY Zenon DEF DurableWhen
<1>10. Flying = {} /\ Begun = walFiles
  <2>1. Flying = {}
    BY <1>1, OneFlying, Zenon
  <2> QED BY <2>1, Zenon DEF Begun
<1>11. Flying' = {v}
  <2>1. pc'[f] # "idle"
    BY <1>8, Zenon
  <2> QED BY <1>8, <1>9, <2>1, Zenon DEF Flying
<1>12. Begun' = Begun \cup {v} /\ FileNumbers' = FileNumbers
  BY <1>1, <1>10, <1>11, Zenon DEF Begun, FileNumbers
<1>13. v \in WalFile
  <2>1. walNumber \in Nat \ {0}
    BY Numbers, Zenon
  <2>2. v # NoFile
    BY <1>6, <2>1 DEF NoFile
  <2>3. v \in WalFile \cup {NoFile}
    BY <1>8, Zenon DEF TypeInv
  <2> QED BY <2>2, <2>3, Zenon
<1>14. LastWal' = LastWal /\ LastSnapshot' = LastSnapshot /\ ManifestPaths' = ManifestPaths
  BY <1>1, SameManifests, Zenon
<1>15. Persisting' = Persisting /\ Written' = Written /\ Stored' = Stored
  BY <1>1, <1>14, Zenon DEF Persisting, Written, Stored, RowsAt
<1>16. Base' = Base
  <2>1. CASE Persisting
    BY <1>1, <1>15, <2>1 DEF Base
  <2>2. CASE ~ Persisting
    BY <1>14, <1>15, <2>2, Zenon DEF Base
  <2> QED BY <2>1, <2>2, Zenon
<1>17. PICK n \in Nat : n = walNumber /\ n # 0
  BY Numbers, Zenon
<1>18. PICK x \in Nat : x = Base /\ LastWal \in Nat /\ LastWal <= x
  BY <1>1, BaseIs, Numbers, Zenon
<1>19. PICK L : L = s.tracker
  BY Zenon
<1>20. Len(L.periods) \in Nat
  BY <1>7, <1>19 DEF TypeInv, Tracker
<1>21. Taken' = n - Len(L.periods)
  BY <1>1, <1>7, <1>17, <1>19, <1>20 DEF Taken
<1>22. (f = "forced") \in BOOLEAN /\ s = Snapshot(AddWalPeriod(tracker, walNumber, v.max), f = "forced") /\ v.max \in Nat
  BY <1>3, <1>4, <1>6, Zenon
<1>23. /\ n > x /\ \A u \in Begun : u.num < n
       /\ \A d, e \in v.snap : d = e
       /\ v.snap = {} => L.snap = tracker.snap /\ Taken' = x
       /\ \A d \in v.snap : /\ Taken' = d.last /\ d.last > x
                            /\ d.seq = tracker.snap + 1 /\ L.snap = d.seq
                            /\ Made(v, d, x, Begun') /\ Settled(d.last, Begun')
       /\ \A i \in 1..Len(L.periods) :
            L.periods[i].wal = Taken' + i /\ \A u \in Begun' : u.num = Taken' + i => L.periods[i].max = u.max
       /\ \A y \in Nat : y <= x /\ Settled(y, Begun) => Settled(y, Begun')
  <2>1. v.num = walNumber /\ v.snap = s.details /\ status = "up"
    BY <1>1, <1>6, Zenon
  <2>2. Decided(v, s.tracker)
    <3>1. PICK force \in BOOLEAN : force = (f = "forced")
      BY Zenon
    <3>2. s = Snapshot(AddWalPeriod(tracker, walNumber, v.max), force)
      BY <1>22, <3>1, Zenon
    <3>3. v.max \in Nat
      BY <1>22, Zenon
    <3>4. force \in BOOLEAN
      BY <3>1, Zenon
    <3> QED BY <1>10, <1>13, <2>1, <3>2, <3>3, <3>4, TakeDecision, Zenon
  <2>3. n = walNumber /\ x = Base /\ L = s.tracker /\ Begun' = Begun \cup {v} /\ Taken' = n - Len(L.periods)
    BY <1>12, <1>17, <1>18, <1>19, <1>21, Zenon
  <2> QED BY <2>2, <2>3, Zenon DEF Decided
<1>24. CalmInv' /\ ManifestInv'
  BY <1>1, <1>14, Zenon DEF DurableInv, CalmInv, ManifestInv
<1>25. FileInv'
  <2>1. \A u \in Begun : u.num # v.num
    BY <1>6, <1>13, <1>17, <1>23, Numbers
  <2>2. \A u, w \in Begun' : u.num = w.num => u = w
    BY <1>12, <2>1, Zenon DEF DurableInv, FileInv
  <2>3. \A w \in Begun' : \A d, e \in w.snap : d = e
    BY <1>12, <1>23, Zenon DEF DurableInv, FileInv
  <2>4. \A w \in Begun' : w.max \in Nat /\ \A r \in w.rows : TimeOf[r] <= w.max
    BY <1>3, <1>6, <1>12, ZenonT(30) DEF DurableInv, FileInv
  <2>5. v.num > LastWal /\ v.num = walNumber' - 1
    BY <1>1, <1>6, <1>17, <1>18, <1>23
  <2>6. ASSUME NEW k \in LastWal + 1 .. walNumber' - 1 PROVE \E w \in Begun' : w.num = k
    <3>1. CASE k = n
      BY <1>6, <1>12, <1>17, <3>1, Zenon
    <3>2. CASE k # n
      <4>1. k \in LastWal + 1 .. walNumber - 1
        BY <1>1, <1>17, <1>18, <2>6, <3>2
      <4> QED BY <1>1, <1>12, <4>1, Zenon DEF DurableInv, FileInv
    <3> QED BY <3>1, <3>2, Zenon
  <2> QED BY <1>1, <1>11, <1>12, <1>14, <2>2, <2>3, <2>4, <2>5, <2>6, Zenon DEF DurableInv, FileInv
<1>26. SeqInv'
  <2>1. tracker.snap = LastSnapshot + IF Persisting THEN 1 ELSE 0
    BY <1>1, <1>10, Zenon DEF DurableInv, SeqInv
  <2>2. ASSUME NEW w \in walFiles, NEW d \in w.snap, Unfinished(d) PROVE Persisting /\ d \in task.details
    BY <1>1, <1>10, <2>2, Zenon DEF DurableInv, SeqInv
  <2>3. /\ \A w \in walFiles : \A d \in w.snap : w.num > LastWal =>
             IF Unfinished(d) THEN d.seq = LastSnapshot + 1 ELSE d.seq <= LastSnapshot
        /\ \A u, w \in walFiles : \A d \in u.snap : \A e \in w.snap :
             Unfinished(d) /\ Unfinished(e) => u = w
    BY Zenon DEF DurableInv, SeqInv
  <2>4. tracker'.snap = L.snap
    BY <1>7, <1>19, Zenon
  <2> QED BY <1>1, <1>11, <1>14, <1>15, <1>23, <2>1, <2>2, <2>3, <2>4, ZenonT(30) DEF SeqInv, Unfinished
<1>27. TrackInv'
  <2>1. Settled(LastWal, Begun')
    BY <1>18, <1>23, Zenon DEF DurableInv, TrackInv
  <2>2. ASSUME NEW w \in Begun', NEW d \in w.snap, Unfinished(d) PROVE Settled(d.last, Begun')
    <3>1. CASE w = v
      BY <1>23, <3>1, Zenon
    <3>2. CASE w \in Begun
      <4>1. d.last <= Base
        BY <1>1, <1>10, <3>2, BaseIs, Zenon
      <4>2. d.last \in Nat
        BY <1>10, <3>2, Numbers, Zenon
      <4>3. Settled(d.last, Begun)
        BY <2>2, <3>2, Zenon DEF DurableInv, TrackInv
      <4> QED BY <1>18, <1>23, <4>1, <4>2, <4>3, Zenon
    <3> QED BY <1>12, <3>1, <3>2, Zenon
  <2>3. \A w \in walFiles : \A d \in w.snap : Unfinished(d) => Made(w, d, LastWal, walFiles)
    BY Zenon DEF DurableInv, TrackInv
  <2>4. \A w \in Flying' : w.num > Base'
    BY <1>6, <1>11, <1>16, <1>17, <1>18, <1>23, Zenon
  <2>5. tracker'.periods = L.periods
    BY <1>7, <1>19, Zenon
  <2> QED BY <1>1, <1>11, <1>14, <1>16, <1>18, <1>23, <2>1, <2>2, <2>3, <2>4, <2>5, Zenon DEF TrackInv, Unfinished
<1>28. TaskInv'
  <2>1. \A w \in walFiles : w \notin Flying' /\ w.num < walNumber'
    <3>1. \A w \in walFiles : w.num < n /\ w.num \in Nat
      BY <1>10, <1>23, Numbers, Zenon
    <3> QED BY <1>1, <1>6, <1>11, <1>17, <3>1
  <2>2. Persisting =>
          \E d \in task.details :
            /\ task.details = {d} /\ \E w \in walFiles : w \notin Flying' /\ d \in w.snap /\ w.num < walNumber'
            /\ Unfinished(d)
            /\ \E c \in task.cleanup : task.cleanup = {c} /\ c.last = d.last
            /\ \A p \in task.paths : p[2] = d.last /\ p[1] \notin task.jobs
    BY <2>1, Zenon DEF DurableInv, TaskInv
  <2>3. /\ task.phase = "none" => task = NoTask
        /\ task.phase \in {"cleanup", "delete"} =>
           /\ \A c \in task.cleanup : c.last <= LastWal
           /\ \A m \in task.doomed : m < LastWal
        /\ permit => task.phase = "none"
    BY Zenon DEF DurableInv, TaskInv
  <2>4. permit' => permit
    BY <1>7, Zenon
  <2>5. pc'[f] = "put" /\ inflight'[f].snap # {} => ~ permit' /\ task.phase = "none"
    <3>1. CASE permit /\ v.snap # {}
      BY <1>6, <1>7, <2>3, <3>1, Zenon
    <3>2. CASE ~ permit \/ v.snap = {}
      BY <1>8, <3>2, Zenon
    <3> QED BY <3>1, <3>2, Zenon
  <2>6. pc'[f] = "permit" => inflight'[f].snap # {}
    BY <1>8, Zenon
  <2>7. pc'[f] # "notify"
    BY <1>8, Zenon
  <2> QED BY <1>1, <1>9, <1>14, <1>15, <2>2, <2>3, <2>4, <2>5, <2>6, <2>7, Zenon DEF TaskInv, Unfinished
<1>29. DataInv'
  <2>1. \A w \in walFiles \ Flying' : w \in walFiles \ Flying /\ w.num < walNumber
    BY <1>10, <1>17, <1>23, Zenon
  <2> QED BY <1>1, <1>14, <1>15, <1>16, <2>1, Zenon DEF DurableInv, DataInv, RowChunk
<1>30. Durable' /\ Queryable'
  BY <1>1, <1>14, Zenon DEF DurableInv, Durable, Recoverable, Queryable, RowsAt
<1> QED BY <1>24, <1>25, <1>26, <1>27, <1>28, <1>29, <1>30, Zenon DEF DurableInv
=============================================================================
