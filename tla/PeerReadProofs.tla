--------------------------- MODULE PeerReadProofs ---------------------------
(***************************************************************************)
(* The proof that a query over a peer's rows misses none (Complete of      *)
(* PeerRead), for any rows, chunks, compactions and queries.               *)
(*                                                                         *)
(* What makes it true is an order: ids are given out and manifests numbered *)
(* and published so that whatever has an id no higher than one that the    *)
(* reader's index holds has its rows in manifests the index has folded in. *)
(***************************************************************************)
EXTENDS PeerRead, NumberLemmas

(* The rows of a set of files, and the rows some manifests ever added. *)
RowIn(r, F) == \E f \in F : r \in f.rows
RowAdded(r, M) == \E m \in M : RowIn(r, m.added)

(* The manifests the reader's index will have folded in when it has caught
   up: those below a drained one that came too late never get there.       *)
Drainable == drained \cup Undrained(manifests, drained)
Upto(p) == {m \in Drainable : m.seq <= p}
Below(p) == {m \in Drainable : m.seq < p}

Known == files \cup writing \cup {c.merged : c \in comp}
AllFiles == Known \cup (UNION {s.added : s \in snap}) \cup (UNION {m.added : m \in manifests})
Covered(f, M) == \A r \in f.rows : RowAdded(r, M)

BufferInv ==
  /\ time \in Seq(Times) /\ open \subseteq Rows /\ late \subseteq Rows
  /\ \A c \in frozen : c \subseteq Rows \ open
  /\ \A f \in writing : f.rows \in frozen
  /\ \A f, g \in writing : f.rows = g.rows => f = g
  /\ Rows \subseteq open \cup (UNION frozen) \cup RowsOf(files)

FileInv ==
  /\ nextId \in Nat
  /\ \A f \in AllFiles : f.id \in 0..(nextId - 1) /\ f.rows \subseteq Rows \ open
  /\ \A f, g \in AllFiles : f.id = g.id => f = g

ManifestInv ==
  /\ nextSeq \in Nat \ {0}
  /\ \A m \in manifests : m.seq \in 1..(nextSeq - 1)
  /\ \A m \in manifests : RowsOf(m.removed) \subseteq RowsOf(m.added)
  /\ drained \subseteq manifests /\ pos \in 0..LastSeq(drained)

(* One snapshot at a time, with a number of its own above those the publisher
   has reached: a compaction's manifest may be stored before the snapshot's,
   and is not published before it.                                         *)
SnapInv ==
  /\ snap = {} => frozen = {}
  /\ \A s, t \in snap : s = t
  /\ \A s \in snap : s = [seq |-> s.seq, added |-> s.added]
  /\ \A s \in snap : s.seq \in 1..(nextSeq - 1)
  /\ \A s \in snap : \A m \in drained : m.seq < s.seq
  /\ \A s \in snap : \A m \in manifests : m.seq # s.seq
  /\ \A s \in snap : \A c \in comp : c.stage = "persist" => c.seq # s.seq

(* The number a compaction has, or will have at the least. *)
Bound(c) == IF c.stage = "persist" THEN c.seq ELSE nextSeq

(* One compaction at a time.  Its rows, and those of every file with an id below
   its own, are in manifests below its number, or in a snapshot below it.  *)
CompInv ==
  /\ \A c, d \in comp : c = d
  /\ \A c \in comp :
       /\ c = [stage |-> c.stage, merged |-> c.merged, inputs |-> c.inputs, seq |-> c.seq]
       /\ Bound(c) \in 1..nextSeq /\ (c.stage = "persist" => c.seq < nextSeq)
       /\ c.merged.rows = RowsOf(c.inputs) /\ c.merged \notin c.inputs
       /\ Covered(c.merged, Below(Bound(c)))
       /\ \A f \in Known : f.id < c.merged.id =>
            \/ Covered(f, Below(Bound(c)))
            \/ \E s \in snap : s.seq < Bound(c) /\ f \in s.added \cup writing

(* A file of the peer is in manifests, or is one of the snapshot under way: its
   rows do not depend on a manifest that has overtaken the snapshot's.     *)
StoredInv ==
  /\ snap = {} => \A f \in Known : Covered(f, Drainable)
  /\ \A s \in snap : \A f \in Known : Covered(f, Below(s.seq)) \/ f \in s.added \cup writing

(* The order of ids follows the order of manifests, once the snapshot that is
   overtaken has its own.                                                  *)
OrderInv ==
  \A m \in Drainable : \A g \in m.added : \A f \in Known : f.id <= g.id =>
    \/ Covered(f, Upto(m.seq))
    \/ \E s \in snap : s.seq < m.seq /\ f \in s.added \cup writing

(* A row that is not late was taken no later than any row as new as it.    *)
Older(r, s) == r \in Rows \ late /\ time[r] <= time[s]
LateInv ==
  /\ \A s \in Rows \ open : \A r \in Rows : Older(r, s) => r \notin open
  /\ \A m \in Drainable : \A s \in RowsOf(m.added) : \A r \in Rows :
       Older(r, s) => RowAdded(r, Upto(m.seq))

QueryInv ==
  /\ q = Query(q.pc, q.upper, q.skip, q.since, q.missing)
  /\ q.pc \in {"ticket", "plan", "fetch", "done"} /\ q.skip \in BOOLEAN
  /\ q.missing \subseteq Rows
  /\ q.pc \in {"ticket", "plan"} => q.missing \subseteq Within(q.upper)
  /\ q.pc \in {"ticket", "fetch"} => ~q.skip
  /\ q.pc = "plan" /\ q.skip => \A r \in q.missing : r \in late \/ RowAdded(r, Replayed)
  /\ q.pc \in {"plan", "fetch"} /\ ~q.skip => q.since \in Int /\ q.since < nextId
  /\ q.pc = "plan" /\ ~q.skip => \A f \in Known : f.id <= q.since => Covered(f, Replayed)
  /\ q.pc = "fetch" => \A f \in Known : f.id <= q.since => f.rows \cap q.missing = {}
  /\ Complete

Inv ==
  /\ BufferInv /\ FileInv /\ ManifestInv /\ SnapInv /\ CompInv /\ StoredInv
  /\ OrderInv /\ LateInv /\ QueryInv

-----------------------------------------------------------------------------
(* The manifests and what the index makes of them                          *)

(* The newest number of some manifests, all of them below a bound. *)
LEMMA LastSeqIs ==
  ASSUME NEW M, NEW b \in Nat, \A m \in M : m.seq \in 0..b
  PROVE  /\ LastSeq(M) \in 0..b /\ \A m \in M : m.seq <= LastSeq(M)
         /\ LastSeq(M) = 0 \/ \E m \in M : m.seq = LastSeq(M)
<1>1. PICK S : S = {m.seq : m \in M} \cup {0}
  BY Zenon
<1>2. PICK n : n = LastSeq(M)
  BY Zenon
<1>3. n = Max(S)
  BY <1>1, <1>2, Zenon DEF LastSeq
<1>4. /\ n \in 0..b /\ \A m \in M : m.seq <= n
      /\ n = 0 \/ \E m \in M : m.seq = n
  BY <1>1, <1>3, LastNumber, Zenon
<1> QED BY <1>2, <1>4, Zenon

(* Manifests that put back the rows of what they remove lose none in the fold,
   however often a file was replaced: the last one to add the row has it.  *)
LEMMA ViewKeepsRows ==
  ASSUME NEW M, NEW b \in Nat, \A m \in M : m.seq \in 0..b,
         NEW r, \A m \in M : RowIn(r, m.removed) => RowIn(r, m.added)
  PROVE  RowAdded(r, M) <=> RowIn(r, View(M))
<1>1. RowIn(r, View(M)) => RowAdded(r, M)
  BY DEF RowIn, RowAdded, View
<1>2. ASSUME RowAdded(r, M) PROVE RowIn(r, View(M))
  <2> DEFINE A == {m \in M : RowIn(r, m.added)}
  <2>1. A # {} /\ \A m \in A : m.seq \in 0..b
    BY <1>2 DEF RowAdded
  <2>2. PICK m \in A : \A l \in A : l.seq <= m.seq
    <3> DEFINE S == {m.seq : m \in A}
    <3>1. S \in SUBSET Int /\ S # {} /\ b \in Int /\ \A x \in S : x <= b
      BY <2>1
    <3> HIDE DEF S
    <3>2. Max(S) \in S /\ \A x \in S : x <= Max(S)
      BY <3>1, MaxExists
    <3> QED BY <3>2 DEF S
  <2>3. PICK f \in m.added : r \in f.rows
    BY <2>2 DEF RowIn
  <2>4. ASSUME NEW l \in M, l.seq > m.seq, f \in l.removed PROVE FALSE
    <3>1. l \in A
      BY <2>3, <2>4 DEF RowIn
    <3> QED BY <2>1, <2>2, <2>4, <3>1
  <2> QED BY <2>2, <2>3, <2>4 DEF RowIn, View
<1> QED BY <1>1, <1>2

LEMMA Rows_RowIn ==
  \A r, F : r \in RowsOf(F) <=> RowIn(r, F)
BY Zenon DEF RowsOf, RowIn

LEMMA AddedMonotone ==
  ASSUME NEW M, NEW N, M \subseteq N
  PROVE  (\A r : RowAdded(r, M) => RowAdded(r, N)) /\ \A f : Covered(f, M) => Covered(f, N)
BY Zenon DEF RowAdded, Covered

(* Numbers of the manifests that are drained, or can be. *)
LEMMA DrainedNumbers ==
  ASSUME ManifestInv
  PROVE  /\ LastSeq(drained) \in Nat /\ pos \in Nat /\ pos <= LastSeq(drained)
         /\ \A m \in drained : m.seq <= LastSeq(drained)
         /\ LastSeq(drained) = 0 \/ \E m \in drained : m.seq = LastSeq(drained)
         /\ Drainable \subseteq manifests
         /\ \A m \in manifests : m.seq \in Nat /\ m.seq > 0 /\ m.seq < nextSeq
         /\ Replayed = Upto(pos)
<1>1. nextSeq \in Nat /\ nextSeq - 1 \in Nat /\ \A m \in drained : m.seq \in 0..(nextSeq - 1)
  BY DEF ManifestInv
<1>2. /\ LastSeq(drained) \in 0..(nextSeq - 1) /\ \A m \in drained : m.seq <= LastSeq(drained)
      /\ LastSeq(drained) = 0 \/ \E m \in drained : m.seq = LastSeq(drained)
  BY <1>1, LastSeqIs, Zenon
<1>3. pos \in 0..LastSeq(drained)
  BY Zenon DEF ManifestInv
<1>4. Drainable \subseteq manifests
  BY Zenon DEF ManifestInv, Drainable, Undrained
<1>5. \A m \in manifests : m.seq \in Nat /\ m.seq > 0 /\ m.seq < nextSeq
  BY <1>1 DEF ManifestInv
<1>6. ASSUME NEW m PROVE m \in Replayed <=> m \in Upto(pos)
  <2>1. CASE m \in drained
    BY <2>1, Zenon DEF Replayed, Upto, Drainable
  <2>2. CASE m \in Undrained(manifests, drained)
    <3>1. m.seq > LastSeq(drained) /\ m \in manifests
      BY <2>2, Zenon DEF Undrained
    <3>2. ~(m.seq <= pos)
      BY <1>2, <1>3, <1>5, <3>1
    <3> QED BY <3>2, Zenon DEF Replayed, Upto
  <2> QED BY <2>1, <2>2, Zenon DEF Replayed, Upto, Drainable
<1>7. Replayed = Upto(pos)
  BY <1>6, Zenon DEF Replayed, Upto
<1> QED BY <1>1, <1>2, <1>3, <1>4, <1>5, <1>7

(* The files of the index hold every row its manifests have added. *)
LEMMA IndexRows ==
  ASSUME ManifestInv, NEW r
  PROVE  RowAdded(r, Replayed) <=> r \in RowsOf(Index)
<1>1. nextSeq \in Nat /\ \A m \in Replayed : m.seq \in 0..nextSeq
  BY DEF ManifestInv, Replayed
<1>2. \A m \in Replayed : RowIn(r, m.removed) => RowIn(r, m.added)
  BY Rows_RowIn, Zenon DEF ManifestInv, Replayed
<1>3. RowAdded(r, Replayed) <=> RowIn(r, View(Replayed))
  BY <1>1, <1>2, ViewKeepsRows, Zenon
<1> QED BY <1>3, Rows_RowIn, Zenon DEF Index

(* Publishing changes nothing about what can be drained. *)
LEMMA PublishDrains ==
  ASSUME ManifestInv, UNCHANGED manifests, drained' = Drainable
  PROVE  Drainable' = Drainable /\ LastSeq(drained)' >= LastSeq(drained) /\ LastSeq(drained)' \in Nat
<1>1. /\ LastSeq(drained) \in Nat /\ \A m \in drained : m.seq <= LastSeq(drained)
      /\ LastSeq(drained) = 0 \/ \E m \in drained : m.seq = LastSeq(drained)
      /\ Drainable \subseteq manifests
  BY DrainedNumbers, Zenon
<1>2. nextSeq \in Nat /\ \A m \in Drainable : m.seq \in 0..nextSeq
  BY <1>1 DEF ManifestInv
<1>3. /\ LastSeq(Drainable) \in 0..nextSeq /\ \A m \in Drainable : m.seq <= LastSeq(Drainable)
  BY <1>2, LastSeqIs, Zenon
<1>4. LastSeq(Drainable) >= LastSeq(drained)
  <2>1. drained \subseteq Drainable
    BY Zenon DEF Drainable
  <2> QED BY <1>1, <1>2, <1>3, <2>1
<1>5. ASSUME NEW m \in manifests, m.seq > LastSeq(Drainable) PROVE m \in Drainable
  <2>1. m.seq > LastSeq(drained)
    BY <1>1, <1>3, <1>4, <1>5 DEF ManifestInv
  <2> QED BY <2>1, Zenon DEF Drainable, Undrained
<1>6. Undrained(manifests, Drainable) \subseteq Drainable
  BY <1>5, Zenon DEF Undrained
<1>7. Drainable' = Drainable \cup Undrained(manifests, Drainable)
  BY Zenon DEF Drainable
<1> QED BY <1>3, <1>4, <1>6, <1>7

(* A manifest that is stored can be drained unless one above it has been. *)
LEMMA StoredManifest ==
  ASSUME NEW m, manifests' = manifests \cup {m}, UNCHANGED drained
  PROVE  /\ Drainable \subseteq Drainable' /\ Drainable' \subseteq Drainable \cup {m}
         /\ m.seq > LastSeq(drained) => m \in Drainable'
BY Zenon DEF Drainable, Undrained

(* The files there are. *)
LEMMA InAllFiles ==
  /\ Known \subseteq AllFiles
  /\ \A s \in snap : s.added \subseteq AllFiles
  /\ \A m \in manifests : m.added \subseteq AllFiles
<1>1. \A s \in snap : s.added \subseteq UNION {t.added : t \in snap}
  BY Zenon
<1>2. \A m \in manifests : m.added \subseteq UNION {l.added : l \in manifests}
  BY Zenon
<1> QED BY <1>1, <1>2, Zenon DEF AllFiles

LEMMA AddedFiles ==
  ASSUME FileInv, ManifestInv, NEW m \in Drainable, NEW g \in m.added
  PROVE  g \in AllFiles /\ g.id \in Nat /\ g.id < nextId /\ g.rows \subseteq Rows \ open
<1>1. g \in AllFiles
  BY DrainedNumbers, InAllFiles, Zenon
<1> QED BY <1>1 DEF FileInv

(* A new file has a number above those of every manifest's. *)
LEMMA OrderKept ==
  ASSUME FileInv, ManifestInv, OrderInv, Drainable' = Drainable,
         \A f \in Known' : f \in Known \/ f.id = nextId,
         \A s \in snap : \A f \in s.added \cup writing :
           \E t \in snap' : t.seq = s.seq /\ f \in t.added \cup writing'
  PROVE  OrderInv'
<1> SUFFICES ASSUME NEW m \in Drainable, NEW g \in m.added, NEW f \in Known', f.id <= g.id
             PROVE  \/ Covered(f, Upto(m.seq)')
                    \/ \E s \in snap' : s.seq < m.seq /\ f \in s.added \cup writing'
  BY Zenon DEF OrderInv
<1>1. f \in Known
  BY AddedFiles DEF FileInv
<1>2. CASE Covered(f, Upto(m.seq))
  BY <1>2, Zenon DEF Upto
<1>3. ASSUME NEW s \in snap, s.seq < m.seq, f \in s.added \cup writing
      PROVE  \E t \in snap' : t.seq < m.seq /\ f \in t.added \cup writing'
  BY <1>3, Zenon
<1> QED BY <1>1, <1>2, <1>3, Zenon DEF OrderInv

(* A compaction under way keeps what it needs when numbers and manifests grow,
   new files have new ids, and the files of a snapshot stay in it or are in
   its manifest.                                                           *)
LEMMA CompKept ==
  ASSUME FileInv, ManifestInv, CompInv, UNCHANGED comp,
         nextSeq' \in Nat, nextSeq <= nextSeq', Drainable \subseteq Drainable',
         Drainable' \subseteq manifests', \A m \in manifests' : m.seq \in Nat,
         \A f \in Known' : f \in Known \/ f.id = nextId,
         \A s \in snap : s.seq \in Nat /\ \A f \in s.added \cup writing :
           \/ \E t \in snap' : t.seq = s.seq /\ f \in t.added \cup writing'
           \/ \E m \in Drainable' : m.seq = s.seq /\ f \in m.added
  PROVE  CompInv'
<1>1. \A c, d \in comp' : c = d
  BY Zenon DEF CompInv
<1> SUFFICES ASSUME NEW c \in comp
             PROVE  /\ c = [stage |-> c.stage, merged |-> c.merged, inputs |-> c.inputs, seq |-> c.seq]
                    /\ Bound(c)' \in 1..nextSeq' /\ (c.stage = "persist" => c.seq < nextSeq')
                    /\ c.merged.rows = RowsOf(c.inputs) /\ c.merged \notin c.inputs
                    /\ Covered(c.merged, Below(Bound(c))')
                    /\ \A f \in Known' : f.id < c.merged.id =>
                         \/ Covered(f, Below(Bound(c))')
                         \/ \E s \in snap' : s.seq < Bound(c)' /\ f \in s.added \cup writing'
  BY <1>1, Zenon DEF CompInv
<1>2. /\ c = [stage |-> c.stage, merged |-> c.merged, inputs |-> c.inputs, seq |-> c.seq]
      /\ Bound(c) \in 1..nextSeq /\ (c.stage = "persist" => c.seq < nextSeq)
      /\ c.merged.rows = RowsOf(c.inputs) /\ c.merged \notin c.inputs
      /\ Covered(c.merged, Below(Bound(c)))
  BY Zenon DEF CompInv
<1>3. nextSeq \in Nat
  BY Zenon DEF ManifestInv
<1>4. /\ Bound(c)' \in 1..nextSeq' /\ (c.stage = "persist" => c.seq < nextSeq')
      /\ Bound(c) <= Bound(c)'
  BY <1>2, <1>3 DEF Bound
<1>5. Below(Bound(c)) \subseteq Below(Bound(c))'
  <2> SUFFICES ASSUME NEW m \in Drainable, m.seq < Bound(c) PROVE m.seq < Bound(c)'
    BY Zenon DEF Below
  <2>1. m.seq \in Nat
    BY Zenon
  <2> QED BY <1>2, <1>4, <2>1
<1>6. Covered(c.merged, Below(Bound(c))')
  BY <1>2, <1>5, AddedMonotone, Zenon
<1>7. ASSUME NEW f \in Known', f.id < c.merged.id
      PROVE  \/ Covered(f, Below(Bound(c))')
             \/ \E s \in snap' : s.seq < Bound(c)' /\ f \in s.added \cup writing'
  <2>1. c.merged \in AllFiles
    BY InAllFiles, Zenon DEF Known
  <2>2. f \in Known
    BY <1>7, <2>1 DEF FileInv
  <2>3. CASE Covered(f, Below(Bound(c)))
    BY <1>5, <2>3, AddedMonotone, Zenon
  <2>4. ASSUME NEW s \in snap, s.seq < Bound(c), f \in s.added \cup writing
        PROVE  \/ Covered(f, Below(Bound(c))')
               \/ \E t \in snap' : t.seq < Bound(c)' /\ f \in t.added \cup writing'
    <3>1. s.seq \in Nat /\ s.seq < Bound(c)'
      BY <1>2, <1>4, <2>4
    <3>2. ASSUME NEW m \in Drainable', m.seq = s.seq, f \in m.added
          PROVE  Covered(f, Below(Bound(c))')
      <4>1. m \in Below(Bound(c))'
        BY <3>1, <3>2, Zenon DEF Below
      <4> QED BY <3>2, <4>1, Zenon DEF Covered, RowAdded, RowIn
    <3> QED BY <2>4, <3>1, <3>2, Zenon
  <2> QED BY <1>7, <2>2, <2>3, <2>4, Zenon DEF CompInv
<1> QED BY <1>2, <1>4, <1>6, <1>7, Zenon

(* A query stays as it was when the reader's index has folded in more, and the
   peer has no new file but with a new id.                                 *)
LEMMA QueryKept ==
  ASSUME QueryInv, UNCHANGED q, Rows \subseteq Rows', \A r \in Rows : time'[r] = time[r],
         late \subseteq late', nextId \in Nat, nextId' \in Nat, nextId <= nextId',
         Replayed \subseteq Replayed',
         \A f \in Known' : f \in Known \/ f.id = nextId
  PROVE  QueryInv'
<1>1. /\ q' = Query(q.pc, q.upper, q.skip, q.since, q.missing)'
      /\ q'.pc \in {"ticket", "plan", "fetch", "done"} /\ q'.skip \in BOOLEAN
      /\ (q.pc \in {"ticket", "fetch"} => ~q.skip)'
  BY Zenon DEF QueryInv, Query
<1>2. q'.missing \subseteq Rows'
  BY Zenon DEF QueryInv
<1>3. (q.pc \in {"ticket", "plan"} => q.missing \subseteq Within(q.upper))'
  BY Zenon DEF QueryInv, Within
<1>4. (q.pc = "plan" /\ q.skip => \A r \in q.missing : r \in late \/ RowAdded(r, Replayed))'
  BY AddedMonotone, Zenon DEF QueryInv
<1>5. (q.pc \in {"plan", "fetch"} /\ ~q.skip => q.since \in Int /\ q.since < nextId)'
  BY DEF QueryInv
<1>6. ASSUME q.pc \in {"plan", "fetch"}, ~q.skip, NEW f \in Known', f.id <= q.since
      PROVE  f \in Known
  <2>1. q.since \in Int /\ q.since < nextId
    BY <1>6, Zenon DEF QueryInv
  <2> QED BY <1>6, <2>1
<1>7. (q.pc = "plan" /\ ~q.skip => \A f \in Known : f.id <= q.since => Covered(f, Replayed))'
  BY <1>6, AddedMonotone, Zenon DEF QueryInv
<1>8. (q.pc = "fetch" => \A f \in Known : f.id <= q.since => f.rows \cap q.missing = {})'
  BY <1>6, Zenon DEF QueryInv
<1>9. Complete'
  BY Zenon DEF QueryInv, Complete
<1> QED BY <1>1, <1>2, <1>3, <1>4, <1>5, <1>7, <1>8, <1>9, Zenon DEF QueryInv

-----------------------------------------------------------------------------
(* Steps of the peer's buffer and of its snapshots                         *)

(* The newest row a snapshot has taken. *)
LEMMA TakenMax ==
  ASSUME BufferInv, NEW s \in Rows \ open
  PROVE  Max(Taken) \in Int /\ time[s] <= Max(Taken)
<1>1. \A r \in Rows : time[r] \in Times
  BY DEF BufferInv, Rows
<1>2. PICK b \in Times : \A u \in Times : u <= b
  BY PeerReadAssumption, Zenon
<1>3. b \in Int /\ Taken \in SUBSET Int /\ Taken # {} /\ \A x \in Taken : x <= b
  <2>1. b \in Nat /\ \A r \in Rows : time[r] \in Nat /\ time[r] <= b
    BY <1>1, <1>2, PeerReadAssumption, Zenon
  <2> QED BY <2>1 DEF Taken, None
<1>4. Max(Taken) \in Taken /\ \A x \in Taken : x <= Max(Taken)
  BY <1>3, MaxExists, Zenon
<1>5. time[s] \in Taken
  BY Zenon DEF Taken
<1> QED BY <1>3, <1>4, <1>5, Zenon

LEMMA WriteStep ==
  ASSUME Inv, NEW t \in Times, Write(t)
  PROVE  Inv'
<1> USE DEF Inv
<1> DEFINE n == Len(time) + 1
<1>1. /\ Rows' = Rows \cup {n} /\ n \notin Rows /\ time'[n] = t
      /\ \A r \in Rows : time'[r] = time[r] /\ time[r] \in Times
      /\ time' \in Seq(Times)
  BY DEF Write, BufferInv, Rows
<1>2. Known' = Known /\ AllFiles' = AllFiles /\ Drainable' = Drainable /\ Replayed' = Replayed
  BY Zenon DEF Write, peerVars, storeVars, Known, AllFiles, Drainable, Undrained, Replayed, LastSeq
<1>3. late \subseteq late' /\ late' \subseteq late \cup {n} /\ open' = open \cup {n}
  BY Zenon DEF Write
<1>4. BufferInv'
  BY <1>1, <1>3 DEF BufferInv, Write, peerVars
<1>5. FileInv'
  BY <1>1, <1>2, <1>3, Zenon DEF FileInv, Write, peerVars
<1>6. ManifestInv' /\ SnapInv'
  BY Zenon DEF ManifestInv, SnapInv, Write, peerVars, storeVars, LastSeq
<1>7. CompInv'
  <2>1. UNCHANGED <<comp, nextSeq, snap, writing, manifests>>
    BY Zenon DEF Write, peerVars, storeVars
  <2>2. \A s \in snap : s.seq \in Nat
    BY DEF SnapInv
  <2> QED BY <1>2, <2>1, <2>2, DrainedNumbers, CompKept DEF ManifestInv
<1>8. StoredInv' /\ OrderInv'
  <2>1. UNCHANGED <<snap, writing>> /\ \A p : Below(p)' = Below(p) /\ Upto(p)' = Upto(p)
    BY <1>2, Zenon DEF Write, peerVars, Below, Upto
  <2> QED BY <1>2, <2>1, Zenon DEF StoredInv, OrderInv
<1>9. LateInv'
  <2>1. ASSUME NEW s \in Rows \ open, NEW r \in Rows', Older(r, s)'
        PROVE  r \in Rows /\ Older(r, s)
    <3>1. r # n
      <4> SUFFICES ASSUME r = n PROVE FALSE
        BY Zenon
      <4>1. ~(t <= Max(Taken)) /\ t <= time[s]
        BY <1>1, <2>1, Zenon DEF Older, Write
      <4>2. Max(Taken) \in Int /\ time[s] <= Max(Taken)
        BY TakenMax, Zenon
      <4>3. t \in Nat /\ time[s] \in Nat
        BY <1>1, PeerReadAssumption, Zenon
      <4> QED BY <4>1, <4>2, <4>3
    <3> QED BY <1>1, <1>3, <2>1, <3>1, Zenon DEF Older
  <2>2. Rows' \ open' = Rows \ open
    BY <1>1, <1>3, Zenon
  <2>3. \A s \in Rows' \ open' : \A r \in Rows' : Older(r, s)' => r \notin open'
    BY <1>1, <1>3, <2>1, <2>2, Zenon DEF LateInv
  <2>4. ASSUME NEW m \in Drainable', NEW s \in RowsOf(m.added), NEW r \in Rows', Older(r, s)'
        PROVE  RowAdded(r, Upto(m.seq)')
    <3>1. m \in Drainable /\ m \in manifests
      BY <1>2, DrainedNumbers, Zenon
    <3>2. s \in Rows \ open
      BY <3>1, AddedFiles, Zenon DEF RowsOf
    <3>3. RowAdded(r, Upto(m.seq))
      BY <2>1, <2>4, <3>1, <3>2, Zenon DEF LateInv
    <3> QED BY <1>2, <3>3, Zenon DEF Upto
  <2> QED BY <2>3, <2>4, Zenon DEF LateInv
<1>10. QueryInv'
  <2>1. nextId \in Nat /\ nextId' = nextId /\ UNCHANGED q
    BY Zenon DEF FileInv, Write, peerVars
  <2> QED BY <1>1, <1>2, <1>3, <2>1, QueryKept
<1> QED BY <1>4, <1>5, <1>6, <1>7, <1>8, <1>9, <1>10, Zenon

LEMMA Multiples ==
  ASSUME NEW c \in Nat, NEW p \in Nat, NEW k \in Nat, p < k
  PROVE  c * p + c <= c * k
<1>1. PICK d \in Nat : k - p = d + 1
  OBVIOUS
<1>2. c * (d + 1) = c * d + c /\ c * d \in Nat
  OBVIOUS
<1>3. c * (k - p) = c * k - c * p /\ c * k \in Int /\ c * p \in Int
  OBVIOUS
<1> QED BY <1>1, <1>2, <1>3

(* Rows no newer than those of a chunk are in it or in an older one. *)
LEMMA ChunkTimeMonotone ==
  ASSUME NEW a \in Nat, NEW b \in Nat, a <= b
  PROVE  /\ a - (a % ChunkSize) <= b - (b % ChunkSize)
         /\ a - (a % ChunkSize) \in Nat /\ b - (b % ChunkSize) \in Nat
<1>1. ChunkSize \in Nat \ {0}
  BY PeerReadAssumption, Zenon
<1> DEFINE p == a \div ChunkSize
           k == b \div ChunkSize
<1>2. p \in Nat /\ a % ChunkSize \in 0..(ChunkSize - 1) /\ a = ChunkSize * p + (a % ChunkSize)
  BY <1>1
<1>3. k \in Nat /\ b % ChunkSize \in 0..(ChunkSize - 1) /\ b = ChunkSize * k + (b % ChunkSize)
  BY <1>1
<1> HIDE DEF p, k
<1>4. ChunkSize * p \in Nat /\ ChunkSize * k \in Nat
  BY <1>1, <1>2, <1>3
<1>5. ASSUME k < p PROVE FALSE
  <2>1. ChunkSize * k + ChunkSize <= ChunkSize * p
    BY <1>1, <1>2, <1>3, <1>5, Multiples, Zenon
  <2> QED BY <1>1, <1>2, <1>3, <1>4, <2>1
<1>6. ChunkSize * p <= ChunkSize * k
  <2>1. CASE p = k
    BY <1>4, <2>1
  <2>2. CASE p < k
    <3>1. ChunkSize * p + ChunkSize <= ChunkSize * k
      BY <1>1, <1>2, <1>3, <2>2, Multiples, Zenon
    <3> QED BY <1>1, <1>4, <3>1
  <2> QED BY <1>2, <1>3, <1>5, <2>1, <2>2
<1> QED BY <1>1, <1>2, <1>3, <1>4, <1>6

LEMMA FreezeStep ==
  ASSUME Inv, NEW t \in Times, Freeze(t + 1)
  PROVE  Inv'
<1> USE DEF Inv
<1> DEFINE old == {r \in open : ChunkTime(r) < t + 1}
<1>1. /\ snap = {} /\ frozen = {} /\ writing = {} /\ open' = open \ old
      /\ frozen' = {{s \in old : ChunkTime(s) = ChunkTime(r)} : r \in old}
      /\ snap' = {[seq |-> nextSeq, added |-> {}]} /\ nextSeq' = nextSeq + 1
      /\ UNCHANGED <<time, late, writing, files, nextId, comp, manifests, drained, pos, q>>
  BY Zenon DEF Freeze, SnapInv, BufferInv, storeVars
<1>2. /\ Known' = Known /\ AllFiles' = AllFiles /\ Drainable' = Drainable
      /\ Replayed' = Replayed /\ Rows' = Rows
  BY <1>1 DEF Known, AllFiles, Drainable, Undrained, Replayed, LastSeq, Rows
<1>3. nextSeq \in Nat \ {0} /\ nextId \in Nat /\ \A r \in Rows : time[r] \in Nat
  <2>1. \A r \in Rows : time[r] \in Times
    BY DEF BufferInv, Rows
  <2> QED BY <2>1, PeerReadAssumption, Zenon DEF ManifestInv, FileInv
<1>4. BufferInv'
  <2>1. \A c \in frozen' : c \subseteq Rows' \ open'
    BY <1>1, <1>2 DEF BufferInv
  <2>2. old \subseteq UNION frozen'
    BY <1>1
  <2>3. Rows' \subseteq open' \cup (UNION frozen') \cup RowsOf(files)'
    <3>1. RowsOf(files)' = RowsOf(files)
      BY <1>1, Zenon DEF RowsOf
    <3> QED BY <1>1, <1>2, <2>2, <3>1, Zenon DEF BufferInv
  <2> QED BY <1>1, <1>2, <2>1, <2>3, Zenon DEF BufferInv
<1>5. FileInv'
  BY <1>1, <1>2, Zenon DEF FileInv
<1>6. ManifestInv'
  BY <1>1, <1>3 DEF ManifestInv, LastSeq
<1>7. SnapInv'
  <2>1. /\ \A m \in manifests' : m.seq < nextSeq /\ m.seq # nextSeq
        /\ \A m \in drained' : m.seq < nextSeq
        /\ \A c \in comp' : c.stage = "persist" => c.seq # nextSeq
    BY <1>1, <1>3 DEF ManifestInv, CompInv, Bound
  <2>2. snap' = {[seq |-> nextSeq, added |-> {}]} /\ nextSeq' = nextSeq + 1
    BY <1>1, Zenon
  <2>3. snap' # {} /\ \A s \in snap' : /\ s = [seq |-> nextSeq, added |-> {}] /\ s.seq = nextSeq
                                       /\ s.added = {}
    BY <2>2
  <2>4. \A s \in snap' : s.seq \in 1..(nextSeq' - 1)
    BY <1>3, <2>2, <2>3
  <2> QED BY <2>1, <2>3, <2>4, Zenon DEF SnapInv
<1>8. CompInv'
  <2>1. Drainable' \subseteq manifests' /\ \A m \in manifests' : m.seq \in Nat
    BY <1>1, <1>2, DrainedNumbers, Zenon
  <2> QED BY <1>1, <1>2, <1>3, <2>1, CompKept
<1>9. StoredInv'
  <2>1. \A t1 \in snap' : Below(t1.seq)' = Drainable
    <3>1. \A m \in Drainable : m.seq < nextSeq
      BY DrainedNumbers, Zenon
    <3> QED BY <1>1, <1>2, <3>1 DEF Below
  <2> QED BY <1>1, <1>2, <2>1, Zenon DEF StoredInv
<1>10. OrderInv'
  BY <1>1, <1>2, OrderKept, Zenon
<1>11. LateInv'
  <2>1. ASSUME NEW s \in Rows \ open', NEW r \in Rows, Older(r, s), r \in open'
        PROVE  FALSE
    <3>1. CASE s \in Rows \ open
      BY <1>1, <2>1, <3>1, Zenon DEF LateInv
    <3>2. CASE s \in old
      <4>1. /\ ChunkTime(r) <= ChunkTime(s) /\ ChunkTime(r) \in Nat /\ ChunkTime(s) \in Nat
        BY <1>3, <2>1, ChunkTimeMonotone, Zenon DEF Older, ChunkTime
      <4>2. t \in Nat
        BY PeerReadAssumption, Zenon
      <4>3. r \in old
        BY <1>1, <2>1, <3>2, <4>1, <4>2
      <4> QED BY <1>1, <2>1, <4>3, Zenon
    <3> QED BY <1>1, <2>1, <3>1, <3>2, Zenon
  <2>2. \A r, s : Older(r, s)' <=> Older(r, s)
    BY <1>1, <1>2, Zenon DEF Older
  <2> QED BY <1>1, <1>2, <2>1, <2>2, Zenon DEF LateInv, Upto
<1>12. QueryInv'
  BY <1>1, <1>2, <1>3, QueryKept
<1> QED BY <1>4, <1>5, <1>6, <1>7, <1>8, <1>9, <1>10, <1>11, <1>12, Zenon

LEMMA JobWriteStep ==
  ASSUME Inv, NEW c \in frozen, JobWrite(c)
  PROVE  Inv'
<1> USE DEF Inv
<1> DEFINE f == [id |-> nextId, rows |-> c]
<1>1. /\ c \notin {g.rows : g \in writing} /\ writing' = writing \cup {f} /\ nextId' = nextId + 1
      /\ UNCHANGED <<time, late, open, frozen, files, nextSeq, snap, comp, manifests,
                     drained, pos, q>>
  BY Zenon DEF JobWrite, storeVars
<1>2. /\ Known' = Known \cup {f} /\ AllFiles' = AllFiles \cup {f} /\ Drainable' = Drainable
      /\ Replayed' = Replayed /\ Rows' = Rows
  BY <1>1, Zenon DEF Known, AllFiles, Drainable, Undrained, Replayed, LastSeq, Rows
<1>3. nextSeq \in Nat \ {0} /\ nextId \in Nat /\ f.id = nextId /\ f.rows = c
  BY Zenon DEF ManifestInv, FileInv
<1>4. BufferInv'
  <2>1. \A g, h \in writing' : g.rows = h.rows => g = h
    BY <1>1, <1>3 DEF BufferInv
  <2>2. \A g \in writing' : g.rows \in frozen'
    BY <1>1, <1>3, Zenon DEF BufferInv
  <2> QED BY <1>1, <1>2, <2>1, <2>2, Zenon DEF BufferInv, RowsOf
<1>5. FileInv'
  <2>1. f.rows \subseteq Rows \ open
    BY <1>3, Zenon DEF BufferInv
  <2>2. \A g \in AllFiles' : g.id \in 0..(nextId' - 1) /\ g.rows \subseteq Rows' \ open'
    BY <1>1, <1>2, <1>3, <2>1 DEF FileInv
  <2>3. \A g, h \in AllFiles' : g.id = h.id => g = h
    BY <1>2, <1>3 DEF FileInv
  <2> QED BY <1>1, <1>3, <2>2, <2>3 DEF FileInv
<1>6. ManifestInv' /\ SnapInv'
  BY <1>1, Zenon DEF ManifestInv, SnapInv, LastSeq
<1>8. CompInv'
  <2>1. Drainable' \subseteq manifests' /\ \A m \in manifests' : m.seq \in Nat
    BY <1>1, <1>2, DrainedNumbers, Zenon
  <2>2. \A s \in snap : s.seq \in Nat
    BY DEF SnapInv
  <2> QED BY <1>1, <1>2, <1>3, <2>1, <2>2, CompKept
<1>9. StoredInv'
  <2>1. snap # {}
    BY Zenon DEF SnapInv
  <2>2. \A p : Below(p)' = Below(p)
    BY <1>2, Zenon DEF Below
  <2> QED BY <1>1, <1>2, <2>1, <2>2, Zenon DEF StoredInv
<1>10. OrderInv'
  BY <1>1, <1>2, <1>3, OrderKept, Zenon
<1>11. LateInv'
  BY <1>1, <1>2, Zenon DEF LateInv, Upto, Older
<1>12. QueryInv'
  BY <1>1, <1>2, <1>3, QueryKept
<1> QED BY <1>4, <1>5, <1>6, <1>8, <1>9, <1>10, <1>11, <1>12, Zenon

LEMMA JobHandOverStep ==
  ASSUME Inv, NEW f \in writing, JobHandOver(f)
  PROVE  Inv'
<1> USE DEF Inv
<1>1. /\ writing' = writing \ {f} /\ files' = files \cup {f} /\ frozen' = frozen \ {f.rows}
      /\ snap' = {[s EXCEPT !.added = @ \cup {f}] : s \in snap}
      /\ UNCHANGED <<time, late, open, nextId, nextSeq, comp, manifests, drained, pos, q>>
  BY Zenon DEF JobHandOver, storeVars
<1>2. /\ Known' = Known /\ Drainable' = Drainable /\ Replayed' = Replayed /\ Rows' = Rows
  BY <1>1, Zenon DEF Known, Drainable, Undrained, Replayed, LastSeq, Rows
<1>3. nextSeq \in Nat \ {0} /\ nextId \in Nat /\ snap # {}
  BY Zenon DEF ManifestInv, FileInv, SnapInv, BufferInv
<1>4. \A s \in snap : [s EXCEPT !.added = @ \cup {f}] = [seq |-> s.seq, added |-> s.added \cup {f}]
  <2>1. ASSUME NEW a, NEW b, NEW s, s = [seq |-> a, added |-> b]
        PROVE  [s EXCEPT !.added = @ \cup {f}] = [seq |-> a, added |-> b \cup {f}]
    BY <2>1
  <2> QED BY <2>1, Zenon DEF SnapInv
<1>5. snap' = {[seq |-> s.seq, added |-> s.added \cup {f}] : s \in snap}
  BY <1>1, <1>4, Zenon
<1>6. \A t \in snap' : \E s \in snap : t.seq = s.seq /\ t.added = s.added \cup {f}
  BY <1>5
<1>7. \A s \in snap : \E t \in snap' : t.seq = s.seq /\ t.added = s.added \cup {f}
  <2> TAKE s \in snap
  <2>1. [seq |-> s.seq, added |-> s.added \cup {f}] \in snap'
    BY <1>5, Zenon
  <2> QED BY <2>1, Zenon
<1>8. AllFiles' \subseteq AllFiles
  <2>1. f \in Known
    BY Zenon DEF Known
  <2> QED BY <1>1, <1>2, <1>6, <2>1 DEF AllFiles
<1>9. BufferInv'
  <2>1. \A g \in writing' : g.rows \in frozen'
    BY <1>1, Zenon DEF BufferInv
  <2>2. RowsOf(files)' = RowsOf(files) \cup f.rows
    BY <1>1, Zenon DEF RowsOf
  <2>3. Rows' \subseteq open' \cup (UNION frozen') \cup RowsOf(files)'
    BY <1>1, <1>2, <2>2, ZenonT(30) DEF BufferInv
  <2> QED BY <1>1, <1>2, <2>1, <2>3, Zenon DEF BufferInv
<1>10. FileInv'
  BY <1>1, <1>2, <1>8, Zenon DEF FileInv
<1>11. ManifestInv'
  BY <1>1, Zenon DEF ManifestInv, LastSeq
<1>12. SnapInv'
  <2>1. snap' # {}
    BY <1>3, <1>7, Zenon
  <2>2. \A s, t \in snap' : s = t
    <3>1. \A s, t \in snap : s = t
      BY Zenon DEF SnapInv
    <3> QED BY <1>5, <3>1, Zenon
  <2>3. \A s \in snap' : s = [seq |-> s.seq, added |-> s.added]
    BY <1>5
  <2>4. /\ \A s \in snap' : s.seq \in 1..(nextSeq' - 1)
        /\ \A s \in snap' : \A m \in drained' : m.seq < s.seq
        /\ \A s \in snap' : \A m \in manifests' : m.seq # s.seq
        /\ \A s \in snap' : \A c \in comp' : c.stage = "persist" => c.seq # s.seq
    <3> SUFFICES ASSUME NEW t \in snap'
                 PROVE  /\ t.seq \in 1..(nextSeq - 1)
                        /\ \A m \in drained : m.seq < t.seq
                        /\ \A m \in manifests : m.seq # t.seq
                        /\ \A c \in comp : c.stage = "persist" => c.seq # t.seq
      BY <1>1, Zenon
    <3>1. PICK s \in snap : t.seq = s.seq
      BY <1>6, Zenon
    <3> QED BY <3>1, Zenon DEF SnapInv
  <2> QED BY <2>1, <2>2, <2>3, <2>4, Zenon DEF SnapInv
<1>13. CompInv'
  <2>1. Drainable' \subseteq manifests' /\ \A m \in manifests' : m.seq \in Nat
    BY <1>1, <1>2, DrainedNumbers, Zenon
  <2>2. \A s \in snap : s.seq \in Nat
    BY DEF SnapInv
  <2>3. \A s \in snap : \A g \in s.added \cup writing :
          \E t \in snap' : t.seq = s.seq /\ g \in t.added \cup writing'
    BY <1>1, <1>7, Zenon
  <2>4. UNCHANGED <<comp, nextSeq>>
    BY <1>1, Zenon
  <2> QED BY <1>2, <1>3, <2>1, <2>2, <2>3, <2>4, CompKept
<1>14. StoredInv'
  <2>1. snap' # {} /\ \A p : Below(p)' = Below(p)
    BY <1>2, <1>3, <1>7, Zenon DEF Below
  <2>2. ASSUME NEW t \in snap', NEW g \in Known
        PROVE  Covered(g, Below(t.seq)) \/ g \in t.added \cup writing'
    <3>1. PICK s \in snap : t.seq = s.seq /\ t.added = s.added \cup {f}
      BY <1>6, Zenon
    <3> QED BY <1>1, <3>1, Zenon DEF StoredInv
  <2> QED BY <1>2, <2>1, <2>2, Zenon DEF StoredInv
<1>15. OrderInv'
  <2>1. \A s \in snap : \A g \in s.added \cup writing :
          \E t \in snap' : t.seq = s.seq /\ g \in t.added \cup writing'
    BY <1>1, <1>7, Zenon
  <2> QED BY <1>2, <2>1, OrderKept, Zenon
<1>16. LateInv'
  BY <1>1, <1>2, Zenon DEF LateInv, Upto, Older
<1>17. QueryInv'
  <2>1. UNCHANGED <<time, late, nextId, q>>
    BY <1>1, Zenon
  <2> QED BY <1>2, <1>3, <2>1, QueryKept
<1> QED BY <1>9, <1>10, <1>11, <1>12, <1>13, <1>14, <1>15, <1>16, <1>17, Zenon

LEMMA PersistManifestStep ==
  ASSUME Inv, PersistManifest
  PROVE  Inv'
<1> USE DEF Inv
<1>1. PICK s \in snap : snap = {s}
  <2>1. snap # {} /\ \A s, t \in snap : s = t
    BY Zenon DEF PersistManifest, SnapInv
  <2> QED BY <2>1, Zenon
<1> DEFINE m == Manifest(s.seq, s.added, {})
<1>2. /\ frozen = {} /\ writing = {} /\ manifests' = manifests \cup {m} /\ snap' = {}
      /\ UNCHANGED <<time, late, open, frozen, writing, files, nextId, nextSeq, comp, drained,
                     pos, q>>
  BY <1>1, Zenon DEF PersistManifest, bufferVars
<1>3. m.seq = s.seq /\ m.added = s.added /\ m.removed = {}
  BY Zenon DEF Manifest
<1>4. /\ nextSeq \in Nat \ {0} /\ nextId \in Nat /\ s.seq \in 1..(nextSeq - 1)
      /\ \A l \in manifests : l.seq \in Nat
      /\ \A l \in drained : l.seq < s.seq
  BY DEF ManifestInv, FileInv, SnapInv
<1> HIDE DEF m
<1>5. /\ Known' = Known /\ Replayed' = Replayed /\ Rows' = Rows
  BY <1>2, Zenon DEF Known, Replayed, Rows
<1>6. AllFiles' = AllFiles
  BY <1>1, <1>2, <1>3, <1>5 DEF AllFiles
<1>7. Drainable' = Drainable \cup {m}
  <2>1. s.seq > LastSeq(drained)
    BY <1>4, DrainedNumbers DEF ManifestInv
  <2> QED BY <1>2, <1>3, <2>1, StoredManifest, Zenon
<1>8. BufferInv'
  BY <1>2, <1>5, Zenon DEF BufferInv, RowsOf
<1>9. FileInv'
  BY <1>2, <1>5, <1>6, Zenon DEF FileInv
<1>10. ManifestInv'
  <2>1. RowsOf(m.removed) \subseteq RowsOf(m.added)
    BY <1>3, Zenon DEF RowsOf
  <2> QED BY <1>2, <1>3, <1>4, <2>1, Zenon DEF ManifestInv, LastSeq
<1>11. SnapInv'
  BY <1>2, Zenon DEF SnapInv
<1>12. CompInv'
  <2>1. Drainable' \subseteq manifests' /\ \A l \in manifests' : l.seq \in Nat
    BY <1>2, <1>3, <1>4, <1>7, DrainedNumbers
  <2>2. \A t \in snap : t.seq \in Nat /\ \A g \in t.added \cup writing :
          \E l \in Drainable' : l.seq = t.seq /\ g \in l.added
    BY <1>1, <1>2, <1>3, <1>4, <1>7
  <2>3. Drainable \subseteq Drainable' /\ UNCHANGED <<comp, nextSeq>>
    BY <1>2, <1>7, Zenon
  <2> QED BY <1>4, <1>5, <2>1, <2>2, <2>3, CompKept
<1>13. \A p : Upto(p) \subseteq Upto(p)' /\ Below(p) \subseteq Below(p)'
  BY <1>7, Zenon DEF Upto, Below
<1>14. ASSUME NEW f \in Known, NEW p, s.seq <= p
       PROVE  f \in s.added \/ p = s.seq => Covered(f, Upto(p)')
  <2>1. m \in Upto(p)'
    BY <1>3, <1>7, <1>14, Zenon DEF Upto
  <2>2. CASE f \in s.added
    BY <1>3, <2>1, <2>2, Zenon DEF Covered, RowAdded, RowIn
  <2>3. CASE f \notin s.added /\ p = s.seq
    <3>1. Covered(f, Below(s.seq))
      BY <1>2, <2>3, Zenon DEF StoredInv
    <3>2. Below(s.seq) \subseteq Upto(s.seq)
      BY <1>4, DrainedNumbers DEF Below, Upto
    <3> QED BY <1>13, <2>3, <3>1, <3>2, AddedMonotone, Zenon
  <2> QED BY <2>2, <2>3, Zenon
<1>15. \A f \in Known : Covered(f, Upto(m.seq)')
  BY <1>3, <1>4, <1>14
<1>16. StoredInv'
  <2>1. Upto(m.seq)' \subseteq Drainable'
    BY Zenon DEF Upto
  <2> QED BY <1>2, <1>5, <1>15, <2>1, AddedMonotone, Zenon DEF StoredInv
<1>18. OrderInv'
  <2>2. ASSUME NEW l \in Drainable', NEW g \in l.added, NEW f \in Known, f.id <= g.id
        PROVE  Covered(f, Upto(l.seq)')
    <3>1. CASE l = m
      BY <1>15, <3>1, Zenon
    <3>2. CASE l \in Drainable /\ Covered(f, Upto(l.seq))
      BY <1>13, <3>2, AddedMonotone, Zenon
    <3>3. CASE l \in Drainable /\ s.seq < l.seq /\ f \in s.added
      <4>1. s.seq <= l.seq
        BY <1>4, <3>3, DrainedNumbers
      <4> QED BY <1>14, <3>3, <4>1, Zenon
    <3>4. l \in Drainable => Covered(f, Upto(l.seq)) \/ (s.seq < l.seq /\ f \in s.added)
      BY <1>1, <1>2, <2>2, Zenon DEF OrderInv
    <3> QED BY <1>7, <3>1, <3>2, <3>3, <3>4, Zenon
  <2> QED BY <1>5, <2>2, Zenon DEF OrderInv
<1>19. LateInv'
  <2>1. \A r, t : Older(r, t)' <=> Older(r, t)
    BY <1>2, <1>5, Zenon DEF Older
  <2>2. ASSUME NEW l \in Drainable', NEW t \in RowsOf(l.added), NEW r \in Rows, Older(r, t)
        PROVE  RowAdded(r, Upto(l.seq)')
    <3>1. CASE l = m
      <4>1. t \in Rows \ open
        BY <1>3, <3>1, InAllFiles DEF FileInv, RowsOf
      <4>2. r \in RowsOf(files)
        BY <1>2, <2>2, <4>1, Zenon DEF LateInv, BufferInv
      <4> QED BY <1>15, <3>1, <4>2, Zenon DEF RowsOf, Covered, Known
    <3>2. CASE l \in Drainable
      <4>1. RowAdded(r, Upto(l.seq))
        BY <2>2, <3>2, Zenon DEF LateInv
      <4> QED BY <1>13, <4>1, AddedMonotone, Zenon
    <3> QED BY <1>7, <3>1, <3>2, Zenon
  <2> QED BY <1>2, <1>5, <2>1, <2>2, Zenon DEF LateInv
<1>20. QueryInv'
  <2>1. UNCHANGED <<time, late, nextId, q>>
    BY <1>2, Zenon
  <2> QED BY <1>4, <1>5, <2>1, QueryKept
<1> QED BY <1>8, <1>9, <1>10, <1>11, <1>12, <1>16, <1>18, <1>19, <1>20, Zenon

-----------------------------------------------------------------------------
(* Steps of a compaction                                                   *)

LEMMA CompactStartStep ==
  ASSUME Inv, NEW inputs \in SUBSET View(drained), CompactStart(inputs)
  PROVE  Inv'
<1> USE DEF Inv
<1>0. PICK f, c : /\ f = [id |-> nextId, rows |-> RowsOf(inputs)]
                  /\ c = [stage |-> "swap", merged |-> f, inputs |-> inputs, seq |-> 0]
  BY Zenon
<1>1. /\ comp = {} /\ comp' = {c} /\ nextId' = nextId + 1
      /\ UNCHANGED <<time, late, open, frozen, writing, files, nextSeq, snap, manifests,
                     drained, pos, q>>
  BY <1>0, Zenon DEF CompactStart, bufferVars, storeVars
<1>2. /\ c.stage = "swap" /\ c.merged = f /\ c.inputs = inputs
      /\ c = [stage |-> c.stage, merged |-> c.merged, inputs |-> c.inputs, seq |-> c.seq]
  BY <1>0, Zenon
<1>3. nextSeq \in Nat \ {0} /\ nextId \in Nat /\ f.id = nextId /\ f.rows = RowsOf(inputs)
  BY <1>0, Zenon DEF ManifestInv, FileInv
<1>4. /\ Known' = Known \cup {f} /\ AllFiles' = AllFiles \cup {f} /\ Drainable' = Drainable
      /\ Replayed' = Replayed /\ Rows' = Rows
  BY <1>1, <1>2, Zenon DEF Known, AllFiles, Drainable, Undrained, Replayed, LastSeq, Rows
<1>5. \A g \in inputs : \E m \in drained : g \in m.added
  BY Zenon DEF View
<1>6. \A g \in inputs : g.id # nextId /\ g.rows \subseteq Rows \ open
  <2> TAKE g \in inputs
  <2>1. PICK m \in Drainable : g \in m.added
    BY <1>5, Zenon DEF Drainable
  <2> QED BY <2>1, <1>3, AddedFiles
<1>7. BufferInv'
  BY <1>1, <1>4, Zenon DEF BufferInv, RowsOf
<1>8. FileInv'
  <2>1. f.rows \subseteq Rows \ open
    BY <1>3, <1>6, Zenon DEF RowsOf
  <2>2. \A g \in AllFiles' : g.id \in 0..(nextId' - 1) /\ g.rows \subseteq Rows' \ open'
    BY <1>1, <1>3, <1>4, <2>1 DEF FileInv
  <2>3. \A g, h \in AllFiles' : g.id = h.id => g = h
    BY <1>3, <1>4 DEF FileInv
  <2> QED BY <1>1, <1>3, <2>2, <2>3 DEF FileInv
<1>9. ManifestInv' /\ SnapInv'
  <2>1. \A d \in comp' : d.stage # "persist"
    BY <1>1, <1>2
  <2> QED BY <1>1, <2>1, Zenon DEF ManifestInv, SnapInv, LastSeq
<1>10. Below(nextSeq) = Drainable
  <2>1. \A m \in Drainable : m.seq < nextSeq
    BY DrainedNumbers, Zenon
  <2> QED BY <2>1, Zenon DEF Below
<1>11. Bound(c)' = nextSeq /\ Below(Bound(c))' = Drainable
  BY <1>1, <1>2, <1>4, <1>10, Zenon DEF Bound, Below
<1>12. CompInv'
  <2>1. f \notin inputs
    BY <1>3, <1>6, Zenon
  <2>2. Covered(f, Drainable)
    BY <1>3, <1>5, Zenon DEF Covered, RowsOf, RowAdded, RowIn, Drainable
  <2>3. ASSUME NEW g \in Known', g.id < f.id
        PROVE  Covered(g, Drainable) \/ \E s \in snap : s.seq < nextSeq /\ g \in s.added \cup writing
    <3>1. g \in files \cup writing
      BY <1>1, <1>3, <1>4, <2>3 DEF Known
    <3>2. \A s \in snap : s.seq < nextSeq
      BY <1>3 DEF SnapInv
    <3>3. g \in Known /\ \A p : Covered(g, Below(p)) => Covered(g, Drainable)
      BY <3>1, AddedMonotone, Zenon DEF Known, Below
    <3> QED BY <3>2, <3>3, Zenon DEF StoredInv
  <2>4. \A d \in comp' : d = c
    BY <1>1, Zenon
  <2>5. \A d, e \in comp' : d = e
    BY <2>4, Zenon
  <2>6. /\ Bound(c)' \in 1..nextSeq' /\ (c.stage = "persist" => c.seq < nextSeq')
        /\ c.merged.rows = RowsOf(c.inputs) /\ c.merged \notin c.inputs
    BY <1>1, <1>2, <1>3, <1>11, <2>1
  <2>7. Covered(c.merged, Below(Bound(c))')
    BY <1>2, <1>11, <2>2, Zenon
  <2>8. \A g \in Known' : g.id < c.merged.id =>
          \/ Covered(g, Below(Bound(c))')
          \/ \E s \in snap' : s.seq < Bound(c)' /\ g \in s.added \cup writing'
    BY <1>1, <1>2, <1>11, <2>3, Zenon
  <2> QED BY <1>2, <2>4, <2>5, <2>6, <2>7, <2>8, Zenon DEF CompInv
<1>13. StoredInv'
  <2>1. Covered(f, drained)
    BY <1>3, <1>5, Zenon DEF Covered, RowsOf, RowAdded, RowIn
  <2>2. drained \subseteq Drainable /\ \A s \in snap : drained \subseteq Below(s.seq)
    BY Zenon DEF SnapInv, Below, Drainable
  <2>3. Covered(f, Drainable) /\ \A s \in snap : Covered(f, Below(s.seq))
    BY <2>1, <2>2, AddedMonotone, Zenon
  <2>4. \A p : Below(p)' = Below(p)
    BY <1>4, Zenon DEF Below
  <2> QED BY <1>1, <1>4, <2>3, <2>4, Zenon DEF StoredInv
<1>14. OrderInv'
  BY <1>1, <1>3, <1>4, OrderKept, Zenon
<1>15. LateInv'
  BY <1>1, <1>4, Zenon DEF LateInv, Upto, Older
<1>16. QueryInv'
  <2>1. UNCHANGED <<time, late, q>>
    BY <1>1, Zenon
  <2> QED BY <1>1, <1>3, <1>4, <2>1, QueryKept
<1> QED BY <1>7, <1>8, <1>9, <1>12, <1>13, <1>14, <1>15, <1>16, Zenon

LEMMA CompactSwapStep ==
  ASSUME Inv, CompactSwap
  PROVE  Inv'
<1> USE DEF Inv
<1>1. PICK c \in comp : /\ c.stage = "swap" /\ files' = (files \cup {c.merged}) \ c.inputs
                        /\ comp' = {[c EXCEPT !.stage = "reserve"]}
  BY Zenon DEF CompactSwap
<1>2. UNCHANGED <<time, late, open, frozen, writing, nextId, nextSeq, snap, manifests,
                  drained, pos, q>>
  BY Zenon DEF CompactSwap, bufferVars, storeVars
<1> DEFINE d == [stage |-> "reserve", merged |-> c.merged, inputs |-> c.inputs, seq |-> c.seq]
<1>3. comp = {c} /\ comp' = {d}
  <2>1. ASSUME NEW a, NEW b, NEW e, NEW g, NEW x,
               x = [stage |-> a, merged |-> b, inputs |-> e, seq |-> g]
        PROVE  [x EXCEPT !.stage = "reserve"]
                 = [stage |-> "reserve", merged |-> b, inputs |-> e, seq |-> g]
    BY <2>1
  <2>2. c = [stage |-> c.stage, merged |-> c.merged, inputs |-> c.inputs, seq |-> c.seq]
    BY Zenon DEF CompInv
  <2>3. [c EXCEPT !.stage = "reserve"] = d
    BY <2>1, <2>2
  <2> QED BY <1>1, <2>3, Zenon DEF CompInv
<1>4. /\ d.stage = "reserve" /\ d.merged = c.merged /\ d.inputs = c.inputs
      /\ d = [stage |-> d.stage, merged |-> d.merged, inputs |-> d.inputs, seq |-> d.seq]
  BY Zenon
<1> HIDE DEF d
<1>5. nextSeq \in Nat \ {0} /\ nextId \in Nat /\ c.merged.rows = RowsOf(c.inputs)
      /\ c.merged \notin c.inputs
  BY Zenon DEF ManifestInv, FileInv, CompInv
<1>6. /\ Drainable' = Drainable /\ Replayed' = Replayed /\ Rows' = Rows
  BY <1>2, Zenon DEF Drainable, Undrained, Replayed, LastSeq, Rows
<1>7. Known' \subseteq Known /\ AllFiles' \subseteq AllFiles
  <2>1. Known' \subseteq Known
    BY <1>1, <1>2, <1>3, <1>4, Zenon DEF Known
  <2> QED BY <1>2, <2>1, Zenon DEF AllFiles
<1>8. BufferInv'
  <2>1. ASSUME NEW r, r \in RowsOf(files) PROVE r \in RowsOf(files)'
    <3>1. PICK f \in files : r \in f.rows
      BY <2>1, Zenon DEF RowsOf
    <3>2. CASE f \in c.inputs
      <4>1. r \in c.merged.rows
        BY <1>5, <3>1, <3>2, Zenon DEF RowsOf
      <4> QED BY <1>1, <1>5, <4>1, Zenon DEF RowsOf
    <3>3. CASE f \notin c.inputs
      BY <1>1, <3>1, <3>3, Zenon DEF RowsOf
    <3> QED BY <3>2, <3>3, Zenon
  <2> QED BY <1>2, <1>6, <2>1, Zenon DEF BufferInv
<1>9. FileInv'
  BY <1>2, <1>6, <1>7, Zenon DEF FileInv
<1>10. ManifestInv' /\ SnapInv'
  <2>1. \A e \in comp' : e.stage # "persist"
    BY <1>3, <1>4
  <2> QED BY <1>2, <2>1, Zenon DEF ManifestInv, SnapInv, LastSeq
<1>11. Bound(c) = nextSeq /\ Bound(d)' = nextSeq /\ Below(Bound(d))' = Below(Bound(c))
  BY <1>1, <1>2, <1>4, <1>6, Zenon DEF Bound, Below
<1>12. Covered(c.merged, Below(Bound(c)))
  BY Zenon DEF CompInv
<1>13. CompInv'
  <2>1. \A e \in comp' : e = d
    BY <1>3, Zenon
  <2>2. \A e, g \in comp' : e = g
    BY <2>1, Zenon
  <2>3. /\ Bound(d)' \in 1..nextSeq' /\ (d.stage = "persist" => d.seq < nextSeq')
        /\ d.merged.rows = RowsOf(d.inputs) /\ d.merged \notin d.inputs
    BY <1>2, <1>4, <1>5, <1>11
  <2>4. Covered(d.merged, Below(Bound(d))')
    BY <1>4, <1>11, <1>12, Zenon
  <2>5. \A g \in Known' : g.id < d.merged.id =>
          \/ Covered(g, Below(Bound(d))')
          \/ \E s \in snap' : s.seq < Bound(d)' /\ g \in s.added \cup writing'
    BY <1>2, <1>4, <1>7, <1>11 DEF CompInv
  <2> QED BY <1>4, <2>1, <2>2, <2>3, <2>4, <2>5, Zenon DEF CompInv
<1>14. StoredInv'
  <2>1. \A p : Below(p)' = Below(p)
    BY <1>6, Zenon DEF Below
  <2> QED BY <1>2, <1>6, <1>7, <2>1, Zenon DEF StoredInv
<1>15. OrderInv'
  BY <1>2, <1>6, <1>7, OrderKept, Zenon
<1>16. LateInv'
  BY <1>2, <1>6, Zenon DEF LateInv, Upto, Older
<1>17. QueryInv'
  BY <1>2, <1>5, <1>6, <1>7, QueryKept
<1> QED BY <1>8, <1>9, <1>10, <1>13, <1>14, <1>15, <1>16, <1>17, Zenon

LEMMA CompactReserveStep ==
  ASSUME Inv, CompactReserve
  PROVE  Inv'
<1> USE DEF Inv
<1>1. PICK c \in comp : /\ c.stage = "reserve"
                        /\ comp' = {[c EXCEPT !.stage = "persist", !.seq = nextSeq]}
  BY Zenon DEF CompactReserve
<1>2. /\ nextSeq' = nextSeq + 1
      /\ UNCHANGED <<time, late, open, frozen, writing, files, nextId, snap, manifests,
                     drained, pos, q>>
  BY Zenon DEF CompactReserve, bufferVars, storeVars
<1>3. PICK d : d = [stage |-> "persist", merged |-> c.merged, inputs |-> c.inputs, seq |-> nextSeq]
  BY Zenon
<1>4. comp = {c} /\ comp' = {d}
  <2>1. ASSUME NEW a, NEW b, NEW e, NEW g, NEW x,
               x = [stage |-> a, merged |-> b, inputs |-> e, seq |-> g]
        PROVE  /\ [x EXCEPT !.stage = "persist"]
                    = [stage |-> "persist", merged |-> b, inputs |-> e, seq |-> g]
               /\ [x EXCEPT !.seq = nextSeq]
                    = [stage |-> a, merged |-> b, inputs |-> e, seq |-> nextSeq]
    BY <2>1
  <2>2. c = [stage |-> c.stage, merged |-> c.merged, inputs |-> c.inputs, seq |-> c.seq]
    BY DEF CompInv
  <2>4. [c EXCEPT !.stage = "persist", !.seq = nextSeq]
          = [[c EXCEPT !.stage = "persist"] EXCEPT !.seq = nextSeq]
    BY Zenon
  <2>5. PICK x : x = [c EXCEPT !.stage = "persist"]
    BY Zenon
  <2>6. x = [stage |-> "persist", merged |-> c.merged, inputs |-> c.inputs, seq |-> c.seq]
    BY <2>1, <2>2, <2>5, Zenon
  <2>7. [x EXCEPT !.seq = nextSeq] = d
    BY <1>3, <2>1, <2>6
  <2>3. [c EXCEPT !.stage = "persist", !.seq = nextSeq] = d
    BY <2>4, <2>5, <2>7, Zenon
  <2> QED BY <1>1, <2>3, Zenon DEF CompInv
<1>5. /\ d.stage = "persist" /\ d.merged = c.merged /\ d.inputs = c.inputs /\ d.seq = nextSeq
      /\ d = [stage |-> d.stage, merged |-> d.merged, inputs |-> d.inputs, seq |-> d.seq]
  BY <1>3, Zenon
<1>6. nextSeq \in Nat \ {0} /\ nextId \in Nat /\ c.merged.rows = RowsOf(c.inputs)
      /\ c.merged \notin c.inputs
  BY DEF ManifestInv, FileInv, CompInv
<1>7. /\ Drainable' = Drainable /\ Replayed' = Replayed /\ Rows' = Rows
      /\ Known' = Known /\ AllFiles' = AllFiles
  BY <1>2, <1>4, <1>5, Zenon DEF Drainable, Undrained, Replayed, LastSeq, Rows, Known, AllFiles
<1>8. BufferInv' /\ FileInv'
  BY <1>2, <1>7, Zenon DEF BufferInv, RowsOf, FileInv
<1>9. ManifestInv' /\ SnapInv'
  <2>1. ManifestInv' /\ \A s \in snap : s.seq \in 1..(nextSeq' - 1) /\ s.seq # nextSeq
    BY <1>2, <1>6 DEF ManifestInv, SnapInv, LastSeq
  <2>2. \A e \in comp' : e.seq = nextSeq
    BY <1>4, <1>5, Zenon
  <2> QED BY <1>2, <2>1, <2>2, Zenon DEF SnapInv
<1>10. Bound(c) = nextSeq /\ Bound(d)' = nextSeq /\ Below(Bound(d))' = Below(Bound(c))
  BY <1>1, <1>2, <1>5, <1>7, Zenon DEF Bound, Below
<1>11. CompInv'
  <2>1. \A e \in comp' : e = d
    BY <1>4, Zenon
  <2>2. \A e, g \in comp' : e = g
    BY <2>1, Zenon
  <2>3. /\ Bound(d)' \in 1..nextSeq' /\ (d.stage = "persist" => d.seq < nextSeq')
        /\ d.merged.rows = RowsOf(d.inputs) /\ d.merged \notin d.inputs
    BY <1>2, <1>5, <1>6, <1>10
  <2>4. Covered(d.merged, Below(Bound(d))')
    BY <1>5, <1>10, Zenon DEF CompInv
  <2>5. \A g \in Known' : g.id < d.merged.id =>
          \/ Covered(g, Below(Bound(d))')
          \/ \E s \in snap' : s.seq < Bound(d)' /\ g \in s.added \cup writing'
    BY <1>2, <1>5, <1>7, <1>10 DEF CompInv
  <2> QED BY <1>5, <2>1, <2>2, <2>3, <2>4, <2>5, Zenon DEF CompInv
<1>12. StoredInv'
  <2>1. \A p : Below(p)' = Below(p)
    BY <1>7, Zenon DEF Below
  <2> QED BY <1>2, <1>7, <2>1, Zenon DEF StoredInv
<1>13. OrderInv'
  BY <1>2, <1>7, OrderKept, Zenon
<1>14. LateInv'
  BY <1>2, <1>7, Zenon DEF LateInv, Upto, Older
<1>15. QueryInv'
  BY <1>2, <1>6, <1>7, QueryKept
<1> QED BY <1>8, <1>9, <1>11, <1>12, <1>13, <1>14, <1>15, Zenon

LEMMA CompactPersistStep ==
  ASSUME Inv, CompactPersist
  PROVE  Inv'
<1> USE DEF Inv
<1>1. PICK c \in comp : /\ c.stage = "persist"
                        /\ manifests' = manifests \cup {Manifest(c.seq, {c.merged}, c.inputs)}
  BY Zenon DEF CompactPersist
<1>2. /\ comp' = {}
      /\ UNCHANGED <<time, late, open, frozen, writing, files, nextId, nextSeq, snap,
                     drained, pos, q>>
  BY Zenon DEF CompactPersist, bufferVars
<1> DEFINE m == Manifest(c.seq, {c.merged}, c.inputs)
<1>3. manifests' = manifests \cup {m} /\ m.seq = c.seq /\ m.added = {c.merged} /\ m.removed = c.inputs
  BY <1>1, Zenon DEF Manifest
<1> HIDE DEF m
<1>4. /\ nextSeq \in Nat \ {0} /\ nextId \in Nat /\ c.merged.rows = RowsOf(c.inputs)
      /\ Bound(c) = c.seq /\ c.seq \in 1..(nextSeq - 1)
  BY <1>1 DEF ManifestInv, FileInv, CompInv, Bound
<1>5. /\ Replayed' = Replayed /\ Rows' = Rows /\ Known' \subseteq Known
  BY <1>2, Zenon DEF Replayed, Rows, Known
<1>6. AllFiles' \subseteq AllFiles
  <2>1. c.merged \in AllFiles
    BY InAllFiles, Zenon DEF Known
  <2>2. \A l \in manifests' : l.added \subseteq AllFiles
    BY <1>3, <2>1, InAllFiles, Zenon
  <2>3. UNION {l.added : l \in manifests'} \subseteq AllFiles
    BY <2>2, Zenon
  <2> QED BY <1>2, <1>5, <2>3, InAllFiles, Zenon DEF AllFiles
<1>7. Drainable \subseteq Drainable' /\ Drainable' \subseteq Drainable \cup {m}
  BY <1>2, <1>3, StoredManifest, Zenon
<1>8. \A p : Upto(p) \subseteq Upto(p)'
  BY <1>7, Zenon DEF Upto
<1>9. Covered(c.merged, Below(c.seq))
  BY <1>4, Zenon DEF CompInv
<1>10. \A l \in Below(c.seq) : l \in Drainable /\ l.seq < c.seq /\ l.seq \in Nat
  BY DrainedNumbers, Zenon DEF Below
<1>11. Below(c.seq) \subseteq Upto(m.seq)'
  BY <1>3, <1>4, <1>7, <1>10 DEF Upto
<1>12. BufferInv'
  BY <1>2, <1>5, Zenon DEF BufferInv, RowsOf
<1>13. FileInv'
  BY <1>2, <1>5, <1>6, Zenon DEF FileInv
<1>14. ManifestInv'
  <2>1. RowsOf(m.removed) \subseteq RowsOf(m.added)
    BY <1>3, <1>4, Zenon DEF RowsOf
  <2> QED BY <1>2, <1>3, <1>4, <2>1, Zenon DEF ManifestInv, LastSeq
<1>15. SnapInv'
  <2>1. \A s \in snap : m.seq # s.seq
    BY <1>1, <1>3, Zenon DEF SnapInv
  <2> QED BY <1>2, <1>3, <2>1, Zenon DEF SnapInv
<1>16. CompInv'
  BY <1>2, Zenon DEF CompInv
<1>17. StoredInv'
  <2>1. \A p : Below(p) \subseteq Below(p)'
    BY <1>7, Zenon DEF Below
  <2>2. \A f : Covered(f, Drainable) => Covered(f, Drainable')
    BY <1>7, AddedMonotone, Zenon
  <2>3. \A f, p : Covered(f, Below(p)) => Covered(f, Below(p)')
    BY <2>1, AddedMonotone, Zenon
  <2> QED BY <1>2, <1>5, <2>2, <2>3, Zenon DEF StoredInv
<1>18. OrderInv'
  <2>1. ASSUME NEW f \in Known, f.id <= c.merged.id
        PROVE  Covered(f, Below(c.seq)) \/ \E s \in snap : s.seq < c.seq /\ f \in s.added \cup writing
    <3>1. f \in AllFiles /\ c.merged \in AllFiles
      BY InAllFiles, Zenon DEF Known
    <3>2. CASE f.id = c.merged.id
      BY <1>9, <3>1, <3>2, Zenon DEF FileInv
    <3>3. CASE f.id < c.merged.id
      BY <1>4, <3>3, Zenon DEF CompInv
    <3> QED BY <2>1, <3>1, <3>2, <3>3 DEF FileInv
  <2>2. ASSUME NEW l \in Drainable', NEW g \in l.added, NEW f \in Known', f.id <= g.id
        PROVE  \/ Covered(f, Upto(l.seq)')
               \/ \E s \in snap : s.seq < l.seq /\ f \in s.added \cup writing
    <3>1. CASE l = m
      <4>1. Covered(f, Below(c.seq)) \/ \E s \in snap : s.seq < l.seq /\ f \in s.added \cup writing
        BY <1>3, <1>5, <2>1, <2>2, <3>1, Zenon
      <4> QED BY <1>11, <3>1, <4>1, AddedMonotone, Zenon
    <3>2. CASE l \in Drainable
      <4>1. Covered(f, Upto(l.seq)) \/ \E s \in snap : s.seq < l.seq /\ f \in s.added \cup writing
        BY <1>5, <2>2, <3>2, Zenon DEF OrderInv
      <4> QED BY <1>8, <4>1, AddedMonotone, Zenon
    <3> QED BY <1>7, <3>1, <3>2, Zenon
  <2> QED BY <1>2, <2>2, Zenon DEF OrderInv
<1>19. LateInv'
  <2>1. \A r, t : Older(r, t)' <=> Older(r, t)
    BY <1>2, <1>5, Zenon DEF Older
  <2>2. ASSUME NEW l \in Drainable, NEW t \in RowsOf(l.added), NEW r \in Rows, Older(r, t)
        PROVE  RowAdded(r, Upto(l.seq)')
    <3>1. RowAdded(r, Upto(l.seq))
      BY <2>2, Zenon DEF LateInv
    <3> QED BY <1>8, <3>1, AddedMonotone, Zenon
  <2>3. ASSUME NEW t \in RowsOf(m.added), NEW r \in Rows, Older(r, t)
        PROVE  RowAdded(r, Upto(m.seq)')
    <3>1. t \in c.merged.rows
      BY <1>3, Zenon DEF RowsOf
    <3>2. PICK l \in Below(c.seq) : t \in RowsOf(l.added)
      BY <1>9, <3>1, Rows_RowIn, Zenon DEF Covered, RowAdded
    <3>3. RowAdded(r, Upto(l.seq)')
      BY <1>10, <2>2, <2>3, <3>2, Zenon
    <3>4. Upto(l.seq)' \subseteq Upto(m.seq)'
      <4>1. \A k \in Drainable' : k.seq \in Nat
        BY <1>3, <1>4, <1>7, DrainedNumbers
      <4>2. l.seq \in Nat /\ l.seq <= m.seq /\ m.seq \in Nat
        BY <1>3, <1>4, <1>10
      <4> QED BY <4>1, <4>2 DEF Upto
    <3> QED BY <3>3, <3>4, AddedMonotone, Zenon
  <2> QED BY <1>2, <1>5, <1>7, <2>1, <2>2, <2>3, Zenon DEF LateInv
<1>20. QueryInv'
  BY <1>2, <1>4, <1>5, QueryKept
<1> QED BY <1>12, <1>13, <1>14, <1>15, <1>16, <1>17, <1>18, <1>19, <1>20, Zenon

-----------------------------------------------------------------------------
(* Steps of the publisher and the reader                                   *)

(* The parts of the invariant that speak of the peer alone. *)
PeerInv ==
  /\ BufferInv /\ FileInv /\ SnapInv /\ CompInv /\ StoredInv /\ OrderInv /\ LateInv

LEMMA PeerKept ==
  ASSUME PeerInv, Drainable' = Drainable,
         UNCHANGED <<time, late, open, frozen, writing, files, nextId, nextSeq, snap, comp,
                     manifests>>,
         \A s \in snap : \A m \in drained' : m.seq < s.seq
  PROVE  PeerInv'
<1> USE DEF PeerInv
<1>1. Known' = Known /\ AllFiles' = AllFiles /\ Rows' = Rows
  BY Zenon DEF Known, AllFiles, Rows
<1>2. BufferInv' /\ FileInv' /\ SnapInv'
  BY <1>1, Zenon DEF BufferInv, FileInv, SnapInv, RowsOf
<1>3. \A p : Below(p)' = Below(p) /\ Upto(p)' = Upto(p)
  BY Zenon DEF Below, Upto
<1>4. \A c : Bound(c)' = Bound(c) /\ Below(Bound(c))' = Below(Bound(c))
  BY Zenon DEF Below, Bound
<1>5. CompInv'
  BY <1>1, <1>4 DEF CompInv
<1>6. StoredInv' /\ OrderInv' /\ LateInv'
  BY <1>1, <1>3, Zenon DEF StoredInv, OrderInv, LateInv, Older
<1> QED BY <1>2, <1>5, <1>6, Zenon

(* The publisher reaches no number above that of the snapshot under way. *)
LEMMA PublishStep ==
  ASSUME Inv, Publish, ~Overtakes
  PROVE  Inv'
<1>1. /\ drained' = Drainable
      /\ UNCHANGED <<time, late, open, frozen, writing, files, nextId, nextSeq, snap, comp,
                     manifests, pos, q>>
  BY Zenon DEF Publish, Drainable, bufferVars, peerVars
<1>2. Drainable' = Drainable /\ LastSeq(drained)' >= LastSeq(drained) /\ LastSeq(drained)' \in Nat
  BY <1>1, PublishDrains, Zenon DEF Inv
<1>3. PeerInv'
  <2>1. \A s \in snap : \A m \in manifests : ~(s.seq < m.seq) /\ m.seq # s.seq
    BY Zenon DEF Overtakes, Inv, SnapInv
  <2>2. \A s \in snap : s.seq \in Nat
    BY DEF Inv, SnapInv
  <2>3. Drainable \subseteq manifests /\ \A m \in manifests : m.seq \in Nat
    BY DrainedNumbers, Zenon DEF Inv
  <2>4. \A s \in snap : \A m \in drained' : m.seq < s.seq
    BY <1>1, <2>1, <2>2, <2>3
  <2> QED BY <1>1, <1>2, <2>4, PeerKept, Zenon DEF Inv, PeerInv
<1>4. ManifestInv'
  <2>1. drained' \subseteq manifests' /\ pos' \in 0..LastSeq(drained)'
    BY <1>1, <1>2, DrainedNumbers DEF Inv
  <2> QED BY <1>1, <2>1, Zenon DEF Inv, ManifestInv
<1>5. Replayed' = Replayed
  <2>1. Replayed = Upto(pos)
    BY DrainedNumbers, Zenon DEF Inv
  <2> QED BY <1>1, <2>1, Zenon DEF Upto, Replayed
<1>6. QueryInv'
  <2>1. Known' = Known /\ Rows' = Rows /\ nextId \in Nat
    BY <1>1, Zenon DEF Known, Rows, Inv, FileInv
  <2> QED BY <1>1, <1>5, <2>1, QueryKept DEF Inv
<1> QED BY <1>3, <1>4, <1>6, Zenon DEF Inv, PeerInv

LEMMA SyncStep ==
  ASSUME Inv, Sync
  PROVE  Inv'
<1>1. PICK m \in drained : pos < m.seq /\ pos' = m.seq
  BY Zenon DEF Sync
<1>2. UNCHANGED <<time, late, open, frozen, writing, files, nextId, nextSeq, snap, comp,
                  manifests, drained, q>>
  BY Zenon DEF Sync, bufferVars, peerVars, storeVars
<1>3. PeerInv'
  <2>1. Drainable' = Drainable
    BY <1>2, Zenon DEF Drainable, Undrained, LastSeq
  <2>2. \A s \in snap : \A l \in drained' : l.seq < s.seq
    BY <1>2, Zenon DEF Inv, SnapInv
  <2> QED BY <1>2, <2>1, <2>2, PeerKept, Zenon DEF Inv, PeerInv
<1>4. m.seq \in Nat /\ m.seq <= LastSeq(drained) /\ LastSeq(drained) \in Nat
      /\ \A l \in drained : l.seq \in Nat
  BY DrainedNumbers, Zenon DEF Inv, ManifestInv
<1>5. ManifestInv'
  <2>1. LastSeq(drained)' = LastSeq(drained)
    BY <1>2, Zenon DEF LastSeq
  <2>2. pos' \in 0..LastSeq(drained)'
    BY <1>1, <1>2, <1>4, <2>1 DEF Inv, ManifestInv
  <2>3. UNCHANGED <<manifests, drained>>
    BY <1>2, Zenon
  <2> QED BY <1>2, <2>1, <2>2, <2>3, Zenon DEF Inv, ManifestInv
<1>6. Replayed \subseteq Replayed'
  <2>1. pos \in Nat
    BY DrainedNumbers, Zenon DEF Inv
  <2> QED BY <1>1, <1>2, <1>4, <2>1 DEF Replayed
<1>7. QueryInv'
  <2>1. Known' = Known /\ Rows' = Rows /\ nextId \in Nat
    BY <1>2, Zenon DEF Known, Rows, Inv, FileInv
  <2> QED BY <1>2, <1>6, <2>1, QueryKept DEF Inv
<1> QED BY <1>3, <1>5, <1>7, Zenon DEF Inv, PeerInv

(* A step of the query changes the query alone. *)
LEMMA QueryFrame ==
  ASSUME Inv, UNCHANGED <<time, late, bufferVars, peerVars, storeVars, pos>>, QueryInv'
  PROVE  Inv'
<1>1. UNCHANGED <<time, late, open, frozen, writing, files, nextId, nextSeq, snap, comp,
                  manifests, drained, pos>>
  BY Zenon DEF bufferVars, peerVars, storeVars
<1>2. Drainable' = Drainable
  BY <1>1, Zenon DEF Drainable, Undrained, LastSeq
<1>3. PeerInv'
  <2>1. \A s \in snap : \A m \in drained' : m.seq < s.seq
    BY <1>1, Zenon DEF Inv, SnapInv
  <2> QED BY <1>1, <1>2, <2>1, PeerKept, Zenon DEF Inv, PeerInv
<1>4. ManifestInv'
  BY <1>1, Zenon DEF Inv, ManifestInv, LastSeq
<1> QED BY <1>3, <1>4, Zenon DEF Inv, PeerInv

(* A query that leaves the peer out: the row with the greatest published time
   was taken before every newer row, and its manifest follows theirs.      *)
LEMMA Skipped ==
  ASSUME Inv, NEW upper \in Nat, upper <= PersistedMaxTime, NEW r \in Within(upper), r \notin late
  PROVE  RowAdded(r, Replayed)
<1>1. Replayed = Upto(pos) /\ pos \in Nat /\ drained \subseteq Drainable
  BY DrainedNumbers, Zenon DEF Inv, Drainable
<1> DEFINE A == RowsOf(UNION {m.added : m \in Replayed})
           S == {time[s] : s \in A} \cup {None}
<1>2. \A s \in A : \E m \in Replayed : s \in RowsOf(m.added)
  BY DEF RowsOf
<1>3. A \subseteq Rows
  <2> SUFFICES ASSUME NEW s \in A PROVE s \in Rows
    BY Zenon
  <2>1. PICK m \in Replayed : s \in RowsOf(m.added)
    BY <1>2, Zenon
  <2>2. m \in Drainable
    BY <1>1, Zenon DEF Replayed
  <2> QED BY <2>1, <2>2, AddedFiles, Zenon DEF RowsOf, Inv
<1>4. \A s \in Rows : time[s] \in Times
  BY DEF Inv, BufferInv, Rows
<1>5. PICK b \in Times : \A u \in Times : u <= b
  BY PeerReadAssumption, Zenon
<1>6. b \in Nat /\ \A s \in Rows : time[s] \in Nat /\ time[s] <= b
  BY <1>4, <1>5, PeerReadAssumption, Zenon
<1>8. PersistedMaxTime = Max(S)
  BY Zenon DEF PersistedMaxTime
<1> HIDE DEF A
<1>7. b \in Int /\ S \in SUBSET Int /\ S # {} /\ \A x \in S : x <= b
  <2>1. \A s \in A : time[s] \in Nat /\ time[s] <= b
    BY <1>3, <1>6, Zenon
  <2> QED BY <1>6, <2>1 DEF None
<1> HIDE DEF S
<1>9. Max(S) \in S
  BY <1>7, MaxExists, Zenon
<1>10. Max(S) # None
  BY <1>8 DEF None
<1>11. PICK s \in A : time[s] = Max(S)
  BY <1>9, <1>10, Zenon DEF S
<1>12. PICK m \in Replayed : s \in RowsOf(m.added)
  BY <1>2, <1>11, Zenon
<1>13. m \in Drainable /\ m.seq <= pos /\ m.seq \in Nat
  BY <1>1, <1>12, DrainedNumbers, Zenon DEF Replayed, Inv
<1>14. r \in Rows /\ Older(r, s)
  <2>1. r \in Rows /\ time[r] <= upper
    BY Zenon DEF Within
  <2>2. time[r] \in Nat /\ time[s] \in Nat /\ upper <= time[s]
    BY <1>3, <1>6, <1>8, <1>11, <2>1, Zenon
  <2> QED BY <2>1, <2>2 DEF Older
<1>15. RowAdded(r, Upto(m.seq))
  BY <1>12, <1>13, <1>14, Zenon DEF Inv, LateInv
<1>16. Upto(m.seq) \subseteq Upto(pos)
  <2>1. \A l \in Drainable : l.seq \in Nat
    BY DrainedNumbers, Zenon DEF Inv
  <2> QED BY <1>1, <1>13, <2>1 DEF Upto
<1> QED BY <1>1, <1>15, <1>16, AddedMonotone, Zenon

LEMMA QueryStartStep ==
  ASSUME Inv, NEW upper \in Times \cup {Unbounded}, QueryStart(upper)
  PROVE  Inv'
<1> DEFINE skip == upper <= PersistedMaxTime
<1>1. /\ q' = Query(IF skip THEN "plan" ELSE "ticket", upper, skip, None, Within(upper))
      /\ UNCHANGED <<time, late, bufferVars, peerVars, storeVars, pos>>
  BY Zenon DEF QueryStart
<1>2. /\ q'.pc = IF skip THEN "plan" ELSE "ticket"
      /\ q'.upper = upper /\ q'.skip = skip /\ q'.missing = Within(upper)
      /\ q' = Query(q'.pc, q'.upper, q'.skip, q'.since, q'.missing)
  BY <1>1, Zenon DEF Query
<1>3. upper \in Nat
  <2>1. PICK b \in Times : \A u \in Times : u <= b
    BY PeerReadAssumption, Zenon
  <2>2. b \in Int /\ Times \in SUBSET Int /\ Times # {}
    BY <2>1, PeerReadAssumption
  <2>3. Max(Times) \in Times
    BY <2>1, <2>2, MaxExists, Zenon
  <2>5. Max(Times) \in Nat
    BY <2>3, PeerReadAssumption, Zenon
  <2>4. Unbounded \in Nat
    BY <2>5 DEF Unbounded
  <2> QED BY <2>4, PeerReadAssumption, Zenon
<1>4. Rows' = Rows /\ Within(upper)' = Within(upper) /\ Replayed' = Replayed /\ late' = late
  BY <1>1, Zenon DEF Rows, Within, Replayed, storeVars
<1>5. skip => \A r \in Within(upper) : r \in late \/ RowAdded(r, Replayed)
  BY <1>3, Skipped, Zenon
<1>6. q'.missing \subseteq Rows'
  BY <1>2, <1>4, Zenon DEF Within
<1>7. Within(q.upper)' = Within(upper)
  BY <1>2, <1>4, Zenon DEF Within
<1> HIDE DEF skip
<1>8. skip \in BOOLEAN
  BY DEF skip
<1>9. QueryInv'
  <2>1. CASE skip
    BY <1>2, <1>4, <1>5, <1>6, <1>7, <1>8, <2>1, Zenon DEF QueryInv, Complete
  <2>2. CASE ~skip
    BY <1>2, <1>4, <1>5, <1>6, <1>7, <1>8, <2>2, Zenon DEF QueryInv, Complete
  <2> QED BY <2>1, <2>2, Zenon
<1> QED BY <1>1, <1>9, QueryFrame, Zenon

(* The ticket: what the reader's index has a file above of, it has. *)
LEMMA QueryTicketStep ==
  ASSUME Inv, QueryTicket
  PROVE  Inv'
<1>1. /\ q.pc = "ticket" /\ q' = [q EXCEPT !.pc = "plan", !.since = MaxFileId]
      /\ UNCHANGED <<time, late, bufferVars, peerVars, storeVars, pos>>
  BY Zenon DEF QueryTicket
<1>2. q' = Query("plan", q.upper, q.skip, MaxFileId, q.missing)
  <2>1. ASSUME NEW a, NEW b, NEW c, NEW d, NEW e, NEW x,
               x = [pc |-> a, upper |-> b, skip |-> c, since |-> d, missing |-> e]
        PROVE  /\ [x EXCEPT !.pc = "plan"]
                    = [pc |-> "plan", upper |-> b, skip |-> c, since |-> d, missing |-> e]
               /\ [x EXCEPT !.since = MaxFileId]
                    = [pc |-> a, upper |-> b, skip |-> c, since |-> MaxFileId, missing |-> e]
    BY <2>1
  <2>2. q = [pc |-> q.pc, upper |-> q.upper, skip |-> q.skip, since |-> q.since,
             missing |-> q.missing]
    BY Zenon DEF Inv, QueryInv, Query
  <2>3. q' = [[q EXCEPT !.pc = "plan"] EXCEPT !.since = MaxFileId]
    BY <1>1, Zenon
  <2>4. PICK x : x = [q EXCEPT !.pc = "plan"]
    BY Zenon
  <2>5. x = [pc |-> "plan", upper |-> q.upper, skip |-> q.skip, since |-> q.since,
             missing |-> q.missing]
    BY <2>1, <2>2, <2>4, Zenon
  <2>6. [x EXCEPT !.since = MaxFileId]
          = [pc |-> "plan", upper |-> q.upper, skip |-> q.skip, since |-> MaxFileId,
             missing |-> q.missing]
    BY <2>1, <2>5
  <2> QED BY <2>3, <2>4, <2>6, Zenon DEF Query
<1>3. /\ q'.pc = "plan" /\ q'.upper = q.upper /\ q'.skip = q.skip /\ q'.since = MaxFileId
      /\ q'.missing = q.missing /\ q' = Query(q'.pc, q'.upper, q'.skip, q'.since, q'.missing)
  BY <1>2, Zenon DEF Query
<1>4. nextId \in Nat
  BY Zenon DEF Inv, FileInv
<1>5. /\ drained \subseteq Drainable /\ Replayed = Upto(pos) /\ pos \in Nat
      /\ \A m \in Drainable : m.seq \in Nat
  BY DrainedNumbers, Zenon DEF Inv, Drainable
<1>6. \A g \in Index : \E m \in Drainable : m \in drained /\ g \in m.added /\ m.seq <= pos
  BY <1>5, Zenon DEF Index, View, Replayed
<1>7. \A g \in Index : g.id \in Nat /\ g.id < nextId
  BY <1>6, AddedFiles, Zenon DEF Inv
<1> DEFINE S == {g.id : g \in Index} \cup {None}
<1>8. nextId \in Int /\ S \in SUBSET Int /\ S # {} /\ \A x \in S : x <= nextId
  BY <1>4, <1>7 DEF None
<1>9. MaxFileId = Max(S)
  BY Zenon DEF MaxFileId
<1> HIDE DEF S
<1>10. Max(S) \in S
  BY <1>8, MaxExists, Zenon
<1>11. MaxFileId = None \/ \E g \in Index : MaxFileId = g.id
  BY <1>9, <1>10, Zenon DEF S
<1>12. MaxFileId \in Int /\ MaxFileId < nextId
  BY <1>4, <1>7, <1>11 DEF None
<1>13. ASSUME NEW f \in Known, f.id <= MaxFileId PROVE Covered(f, Replayed)
  <2>1. f.id \in Nat
    BY InAllFiles DEF Inv, FileInv
  <2>2. MaxFileId # None
    BY <1>13, <2>1 DEF None
  <2>3. PICK g \in Index : MaxFileId = g.id
    BY <1>11, <2>2, Zenon
  <2>4. PICK m \in Drainable : m \in drained /\ g \in m.added /\ m.seq <= pos
    BY <1>6, Zenon
  <2>5. Covered(f, Upto(m.seq))
    <3>1. m.seq \in Nat /\ \A s \in snap : s.seq \in Nat /\ m.seq < s.seq
      BY <1>5, <2>4 DEF Inv, SnapInv
    <3>2. ~\E s \in snap : s.seq < m.seq
      BY <3>1
    <3> QED BY <1>13, <2>3, <2>4, <3>2, Zenon DEF Inv, OrderInv
  <2>6. Upto(m.seq) \subseteq Replayed
    BY <1>5, <2>4 DEF Upto
  <2> QED BY <2>5, <2>6, AddedMonotone, Zenon
<1>14. Known' = Known /\ Replayed' = Replayed /\ Rows' = Rows /\ nextId' = nextId
  BY <1>1, Zenon DEF Known, Replayed, Rows, bufferVars, peerVars, storeVars
<1>15. q'.missing \subseteq Rows' /\ (q.missing \subseteq Within(q.upper))' /\ q'.skip = FALSE
  <2>1. q.missing \subseteq Rows /\ q.missing \subseteq Within(q.upper) /\ q.skip = FALSE
    BY <1>1, Zenon DEF Inv, QueryInv
  <2>2. Within(q.upper)' = Within(q.upper)
    BY <1>1, <1>3, <1>14, Zenon DEF Within
  <2> QED BY <1>3, <1>14, <2>1, <2>2, Zenon
<1>17. q'.since \in Int /\ q'.since < nextId'
  BY <1>3, <1>12, <1>14, Zenon
<1>18. \A f \in Known' : f.id <= q'.since => Covered(f, Replayed)'
  BY <1>3, <1>13, <1>14, Zenon DEF Covered
<1>16. QueryInv'
  BY <1>3, <1>15, <1>17, <1>18, Zenon DEF QueryInv, Complete
<1> QED BY <1>1, <1>16, QueryFrame, Zenon

(* The plan takes every row the index has within the query's bound. *)
LEMMA QueryPlanStep ==
  ASSUME Inv, QueryPlan
  PROVE  Inv'
<1> DEFINE planned == {f \in Index : f.rows \cap Within(q.upper) # {}}
           left == q.missing \ RowsOf(planned)
<1>1. /\ q.pc = "plan"
      /\ q' = Query(IF q.skip THEN "done" ELSE "fetch", None, q.skip, q.since, left)
      /\ UNCHANGED <<time, late, bufferVars, peerVars, storeVars, pos>>
  BY Zenon DEF QueryPlan
<1>2. /\ q'.pc = IF q.skip THEN "done" ELSE "fetch"
      /\ q'.skip = q.skip /\ q'.since = q.since /\ q'.missing = left
      /\ q' = Query(q'.pc, q'.upper, q'.skip, q'.since, q'.missing)
  BY <1>1, Zenon DEF Query
<1>3. /\ q.missing \subseteq Rows /\ q.missing \subseteq Within(q.upper) /\ q.skip \in BOOLEAN
      /\ q.skip => \A r \in q.missing : r \in late \/ RowAdded(r, Replayed)
      /\ ~q.skip => /\ q.since \in Int /\ q.since < nextId
                    /\ \A f \in Known : f.id <= q.since => Covered(f, Replayed)
  BY <1>1, Zenon DEF Inv, QueryInv
<1>4. ASSUME NEW r \in q.missing, RowAdded(r, Replayed) PROVE r \notin left
  <2>1. r \in RowsOf(Index)
    BY <1>4, IndexRows, Zenon DEF Inv
  <2>2. PICK f \in Index : r \in f.rows
    BY <2>1, Zenon DEF RowsOf
  <2>3. f \in planned
    BY <1>3, <2>2, Zenon
  <2>4. r \in RowsOf(planned)
    BY <2>2, <2>3, Zenon DEF RowsOf
  <2> QED BY <2>4, Zenon
<1>5. left \subseteq q.missing
  BY Zenon
<1> HIDE DEF left, planned
<1>6. q.skip => left \subseteq late
  BY <1>3, <1>4, <1>5, Zenon
<1>7. ~q.skip => \A f \in Known : f.id <= q.since => f.rows \cap left = {}
  BY <1>3, <1>4, <1>5, Zenon DEF Covered
<1>8. Known' = Known /\ Rows' = Rows /\ nextId' = nextId /\ late' = late
  BY <1>1, Zenon DEF Known, Rows, bufferVars, peerVars
<1>9. QueryInv'
  <2>1. CASE q.skip
    BY <1>2, <1>3, <1>5, <1>6, <1>8, <2>1, Zenon DEF QueryInv, Complete
  <2>2. CASE ~q.skip
    BY <1>2, <1>3, <1>5, <1>7, <1>8, <2>2, Zenon DEF QueryInv, Complete
  <2> QED BY <2>1, <2>2, Zenon
<1> QED BY <1>1, <1>9, QueryFrame, Zenon

(* The answer has the rest: the buffer, and the files above the ticket's. *)
LEMMA QueryFetchStep ==
  ASSUME Inv, QueryFetch
  PROVE  Inv'
<1>1. /\ q.pc = "fetch"
      /\ q' = Query("done", None, q.skip, None, q.missing \ Served(q.since))
      /\ UNCHANGED <<time, late, bufferVars, peerVars, storeVars, pos>>
  BY Zenon DEF QueryFetch
<1>2. /\ q'.pc = "done" /\ q'.skip = q.skip /\ q'.missing = q.missing \ Served(q.since)
      /\ q' = Query(q'.pc, q'.upper, q'.skip, q'.since, q'.missing)
  BY <1>1, Zenon DEF Query
<1>3. /\ q.missing \subseteq Rows /\ ~q.skip /\ q.skip \in BOOLEAN /\ q.since \in Int
      /\ \A f \in Known : f.id <= q.since => f.rows \cap q.missing = {}
  BY <1>1, Zenon DEF Inv, QueryInv
<1>4. ASSUME NEW r \in q.missing PROVE r \in Served(q.since)
  <2>1. r \in open \cup (UNION frozen) \cup RowsOf(files)
    BY <1>3, Zenon DEF Inv, BufferInv
  <2>2. CASE r \in RowsOf(files)
    <3>1. PICK f \in files : r \in f.rows
      BY <2>2, Zenon DEF RowsOf
    <3>2. f \in Known /\ f.id \in Nat
      BY InAllFiles DEF Known, Inv, FileInv
    <3>3. f.id > q.since
      BY <1>3, <3>1, <3>2
    <3>4. r \in RowsOf({g \in files : g.id > q.since})
      BY <3>1, <3>3, Zenon DEF RowsOf
    <3> QED BY <3>4, Zenon DEF Served
  <2> QED BY <2>1, <2>2, Zenon DEF Served
<1>5. q'.missing = {}
  BY <1>2, <1>4, Zenon
<1>6. QueryInv'
  BY <1>2, <1>3, <1>5, Zenon DEF QueryInv, Complete
<1> QED BY <1>1, <1>6, QueryFrame, Zenon

-----------------------------------------------------------------------------
(* The theorems                                                            *)

LEMMA InitInv ==
  Init => Inv
<1> SUFFICES ASSUME Init PROVE Inv
  BY Zenon
<1> USE DEF Init
<1>1. Rows = {} /\ Known = {} /\ AllFiles = {}
  BY DEF Rows, Known, AllFiles
<1>2. BufferInv
  BY <1>1 DEF BufferInv
<1>3. FileInv /\ SnapInv /\ CompInv /\ StoredInv
  BY <1>1, Zenon DEF FileInv, SnapInv, CompInv, StoredInv
<1>4. ManifestInv
  <2>1. \A m \in drained : m.seq \in 0..0
    BY Zenon
  <2>2. LastSeq(drained) = 0
    BY <2>1, LastSeqIs, Zenon
  <2> QED BY <2>2 DEF ManifestInv
<1>5. Drainable = {}
  BY Zenon DEF Drainable, Undrained
<1>6. OrderInv /\ LateInv
  BY <1>1, <1>5, Zenon DEF OrderInv, LateInv
<1>7. QueryInv
  BY <1>1, Zenon DEF QueryInv, Query, Complete
<1> QED BY <1>2, <1>3, <1>4, <1>6, <1>7, Zenon DEF Inv

LEMMA StepInv ==
  ASSUME Inv, [TimelyNext]_vars
  PROVE  Inv'
<1>1. CASE UNCHANGED vars
  <2>1. UNCHANGED <<time, late, bufferVars, peerVars, storeVars, pos>> /\ UNCHANGED q
    BY <1>1, Zenon DEF vars
  <2>2. Known' = Known /\ Replayed' = Replayed /\ Rows' = Rows /\ nextId' = nextId
    BY <2>1, Zenon DEF Known, Replayed, Rows, bufferVars, peerVars, storeVars
  <2>3. nextId \in Nat /\ QueryInv
    BY Zenon DEF Inv, FileInv
  <2>4. UNCHANGED <<q, time, late>>
    BY <2>1, Zenon
  <2>5. QueryInv'
    BY <2>2, <2>3, <2>4, QueryKept
  <2> QED BY <2>1, <2>5, QueryFrame, Zenon
<1>2. ASSUME NEW t \in Times, Write(t) \/ Freeze(t + 1) PROVE Inv'
  BY <1>2, WriteStep, FreezeStep, Zenon
<1>3. CASE Snapshotting
  BY <1>3, JobWriteStep, JobHandOverStep, PersistManifestStep, Zenon DEF Snapshotting
<1>4. CASE (Publish /\ ~Overtakes) \/ Sync
  BY <1>4, PublishStep, SyncStep, Zenon
<1>5. ASSUME NEW inputs \in SUBSET View(drained), CompactStart(inputs) PROVE Inv'
  BY <1>5, CompactStartStep, Zenon
<1>6. CASE Compacting
  BY <1>6, CompactSwapStep, CompactReserveStep, CompactPersistStep, Zenon DEF Compacting
<1>7. CASE Querying
  BY <1>7, QueryStartStep, QueryTicketStep, QueryPlanStep, QueryFetchStep, Zenon DEF Querying
<1> QED BY <1>1, <1>2, <1>3, <1>4, <1>5, <1>6, <1>7, Zenon DEF TimelyNext, Step

LEMMA InvType ==
  Inv => TypeOK
<1> SUFFICES ASSUME Inv PROVE TypeOK
  BY Zenon
<1>1. (\A s, t \in snap : s = t) /\ (\A c, d \in comp : c = d)
  BY Zenon DEF Inv, SnapInv, CompInv
<1> DEFINE known == files \cup writing \cup {c.merged : c \in comp}
                      \cup (UNION {m.added : m \in manifests})
<1>2. known \subseteq AllFiles
  BY Zenon DEF AllFiles, Known
<1> HIDE DEF known
<1>3. /\ \A f \in known : f.id \in 0..(nextId - 1) /\ f.rows \subseteq Rows
      /\ \A f, g \in known : f.id = g.id => f = g
  BY <1>2, Zenon DEF Inv, FileInv
<1>4. /\ time \in Seq(Times) /\ open \subseteq Rows /\ late \subseteq Rows
      /\ \A m \in manifests : m.seq \in 1..(nextSeq - 1)
      /\ drained \subseteq manifests /\ pos \in 0..LastSeq(drained)
      /\ q.pc \in {"ticket", "plan", "fetch", "done"}
  BY Zenon DEF Inv, BufferInv, ManifestInv, QueryInv
<1> QED BY <1>1, <1>3, <1>4, Zenon DEF TypeOK, known

(* Whatever the peer ingests, snapshots, compacts and publishes, and however far
   the reader has synced, every variable keeps its type, and ids of files and
   numbers of manifests are given out once and stay below their counters
   (ParquetFileId::new, the snapshot tracker's numbers).  TimelySpec leaves
   out the polls of the publisher that find a compaction's manifest stored
   and that of a snapshot numbered below it not yet.                       *)
THEOREM PeerReadTypeOK ==
  TimelySpec => []TypeOK
<1>1. Inv /\ [TimelyNext]_vars => Inv'
  BY StepInv, Zenon
<1> QED BY <1>1, InitInv, InvType, PTL DEF TimelySpec

(* "a wrong skip means silently missing rows" (lib.rs:131): for any rows in any
   order, any chunk duration and any number of compactions, a query that asks
   the peer returns every row within its bound that the peer had when it was
   planned, and one that skips it can miss late rows alone
   (peer_buffer_chunks, buffer_batches).  It is proved for the behaviours in
   which the publisher does not poll while a compaction's manifest is stored
   and that of a snapshot numbered below it is not (Overtakes): nothing in
   the code keeps the two apart, and with such a poll it fails.            *)
THEOREM PeerReadComplete ==
  TimelySpec => []Complete
<1>1. Inv /\ [TimelyNext]_vars => Inv'
  BY StepInv
<1>2. Inv => Complete
  BY Zenon DEF Inv, QueryInv
<1> QED BY <1>1, <1>2, InitInv, PTL DEF TimelySpec
=============================================================================
