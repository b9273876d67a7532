--------------------------- MODULE HandoffProofs ---------------------------
(***************************************************************************)
(* The proof that a compaction loses nothing (OnlyRetired, Recoverable and *)
(* Served of Handoff), for any files, limits, grace period, crashes and    *)
(* failures, in every behaviour without the two timings that Handoff calls *)
(* Unrecorded and Overtakes; and, in every behaviour, type correctness.    *)
(*                                                                         *)
(* A merged file is named by its inputs, so a notice that comes again names*)
(* the same output.  What has to be ruled out is that an output is retired *)
(* and comes back: the compactor never plans from an index older than one  *)
(* it has planned from, and once an output is in the index its inputs are  *)
(* not.                                                                    *)
(***************************************************************************)
EXTENDS Handoff, NumberLemmas, FiniteSetTheorems

Prefix(p) == {m \in manifests : m.seq <= p}
Added(M) == UNION {m.added : m \in M}
Removed(M) == UNION {m.removed : m \in M}
GroupOf(h) == UNION {f.from : f \in h.added}

-----------------------------------------------------------------------------
(* What every behaviour keeps                                              *)

(* Every path anybody knows: the store and the owner, the compactor. *)
OwnerPaths == objects \cup memory \cup Added(manifests) \cup Added(handlers)
CompactorPaths == due \cup notice \cup (UNION plan) \cup {e.path : e \in pending \cup queue}
Known == OwnerPaths \cup CompactorPaths

HandlerShape(h) ==
  /\ h = Handler(h.stage, h.added, h.removed, h.seq, h.heard)
  /\ h.stage \in {"reserve", "persist"} /\ h.seq \in Nat /\ h.heard \in BOOLEAN
  /\ \E f : h.added = {f}
  /\ h.stage = "persist" => h.seq \in 1..(next - 1)
NumberInv ==
  /\ next \in Nat \ {0} /\ \A m \in manifests : m.seq \in 1..(next - 1)
  /\ IsFiniteSet(Added(manifests))
  /\ drained \subseteq manifests /\ pos \in Nat
  /\ \A h \in handlers : HandlerShape(h)

(* The compactor's own bookkeeping. *)
Entry(e) == \E w \in 0..Grace : e = [path |-> e.path, wait |-> w]
ControlInv ==
  /\ pc \in {"load", "idle", "group", "notify", "save", "delete", "saveShorter"}
  /\ reply \in {"none", "ok", "error"}
  /\ crashes \in [{"owner", "compactor"} -> 0..MaxCrashes]
  /\ pc # "notify" => notice = {}
  /\ \A e \in pending \cup queue : Entry(e)

TypeInv == NumberInv /\ ControlInv /\ \A f \in Known : Path(f)

-----------------------------------------------------------------------------
(* What the timely ones keep                                               *)

(* The index has every manifest up to its position: nothing is under way below
   what is drained.                                                        *)
OrderInv ==
  /\ pos \in 0..LastSeq(drained)
  /\ \A m \in manifests : m.seq <= LastSeq(drained) => m \in drained
  /\ \A h \in handlers : h.stage = "persist" =>
       h.seq > LastSeq(drained) /\ \A m \in manifests : m.seq # h.seq
  /\ \A h, k \in handlers :
       h.stage = "persist" /\ k.stage = "persist" /\ h.seq = k.seq => h = k

(* A file is added by one manifest, and removed by later ones. *)
OnceInv ==
  /\ \A m, n \in manifests : m.seq = n.seq => m = n
  /\ \A m, n \in manifests : \A f \in m.added : f \in n.added => m = n
  /\ \A m, n \in manifests : \A f \in m.added : f \in n.removed => m.seq < n.seq
  /\ Removed(manifests) \subseteq Added(manifests)

(* A manifest that adds a merged file removes its inputs, unless one below it
   has. *)
RetiredInv ==
  \A m \in manifests : \A f \in m.added : \A x \in f.from :
    \E l \in manifests : l.seq <= m.seq /\ x \in l.removed

(* A handler has swapped the files of g for their merge, which no manifest has
   added yet, and its manifest will be above those that added or removed them. *)
Above(h, n) == h.stage = "persist" => n < h.seq
HandlerOK(h, g) ==
  /\ h.added = {MergedFile(g)} /\ h.removed \subseteq Durable \cap g
  /\ g # {} /\ g \cap memory = {} /\ g \subseteq Added(manifests)
  /\ MergedFile(g) \in memory \ Added(manifests)
  /\ \A x \in g \ h.removed : \E l \in manifests : x \in l.removed /\ Above(h, l.seq)
  /\ \A m \in manifests : \A x \in m.added : x \in h.removed => Above(h, m.seq)
  /\ h.heard => notice = g /\ pc = "notify" /\ reply = "none"
HandlerInv ==
  /\ \A h \in handlers : HandlerOK(h, GroupOf(h))
  /\ \A h, k \in handlers : h.added = k.added \/ h.removed \cap k.removed # {} => h = k

(* The groups of this pass are from a view, and every file that has ever been
   removed, or is about to be, was in manifests no newer than those of that
   view.                                                                   *)
PlannedAt(p) ==
  /\ \A g \in plan \cup {notice} : g \subseteq View(Prefix(p))
  /\ Removed(manifests) \cup (Durable \ memory) \subseteq Added(Prefix(p))
PlanInv ==
  /\ \E p \in 0..pos : PlannedAt(p)
  /\ {} \notin plan
  /\ pc = "notify" => notice # {}
  /\ pc = "notify" /\ reply = "none" => MergedFile(notice) \in objects
  /\ pc = "notify" /\ reply = "ok" => notice \subseteq Removed(manifests)

OwedPaths == {e.path : e \in pending \cup queue} \cup due
OwedInv ==
  /\ OwedPaths \subseteq Removed(manifests)
  /\ due # {} => pc = "delete"

StoreInv == Recoverable /\ Served /\ memory \cap Removed(manifests) = {}

Inv ==
  /\ OrderInv /\ OnceInv /\ RetiredInv /\ HandlerInv /\ PlanInv /\ OwedInv /\ StoreInv

-----------------------------------------------------------------------------
(* The plan: groups of two or more files of the index                      *)

LEMMA PackedFrom ==
  ASSUME NEW F, NEW s \in Seq(F), NEW g \in Groups(s)
  PROVE  g \subseteq F
<1> DEFINE A == [groups : SUBSET SUBSET F, current : SUBSET F]
           base == [groups |-> {}, current |-> {}]
           D == 0..Len(s)
           Def(p) == [n \in D |-> IF n = 0 THEN base ELSE Pack(p[n - 1], s[n])]
<1>1. Len(s) \in Nat /\ base \in A /\ \A n \in 1..Len(s) : s[n] \in F
  OBVIOUS
<1>2. ASSUME NEW acc \in A, NEW f \in F PROVE Pack(acc, f) \in A
  BY Zenon DEF Pack
<1> HIDE DEF A, base
<1> DEFINE Upto(p, k) == /\ p \in [0..k -> A] /\ p[0] = base
                         /\ \A n \in 1..k : p[n] = Pack(p[n - 1], s[n])
           E == {k \in Nat : k <= Len(s) => \E p : Upto(p, k)}
<1>3. 0 \in E
  <2>1. Upto([n \in 0..0 |-> base], 0)
    BY <1>1
  <2> QED BY <2>1, Zenon
<1>4. ASSUME NEW k \in Nat, k \in E PROVE k + 1 \in E
  <2> SUFFICES ASSUME k + 1 <= Len(s) PROVE \E p : Upto(p, k + 1)
    OBVIOUS
  <2>1. PICK p : Upto(p, k)
    BY <1>1, <1>4
  <2>2. p[k] \in A /\ s[k + 1] \in F /\ k + 1 \in Nat
    BY <1>1, <2>1
  <2>3. Pack(p[k], s[k + 1]) \in A
    BY <1>2, <2>2, Zenon
  <2>4. PICK r : r = [n \in 0..(k + 1) |-> IF n = k + 1 THEN Pack(p[k], s[k + 1]) ELSE p[n]]
    BY Zenon
  <2>5. r \in [0..(k + 1) -> A]
    BY <2>1, <2>3, <2>4
  <2>6. r[0] = base
    BY <2>1, <2>4
  <2>7. ASSUME NEW n \in 1..(k + 1) PROVE r[n] = Pack(r[n - 1], s[n])
    <3>1. CASE n = k + 1
      BY <2>4, <3>1
    <3>2. CASE n \in 1..k
      <4>1. r[n] = p[n] /\ r[n - 1] = p[n - 1]
        BY <2>4, <3>2
      <4> QED BY <2>1, <3>2, <4>1, Zenon
    <3> QED BY <3>1, <3>2
  <2> QED BY <2>5, <2>6, <2>7, Zenon
<1>5. PICK p : Upto(p, Len(s))
  <2> HIDE DEF Upto
  <2>1. Nat \subseteq E
    <3> HIDE DEF E
    <3> QED BY <1>3, <1>4, SetInduction, Zenon
  <2> QED BY <1>1, <2>1
<1>6. p = Def(p)
  <2>1. p = [n \in D |-> p[n]]
    BY <1>5, Zenon
  <2>2. \A n \in D : p[n] = IF n = 0 THEN base ELSE Pack(p[n - 1], s[n])
    BY <1>1, <1>5
  <2> QED BY <2>1, <2>2, Zenon
<1>7. Packed(s) = Def(Packed(s))
  BY <1>6, Zenon DEF Packed, base
<1> DEFINE q == Packed(s)
           I == {k \in Nat : k <= Len(s) => q[k] \in A}
<1>8. \A n \in D : q[n] = IF n = 0 THEN base ELSE Pack(q[n - 1], s[n])
  BY <1>7, Zenon
<1> HIDE DEF q
<1>9. 0 \in I
  BY <1>1, <1>8
<1>10. ASSUME NEW k \in Nat, k \in I PROVE k + 1 \in I
  <2> SUFFICES ASSUME k + 1 <= Len(s) PROVE q[k + 1] \in A
    OBVIOUS
  <2>1. q[k] \in A /\ s[k + 1] \in F /\ k + 1 \in D /\ k + 1 # 0 /\ (k + 1) - 1 = k
    BY <1>1, <1>10
  <2>2. q[k + 1] = Pack(q[k], s[k + 1])
    BY <1>8, <2>1, Zenon
  <2> QED BY <1>2, <2>1, <2>2, Zenon
<1>11. q[Len(s)] \in A
  <2>1. Nat \subseteq I
    <3> HIDE DEF I
    <3> QED BY <1>9, <1>10, SetInduction
  <2> QED BY <1>1, <2>1
<1>12. g \in q[Len(s)].groups \cup {q[Len(s)].current}
  BY Zenon DEF Groups, q
<1> QED BY <1>11, <1>12, Zenon DEF A

(* select_merges picks from the files it is given, and no group is empty. *)
LEMMA SelectsFrom ==
  ASSUME NEW F, IsFiniteSet(F), NEW cold, NEW P \in SelectMerges(F, cold), NEW g \in P
  PROVE  g \subseteq F /\ g # {}
<1> DEFINE E == Eligible(F, cold)
<1>1. E \subseteq F
  BY Zenon DEF Eligible
<1>2. PICK s \in Ordered(E) : P = Groups(s)
  BY Zenon DEF SelectMerges
<1> HIDE DEF E
<1>3. Cardinality(E) \in Nat
  BY <1>1, FS_Subset, FS_CardinalityType, Zenon
<1>4. s \in [1..Cardinality(E) -> E]
  BY Zenon DEF Ordered, Bijection, Injection
<1>5. s \in Seq(E)
  BY <1>3, <1>4
<1>6. g \subseteq E
  BY <1>2, <1>5, PackedFrom, Zenon
<1>7. Cardinality(g) >= 2
  BY <1>2, Zenon DEF Groups
<1> QED BY <1>1, <1>6, <1>7, FS_EmptySet

-----------------------------------------------------------------------------
(* Files and manifests                                                     *)

LEMMA FileFields ==
  /\ \A t, s : Gen1File(t, t, s).from = {} /\ Gen1File(t, t, s).rows = {t}
  /\ \A g : MergedFile(g).from = g /\ MergedFile(g).rows = UNION {f.rows : f \in g}
BY Zenon DEF Gen1File, MergedFile

LEMMA ManifestFields ==
  \A n, a, r : /\ Manifest(n, a, r).seq = n /\ Manifest(n, a, r).added = a
               /\ Manifest(n, a, r).removed = r
BY Zenon DEF Manifest

LEMMA UnheardFields ==
  ASSUME \A h \in handlers : h = Handler(h.stage, h.added, h.removed, h.seq, h.heard)
  PROVE  /\ \A k \in Unheard : \E h \in handlers :
              k = Handler(h.stage, h.added, h.removed, h.seq, FALSE)
         /\ \A h \in handlers : Handler(h.stage, h.added, h.removed, h.seq, FALSE) \in Unheard
<1>1. ASSUME NEW s, NEW a, NEW r, NEW n, NEW b, NEW v, NEW h, h = Handler(s, a, r, n, b)
      PROVE  [h EXCEPT !.heard = v] = Handler(s, a, r, n, v)
  BY <1>1 DEF Handler
<1>2. ASSUME NEW h \in handlers
      PROVE  [h EXCEPT !.heard = FALSE] = Handler(h.stage, h.added, h.removed, h.seq, FALSE)
  <2>1. PICK v : v = FALSE
    BY Zenon
  <2>2. [h EXCEPT !.heard = v] = Handler(h.stage, h.added, h.removed, h.seq, v)
    BY <1>1
  <2> QED BY <2>1, <2>2, Zenon
<1> QED BY <1>2, Zenon DEF Unheard

LEMMA ReserveFields ==
  ASSUME NEW h, h = Handler(h.stage, h.added, h.removed, h.seq, h.heard)
  PROVE  [h EXCEPT !.stage = "persist", !.seq = next]
           = Handler("persist", h.added, h.removed, next, h.heard)
<1>1. ASSUME NEW s, NEW a, NEW r, NEW n, NEW b, NEW v, NEW k, k = Handler(s, a, r, n, b)
      PROVE  [k EXCEPT !.stage = v] = Handler(v, a, r, n, b)
  BY <1>1 DEF Handler
<1>2. ASSUME NEW s, NEW a, NEW r, NEW n, NEW b, NEW v, NEW k, k = Handler(s, a, r, n, b)
      PROVE  [k EXCEPT !.seq = v] = Handler(s, a, r, v, b)
  BY <1>2 DEF Handler
<1>3. PICK x : x = [h EXCEPT !.stage = "persist"]
  BY Zenon
<1>4. x = Handler("persist", h.added, h.removed, h.seq, h.heard)
  BY <1>1, <1>3
<1>5. [x EXCEPT !.seq = next] = Handler("persist", h.added, h.removed, next, h.heard)
  BY <1>2, <1>4
<1>6. [h EXCEPT !.stage = "persist", !.seq = next] = [[h EXCEPT !.stage = "persist"] EXCEPT !.seq = next]
  BY Zenon
<1> QED BY <1>3, <1>5, <1>6, Zenon

LEMMA ViewAdded ==
  ASSUME NEW M
  PROVE  View(M) \subseteq Added(M)
BY Zenon DEF View, Added

(* The newest number of some manifests, all of them below a bound. *)
LEMMA LastSeqIs ==
  ASSUME NEW M, NEW b \in Nat, \A m \in M : m.seq \in 0..b
  PROVE  /\ LastSeq(M) \in 0..b /\ \A m \in M : m.seq <= LastSeq(M)
         /\ LastSeq(M) = 0 \/ \E m \in M : m.seq = LastSeq(M)
<1>1. PICK S : S = {m.seq : m \in M} \cup {0}
  BY Zenon
<1>2. PICK n : n = LastSeq(M)
  BY Zenon
<1>3. n = Max(S)
  BY <1>1, <1>2, Zenon DEF LastSeq
<1>4. /\ n \in 0..b /\ \A m \in M : m.seq <= n
      /\ n = 0 \/ \E m \in M : m.seq = n
  BY <1>1, <1>3, LastNumber, Zenon
<1> QED BY <1>2, <1>4, Zenon

LEMMA SoonerEntries ==
  ASSUME NEW S, \A e \in S : Entry(e)
  PROVE  /\ \A e \in Sooner(S) : Entry(e)
         /\ {e.path : e \in Sooner(S)} = {e.path : e \in S}
<1>1. ASSUME NEW e \in S
      PROVE  \E w \in 0..Grace : [e EXCEPT !.wait = Max({@ - 1, 0})] = [path |-> e.path, wait |-> w]
  <2>1. PICK v \in 0..Grace : e = [path |-> e.path, wait |-> v]
    BY Zenon DEF Entry
  <2>2. e.wait = v
    BY <2>1
  <2>3. v - 1 \in Int /\ 0 \in Int /\ Grace \in Nat
    BY <2>1, HandoffAssumption
  <2>4. Max({v - 1, 0}) \in 0..Grace
    <3>1. \E y \in {v - 1, 0} : \A x \in {v - 1, 0} : y >= x
      BY <2>3
    <3>2. Max({v - 1, 0}) \in {v - 1, 0} /\ Max({v - 1, 0}) >= 0
      BY <3>1, Zenon DEF Max
    <3> QED BY <2>1, <2>3, <3>2
  <2>5. PICK w : w = Max({v - 1, 0})
    BY Zenon
  <2>6. [e EXCEPT !.wait = Max({@ - 1, 0})] = [e EXCEPT !.wait = w]
    BY <2>2, <2>5, Zenon
  <2>7. ASSUME NEW p, NEW a, NEW x, x = [path |-> p, wait |-> a]
        PROVE  [x EXCEPT !.wait = w] = [path |-> p, wait |-> w]
    BY <2>7
  <2>8. [e EXCEPT !.wait = w] = [path |-> e.path, wait |-> w]
    BY <2>1, <2>7, Zenon
  <2> QED BY <2>4, <2>5, <2>6, <2>8, Zenon
<1>2. ASSUME NEW e \in S
      PROVE  LET d == [e EXCEPT !.wait = Max({@ - 1, 0})] IN Entry(d) /\ d.path = e.path
  <2>1. PICK d : d = [e EXCEPT !.wait = Max({@ - 1, 0})]
    BY Zenon
  <2>2. PICK w \in 0..Grace : d = [path |-> e.path, wait |-> w]
    BY <1>1, <2>1, Zenon
  <2>3. d.path = e.path
    BY <2>2, Zenon
  <2>4. Entry(d)
    BY <2>2, <2>3, Zenon DEF Entry
  <2> QED BY <2>1, <2>3, <2>4, Zenon
<1> QED BY <1>2, Zenon DEF Sooner

-----------------------------------------------------------------------------
(* Types, in every behaviour                                               *)

LEMMA Numbers ==
  ASSUME NumberInv
  PROVE  /\ next \in Nat /\ next > 0 /\ \A m \in manifests : m.seq \in Nat /\ m.seq < next /\ m.seq > 0
         /\ LastSeq(drained) \in Nat /\ LastSeq(drained) < next
         /\ \A m \in drained : m.seq <= LastSeq(drained)
         /\ LastSeq(manifests) \in Nat /\ LastSeq(manifests) < next
         /\ \A m \in manifests : m.seq <= LastSeq(manifests)
         /\ LastSeq(drained) = 0 \/ \E m \in drained : m.seq = LastSeq(drained)
         /\ LastSeq(manifests) = 0 \/ \E m \in manifests : m.seq = LastSeq(manifests)
         /\ drained \subseteq manifests
<1>1. next \in Nat /\ next > 0 /\ next - 1 \in Nat
  BY DEF NumberInv
<1>2. \A m \in manifests : m.seq \in 0..(next - 1) /\ m.seq \in Nat /\ m.seq < next /\ m.seq > 0
  BY DEF NumberInv
<1>3. drained \subseteq manifests
  BY Zenon DEF NumberInv
<1>4. /\ LastSeq(manifests) \in 0..(next - 1) /\ \A m \in manifests : m.seq <= LastSeq(manifests)
      /\ LastSeq(manifests) = 0 \/ \E m \in manifests : m.seq = LastSeq(manifests)
  BY <1>1, <1>2, LastSeqIs, Zenon
<1>5. /\ LastSeq(drained) \in 0..(next - 1) /\ \A m \in drained : m.seq <= LastSeq(drained)
      /\ LastSeq(drained) = 0 \/ \E m \in drained : m.seq = LastSeq(drained)
  <2>1. \A m \in drained : m.seq \in 0..(next - 1)
    BY <1>2, <1>3, Zenon
  <2> QED BY <1>1, <2>1, LastSeqIs, Zenon
<1>6. \A x \in 0..(next - 1) : x \in Nat /\ x < next
  BY <1>1
<1> QED BY <1>1, <1>2, <1>3, <1>4, <1>5, <1>6, Zenon

(* Steps that leave the manifests and the numbers alone, and start no handler. *)
LEMMA NumbersKept ==
  ASSUME NumberInv, UNCHANGED <<manifests, next, drained, pos>>,
         handlers' \subseteq handlers \/ handlers' = Unheard
  PROVE  /\ NumberInv' /\ Added(handlers)' \subseteq Added(handlers)
<1>1. \A h \in handlers : HandlerShape(h)
  BY Zenon DEF NumberInv
<1>2. ASSUME NEW k \in handlers'
      PROVE  HandlerShape(k)' /\ \E h \in handlers : k.added = h.added
  <2>1. CASE k \in handlers
    <3>1. HandlerShape(k)
      BY <1>1, <2>1, Zenon
    <3> QED BY <2>1, <3>1, Zenon DEF HandlerShape, Handler
  <2>2. CASE handlers' = Unheard
    <3>1. PICK h \in handlers : k = Handler(h.stage, h.added, h.removed, h.seq, FALSE)
      BY <1>1, <1>2, <2>2, UnheardFields, Zenon DEF HandlerShape
    <3>2. /\ k.stage = h.stage /\ k.added = h.added /\ k.removed = h.removed /\ k.seq = h.seq
          /\ k.heard = FALSE
      BY <3>1, Zenon DEF Handler
    <3>3. HandlerShape(h)
      BY <1>1, Zenon
    <3> QED BY <3>1, <3>2, <3>3, Zenon DEF HandlerShape, Handler
  <2> QED BY <1>2, <2>1, <2>2, Zenon
<1>3. Added(handlers)' \subseteq Added(handlers)
  BY <1>2, Zenon DEF Added
<1>4. NumberInv'
  BY <1>2, Zenon DEF NumberInv, Added
<1> QED BY <1>3, <1>4

(* A manifest of one file is added, with a new number or a reserved one. *)
LEMMA NumbersAdd ==
  ASSUME NumberInv, NEW m, NEW f, m.added = {f}, m.seq \in 1..(next' - 1),
         manifests' \in {manifests, manifests \cup {m}},
         handlers' \subseteq handlers,
         next' \in {next, next + 1}, UNCHANGED <<drained, pos>>
  PROVE  NumberInv' /\ Added(manifests)' \subseteq Added(manifests) \cup {f}
<1>1. next \in Nat \ {0} /\ \A l \in manifests : l.seq \in 1..(next - 1)
  BY Zenon DEF NumberInv
<1>2. next' \in Nat \ {0} /\ \A n \in 1..(next - 1) : n \in 1..(next' - 1)
  <2>1. next' = next \/ next' = next + 1
    BY Zenon
  <2>2. CASE next' = next
    BY <1>1, <2>2
  <2>3. CASE next' = next + 1
    BY <1>1, <2>3
  <2> QED BY <2>1, <2>2, <2>3
<1>3. \A l \in manifests' : l.seq \in 1..(next' - 1)
  BY <1>1, <1>2, Zenon
<1>4. \A h \in handlers' : HandlerShape(h)'
  <2> SUFFICES ASSUME NEW h \in handlers' PROVE HandlerShape(h)'
    OBVIOUS
  <2>1. HandlerShape(h)
    BY Zenon DEF NumberInv
  <2> QED BY <1>2, <2>1, Zenon DEF HandlerShape, Handler
<1>5. Added(manifests)' \in {Added(manifests), Added(manifests) \cup {f}}
  BY Zenon DEF Added
<1>6. IsFiniteSet(Added(manifests)')
  <2>1. IsFiniteSet(Added(manifests))
    BY Zenon DEF NumberInv
  <2>2. IsFiniteSet(Added(manifests) \cup {f})
    BY <2>1, FS_AddElement, Zenon
  <2>3. CASE Added(manifests)' = Added(manifests)
    BY <2>1, <2>3, Zenon
  <2>4. CASE Added(manifests)' = Added(manifests) \cup {f}
    BY <2>2, <2>4, Zenon
  <2> QED BY <1>5, <2>3, <2>4, Zenon
<1>7. drained' \subseteq manifests' /\ pos' \in Nat
  BY Zenon DEF NumberInv
<1>8. NumberInv'
  BY <1>2, <1>3, <1>4, <1>6, <1>7, Zenon DEF NumberInv
<1> QED BY <1>5, <1>8, Zenon

(* One file at most is new, and that is a path. *)
LEMMA PathsKept ==
  ASSUME \A f \in Known : Path(f), NEW S, \A f \in S : Path(f), Known' \subseteq Known \cup S
  PROVE  \A f \in Known' : Path(f)'
BY Zenon DEF Path, Gen1File, MergedFile

LEMMA OwnerPathsKept ==
  ASSUME TypeInv, UNCHANGED <<due, notice, plan, pending, queue>>,
         NEW S, \A f \in S : Path(f), OwnerPaths' \subseteq OwnerPaths \cup S
  PROVE  \A f \in Known' : Path(f)'
<1>1. CompactorPaths' = CompactorPaths
  BY Zenon DEF CompactorPaths
<1>2. Known' \subseteq Known \cup S
  BY <1>1, Zenon DEF Known
<1> QED BY <1>2, PathsKept, Zenon DEF TypeInv

LEMMA MergedPath ==
  ASSUME NEW g
  PROVE  Path(MergedFile(g))
BY FileFields, Zenon DEF Path

-----------------------------------------------------------------------------
(* Each step keeps the types                                               *)

LEMMA TypeSwap == ASSUME TypeInv, HandlerSwap PROVE TypeInv'
<1> DEFINE merged == MergedFile(notice)
           k == Handler("reserve", {merged}, memory \cap notice, 0, TRUE)
<1>1. /\ handlers' \in {handlers, handlers \cup {k}} /\ reply' \in {reply, "ok"}
      /\ memory' \subseteq memory \cup {merged}
      /\ UNCHANGED <<objects, manifests, queue, next, drained, pos, pc, plan, notice, pending,
                     due, crashes>>
  BY Zenon DEF HandlerSwap, storeVars, indexVars
<1>2. k.stage = "reserve" /\ k.added = {merged} /\ k.seq = 0 /\ k.heard = TRUE
      /\ k = Handler(k.stage, k.added, k.removed, k.seq, k.heard)
  BY Zenon DEF Handler
<1>3. NumberInv'
  <2>1. 0 \in Nat
    OBVIOUS
  <2>2. HandlerShape(k)
    BY <1>2, <2>1, Zenon DEF HandlerShape
  <2> HIDE DEF k
  <2>3. \A h \in handlers' : HandlerShape(h)
    BY <1>1, <2>2, Zenon DEF TypeInv, NumberInv
  <2> QED BY <1>1, <2>3, Zenon DEF TypeInv, NumberInv, HandlerShape, Handler, Added
<1>4. ControlInv'
  BY <1>1, Zenon DEF TypeInv, ControlInv, Entry
<1>5. \A f \in Known' : Path(f)'
  <2> HIDE DEF merged, k
  <2>1. Added(manifests)' = Added(manifests)
    BY <1>1, Zenon DEF Added
  <2>2. Added(handlers)' \subseteq Added(handlers) \cup {merged}
    BY <1>1, <1>2, Zenon DEF Added
  <2>3. PICK S : S = {merged}
    BY Zenon
  <2>4. OwnerPaths' \subseteq OwnerPaths \cup S
    BY <1>1, <2>1, <2>2, <2>3, Zenon DEF OwnerPaths
  <2>5. \A f \in S : Path(f)
    BY <2>3, MergedPath, Zenon DEF merged
  <2> QED BY <1>1, <2>4, <2>5, OwnerPathsKept, Zenon
<1> QED BY <1>3, <1>4, <1>5, Zenon DEF TypeInv

LEMMA TypeReserve == ASSUME TypeInv, NEW h \in handlers, HandlerReserve(h) PROVE TypeInv'
<1>1. PICK k : k = Handler("persist", h.added, h.removed, next, h.heard)
  BY Zenon
<1>2. HandlerShape(h)
  BY Zenon DEF TypeInv, NumberInv
<1>3. [h EXCEPT !.stage = "persist", !.seq = next] = k
  BY <1>1, <1>2, ReserveFields, Zenon DEF HandlerShape
<1>4. /\ handlers' = (handlers \ {h}) \cup {k} /\ next' = next + 1
      /\ UNCHANGED <<objects, manifests, queue, memory, drained, pos, pc, plan, notice, reply,
                     pending, due, crashes>>
  BY <1>3, Zenon DEF HandlerReserve, storeVars, indexVars, compVars
<1>5. /\ k.stage = "persist" /\ k.added = h.added /\ k.seq = next /\ k.heard = h.heard
      /\ k = Handler(k.stage, k.added, k.removed, k.seq, k.heard)
  BY <1>1, Zenon DEF Handler
<1>6. NumberInv'
  <2>1. next \in Nat \ {0}
    BY Zenon DEF TypeInv, NumberInv
  <2>2. /\ next' \in Nat \ {0} /\ next \in 1..(next' - 1) /\ next \in Nat
        /\ \A n \in 1..(next - 1) : n \in 1..(next' - 1)
    BY <1>4, <2>1
  <2>3. ASSUME NEW x \in handlers, HandlerShape(x) PROVE HandlerShape(x)'
    BY <2>2, <2>3, Zenon DEF HandlerShape, Handler
  <2>4. HandlerShape(k)'
    BY <1>2, <1>5, <2>2, Zenon DEF HandlerShape, Handler
  <2>5. \A x \in handlers' : HandlerShape(x)'
    BY <1>4, <2>3, <2>4, Zenon DEF TypeInv, NumberInv
  <2>6. \A m \in manifests' : m.seq \in 1..(next' - 1)
    BY <1>4, <2>2, Zenon DEF TypeInv, NumberInv
  <2> QED BY <1>4, <2>2, <2>5, <2>6, Zenon DEF TypeInv, NumberInv, Added
<1>7. ControlInv'
  BY <1>4, Zenon DEF TypeInv, ControlInv, Entry
<1>8. OwnerPaths' \subseteq OwnerPaths \cup {}
  <2>1. Added(handlers)' \subseteq Added(handlers)
    BY <1>4, <1>5, Zenon DEF Added
  <2>2. Added(manifests)' = Added(manifests)
    BY <1>4, Zenon DEF Added
  <2> QED BY <1>4, <2>1, <2>2, Zenon DEF OwnerPaths
<1> QED BY <1>4, <1>6, <1>7, <1>8, OwnerPathsKept, Zenon DEF TypeInv

(* The end of a handler: its manifest may be stored, and the answer is given. *)
LEMMA TypeEnd ==
  ASSUME TypeInv, NEW h \in handlers,
         HandlerPersist(h) \/ PersistFails(h) \/ HandlerDropped(h)
  PROVE  TypeInv'
<1>1. PICK m : m = Manifest(h.seq, h.added, h.removed)
  BY Zenon
<1>2. m.seq = h.seq /\ m.added = h.added
  BY <1>1, Zenon DEF Manifest
<1>3. /\ handlers' = handlers \ {h} /\ reply' \in {"ok", "error", reply}
      /\ manifests' \in {manifests, manifests \cup {m}}
      /\ UNCHANGED <<objects, queue, memory, next, drained, pos, pc, plan, notice, pending, due,
                     crashes>>
      /\ manifests' # manifests => h.stage = "persist"
  BY <1>1, Zenon DEF HandlerPersist, PersistFails, HandlerDropped, Answer, storeVars, indexVars,
                     compVars
<1>4. HandlerShape(h) /\ NumberInv
  BY Zenon DEF TypeInv, NumberInv
<1>5. NumberInv' /\ Added(manifests)' \cup Added(handlers)' \subseteq Added(manifests) \cup Added(handlers)
  <2>1. CASE manifests' = manifests
    BY <1>3, <1>4, <2>1, NumbersKept, Zenon DEF Added
  <2>2. CASE manifests' # manifests
    <3>1. PICK f : h.added = {f}
      BY <1>4, Zenon DEF HandlerShape
    <3>2. m.seq \in 1..(next' - 1)
      BY <1>2, <1>3, <1>4, <2>2, Zenon DEF HandlerShape
    <3>3. NumberInv' /\ Added(manifests)' \subseteq Added(manifests) \cup {f}
      BY <1>2, <1>3, <1>4, <3>1, <3>2, NumbersAdd, Zenon
    <3>4. f \in Added(handlers) /\ Added(handlers)' \subseteq Added(handlers)
      BY <1>3, <3>1, Zenon DEF Added
    <3> QED BY <3>3, <3>4, Zenon
  <2> QED BY <2>1, <2>2
<1>6. ControlInv'
  BY <1>3, Zenon DEF TypeInv, ControlInv, Entry
<1>7. OwnerPaths' \subseteq OwnerPaths \cup {}
  BY <1>3, <1>5, Zenon DEF OwnerPaths
<1> QED BY <1>3, <1>5, <1>6, <1>7, OwnerPathsKept, Zenon DEF TypeInv

LEMMA TypeIngest ==
  ASSUME TypeInv, NEW t \in Times, NEW size \in SizesOf[t], Ingest(t, size)
  PROVE  TypeInv'
<1>1. PICK f : f = Gen1File(t, t, size)
  BY Zenon
<1>2. PICK m : m = Manifest(next, {f}, {})
  BY Zenon
<1>3. /\ objects' = objects \cup {f} /\ memory' = memory \cup {f}
      /\ manifests' = manifests \cup {m} /\ next' = next + 1
      /\ UNCHANGED <<queue, handlers, drained, pos, pc, plan, notice, reply, pending, due,
                     crashes>>
  BY <1>1, <1>2, Zenon DEF Ingest, indexVars, compVars
<1>4. m.seq = next /\ m.added = {f}
  BY <1>2, ManifestFields, Zenon
<1>5. NumberInv' /\ Added(manifests)' \subseteq Added(manifests) \cup {f}
  <2>1. next \in Nat \ {0} /\ NumberInv
    BY Zenon DEF TypeInv, NumberInv
  <2>2. m.seq \in 1..(next' - 1)
    BY <1>3, <1>4, <2>1
  <2> QED BY <1>3, <1>4, <2>1, <2>2, NumbersAdd, Zenon
<1>6. ControlInv'
  BY <1>3, Zenon DEF TypeInv, ControlInv, Entry
<1>7. OwnerPaths' \subseteq OwnerPaths \cup {f}
  <2>1. Added(handlers)' = Added(handlers)
    BY <1>3, Zenon DEF Added
  <2> QED BY <1>3, <1>5, <2>1, Zenon DEF OwnerPaths
<1>8. Path(f)
  BY <1>1, Zenon DEF Path
<1> QED BY <1>3, <1>5, <1>6, <1>7, <1>8, OwnerPathsKept, Zenon DEF TypeInv

LEMMA TypeCrash == ASSUME TypeInv, OwnerCrash PROVE TypeInv'
<1>1. /\ memory' = Durable /\ next' = LastSeq(manifests) + 1 /\ handlers' = {}
      /\ reply' \in {reply, "error"} /\ crashes["owner"] < MaxCrashes
      /\ crashes' = [crashes EXCEPT !["owner"] = @ + 1]
      /\ UNCHANGED <<objects, manifests, queue, drained, pos, pc, plan, notice, pending, due>>
  BY Zenon DEF OwnerCrash, storeVars, indexVars
<1>2. NumberInv'
  <2>1. LastSeq(manifests) \in Nat /\ \A m \in manifests : m.seq \in Nat /\ m.seq > 0 /\ m.seq <= LastSeq(manifests)
    BY Numbers, Zenon DEF TypeInv
  <2>2. next' \in Nat \ {0} /\ \A m \in manifests' : m.seq \in 1..(next' - 1)
    BY <1>1, <2>1
  <2> QED BY <1>1, <2>2, Zenon DEF TypeInv, NumberInv, Added
<1>3. ControlInv'
  <2>1. crashes \in [{"owner", "compactor"} -> 0..MaxCrashes]
    BY Zenon DEF TypeInv, ControlInv
  <2>2. crashes' \in [{"owner", "compactor"} -> 0..MaxCrashes]
    BY <1>1, <2>1, HandoffAssumption
  <2> QED BY <1>1, <2>2, Zenon DEF TypeInv, ControlInv, Entry
<1>4. OwnerPaths' \subseteq OwnerPaths \cup {}
  <2>1. memory' \subseteq Added(manifests)
    BY <1>1, ViewAdded, Zenon DEF Durable
  <2>2. Added(manifests)' = Added(manifests) /\ Added(handlers)' = {}
    BY <1>1, Zenon DEF Added
  <2> QED BY <1>1, <2>1, <2>2, Zenon DEF OwnerPaths
<1> QED BY <1>1, <1>2, <1>3, <1>4, OwnerPathsKept, Zenon DEF TypeInv

LEMMA TypeIndex == ASSUME TypeInv, Publish \/ SyncIndex PROVE TypeInv'
<1>1. /\ drained' \subseteq manifests' /\ pos' \in {pos, LastSeq(drained)}
      /\ UNCHANGED <<objects, manifests, queue, memory, next, handlers, pc, plan, notice, reply,
                     pending, due, crashes>>
  BY Zenon DEF Publish, SyncIndex, Undrained, TypeInv, NumberInv, storeVars, ownerVars, compVars
<1>2. pos' \in Nat
  BY <1>1, Numbers, Zenon DEF TypeInv, NumberInv
<1>3. NumberInv' /\ ControlInv'
  BY <1>1, <1>2, Zenon DEF TypeInv, NumberInv, ControlInv, Entry, HandlerShape, Handler, Added
<1>4. OwnerPaths' \subseteq OwnerPaths \cup {}
  BY <1>1, Zenon DEF OwnerPaths, Added
<1> QED BY <1>1, <1>3, <1>4, OwnerPathsKept, Zenon DEF TypeInv

LEMMA TypeCompactorKept ==
  ASSUME TypeInv, ControlInv', UNCHANGED <<manifests, memory, next, drained, pos>>,
         handlers' = handlers \/ handlers' = Unheard,
         NEW S, \A f \in S : Path(f), objects' \subseteq objects \cup S,
         CompactorPaths' \subseteq CompactorPaths \cup OwnerPaths
  PROVE  TypeInv'
<1>1. NumberInv' /\ Added(handlers)' \subseteq Added(handlers)
  <2>1. handlers' \subseteq handlers \/ handlers' = Unheard
    BY Zenon
  <2> QED BY <2>1, NumbersKept, Zenon DEF TypeInv
<1>2. Added(manifests)' = Added(manifests)
  BY Zenon DEF Added
<1>3. OwnerPaths' \subseteq OwnerPaths \cup S
  BY <1>1, <1>2, Zenon DEF OwnerPaths
<1>4. Known' \subseteq Known \cup S
  BY <1>3, Zenon DEF Known
<1> QED BY <1>1, <1>4, PathsKept, Zenon DEF TypeInv

(* What the index holds. *)
LEMMA IndexIs ==
  ASSUME NumberInv
  PROVE  Index \subseteq Added(manifests) /\ IsFiniteSet(Index)
<1>1. Index \subseteq Added(manifests)
  <2>1. Index \subseteq Added({m \in drained : m.seq <= pos})
    BY ViewAdded, Zenon DEF Index
  <2> QED BY <2>1, Zenon DEF Added, NumberInv
<1>2. IsFiniteSet(Added(manifests))
  BY Zenon DEF NumberInv
<1> QED BY <1>1, <1>2, FS_Subset, Zenon

LEMMA OwedEntries ==
  ASSUME NEW S, NEW e \in Owed(S)
  PROVE  Entry(e) /\ e.path \in S
<1>1. PICK f \in S : e = [path |-> f, wait |-> Grace]
  BY Zenon DEF Owed
<1>2. Grace \in 0..Grace
  BY HandoffAssumption
<1>3. e.path = f
  BY <1>1, Zenon
<1> QED BY <1>1, <1>2, <1>3, Zenon DEF Entry

(* The compactor keeps its entries in order, and names no path nobody knew. *)
LEMMA TypeCompactor ==
  ASSUME TypeInv, CompactorStep \/ CompactorCrash
  PROVE  TypeInv'
<1> DEFINE Kept == UNCHANGED <<manifests, memory, next, drained, pos>>
           Same == handlers' = handlers /\ objects' \subseteq objects /\ crashes' = crashes
<1>1. ControlInv /\ NumberInv
  BY Zenon DEF TypeInv
<1> USE DEF ControlInv
<1>2. ASSUME Kept, handlers' = handlers \/ handlers' = Unheard, objects' \subseteq objects,
             ControlInv', CompactorPaths' \subseteq CompactorPaths \cup OwnerPaths
      PROVE  TypeInv'
  <2>1. PICK S : S = {}
    BY Zenon
  <2>2. objects' \subseteq objects \cup S /\ \A f \in S : Path(f)
    BY <1>2, <2>1, Zenon
  <2> HIDE DEF ControlInv
  <2> QED BY <1>2, <2>2, TypeCompactorKept, Zenon
<1>3. ASSUME Kept, Same, ControlInv', UNCHANGED plan, due' \subseteq due, notice' \subseteq notice,
             \A e \in pending' \cup queue' : e \in pending \cup queue
      PROVE  TypeInv'
  <2>1. CompactorPaths' \subseteq CompactorPaths
    BY <1>3, Zenon DEF CompactorPaths
  <2> HIDE DEF ControlInv
  <2> QED BY <1>2, <1>3, <2>1, Zenon
<1>4. CASE LoadQueue
  <2>1. Kept /\ Same /\ UNCHANGED <<plan, due, notice, queue, reply>> /\ pc = "load" /\ pc' = "idle"
        /\ pending' \in {queue, {}}
    BY <1>4, Zenon DEF LoadQueue, storeVars, ownerVars, indexVars
  <2>2. \A e \in pending' \cup queue' : e \in pending \cup queue
    BY <2>1, Zenon
  <2>3. ControlInv'
    BY <1>1, <2>1, <2>2, Zenon DEF Entry
  <2> QED BY <1>3, <2>1, <2>2, <2>3, Zenon
<1>5. CASE PassStart
  <2>1. /\ Kept /\ Same /\ UNCHANGED <<due, notice, reply>> /\ pc = "idle" /\ pc' = "group"
        /\ pending' = Sooner(pending) /\ queue' = Sooner(queue)
    BY <1>5, Zenon DEF PassStart, storeVars, ownerVars, indexVars
  <2>2. PICK cold : plan' \in SelectMerges(Index, cold)
    BY <1>5, Zenon DEF PassStart
  <2>3. UNION plan' \subseteq OwnerPaths
    <3>1. \A g \in plan' : g \subseteq Index
      BY <1>1, <2>2, IndexIs, SelectsFrom, Zenon
    <3> QED BY <1>1, <3>1, IndexIs, Zenon DEF OwnerPaths
  <2>4. /\ \A e \in Sooner(pending) \cup Sooner(queue) : Entry(e)
        /\ {e.path : e \in Sooner(pending)} = {e.path : e \in pending}
        /\ {e.path : e \in Sooner(queue)} = {e.path : e \in queue}
    <3>1. (\A e \in pending : Entry(e)) /\ (\A e \in queue : Entry(e))
      BY <1>1, Zenon
    <3> QED BY <3>1, SoonerEntries, Zenon
  <2>5. ControlInv'
    BY <1>1, <2>1, <2>4, Zenon DEF Entry
  <2>6. {e.path : e \in pending' \cup queue'} \subseteq {e.path : e \in pending \cup queue}
    <3>1. ASSUME NEW e \in pending' \cup queue' PROVE \E x \in pending \cup queue : e.path = x.path
      <4>1. CASE e \in pending'
        <5>1. e.path \in {x.path : x \in pending}
          BY <2>1, <2>4, <4>1, Zenon
        <5> QED BY <5>1
      <4>2. CASE e \in queue'
        <5>1. e.path \in {x.path : x \in queue}
          BY <2>1, <2>4, <4>2, Zenon
        <5> QED BY <5>1
      <4> QED BY <3>1, <4>1, <4>2, Zenon
    <3> QED BY <3>1, Zenon
  <2>7. CompactorPaths' \subseteq CompactorPaths \cup OwnerPaths
    BY <2>1, <2>3, <2>6, Zenon DEF CompactorPaths
  <2> QED BY <1>2, <2>1, <2>5, <2>7, Zenon
<1>6. CASE NotifyFails \/ NotifyError
  <2>1. /\ Kept /\ handlers' \in {handlers, Unheard} /\ notice' = {} /\ reply' = "none" /\ pc' = "group"
        /\ UNCHANGED <<objects, plan, due, pending, queue, crashes>>
    BY <1>6, Zenon DEF NotifyFails, NotifyError, storeVars, ownerVars, indexVars
  <2>2. ControlInv'
    BY <1>1, <2>1, Zenon DEF Entry
  <2>3. CompactorPaths' \subseteq CompactorPaths
    BY <2>1, Zenon DEF CompactorPaths
  <2> QED BY <1>2, <2>1, <2>2, <2>3, Zenon
<1>7. CASE Schedule
  <2>1. /\ Kept /\ Same /\ notice' = {} /\ reply' = "none" /\ pc' = "save"
        /\ pending' = pending \cup Owed(notice)
        /\ UNCHANGED <<plan, due, queue>>
    BY <1>7, Zenon DEF Schedule, storeVars, ownerVars, indexVars
  <2>2. ControlInv'
    BY <1>1, <2>1, OwedEntries, Zenon DEF Entry
  <2>3. {e.path : e \in pending' \cup queue'} \subseteq {e.path : e \in pending \cup queue} \cup notice
    BY <2>1, OwedEntries, Zenon
  <2>4. CompactorPaths' \subseteq CompactorPaths
    BY <2>1, <2>3, Zenon DEF CompactorPaths
  <2> QED BY <1>2, <2>1, <2>2, <2>4, Zenon
<1>8. CASE Save
  <2>1. /\ Kept /\ Same /\ UNCHANGED <<plan, due, notice, reply, pending>>
        /\ pc \in {"save", "saveShorter"} /\ pc' \in {"group", "idle"} /\ queue' \in {pending, queue}
    BY <1>8, Zenon DEF Save, storeVars, ownerVars, indexVars
  <2>2. \A e \in pending' \cup queue' : e \in pending \cup queue
    BY <2>1, Zenon
  <2>3. ControlInv'
    BY <1>1, <2>1, <2>2, Zenon DEF Entry
  <2> QED BY <1>3, <2>1, <2>2, <2>3, Zenon
<1>9. CASE Reclaim
  <2>1. /\ Kept /\ Same /\ UNCHANGED <<plan, notice, reply, queue>>
        /\ pc = "group" /\ pc' \in {"idle", "delete"} /\ pending' \subseteq pending
        /\ due' \subseteq {e.path : e \in pending}
    BY <1>9, Zenon DEF Reclaim, storeVars, ownerVars, indexVars
  <2>2. ControlInv'
    BY <1>1, <2>1, Zenon DEF Entry
  <2>3. CompactorPaths' \subseteq CompactorPaths
    BY <2>1, Zenon DEF CompactorPaths
  <2> QED BY <1>2, <2>1, <2>2, <2>3, Zenon
<1>10. ASSUME NEW g \in plan, Merge(g) PROVE TypeInv'
  <2>1. /\ Kept /\ handlers' = handlers /\ objects' = objects \cup {MergedFile(g)}
        /\ UNCHANGED <<due, pending, queue, crashes>>
        /\ plan' = plan \ {g} /\ notice' = g /\ reply' = "none" /\ pc' = "notify"
    BY <1>10, Zenon DEF Merge, storeVars, ownerVars, indexVars
  <2>2. ControlInv'
    BY <1>1, <2>1, Zenon DEF Entry
  <2>3. CompactorPaths' \subseteq CompactorPaths
    BY <2>1, Zenon DEF CompactorPaths
  <2>4. PICK S : S = {MergedFile(g)}
    BY Zenon
  <2>5. objects' \subseteq objects \cup S /\ \A f \in S : Path(f)
    BY <2>1, <2>4, MergedPath, Zenon
  <2> HIDE DEF ControlInv
  <2> QED BY <2>1, <2>2, <2>3, <2>5, TypeCompactorKept, Zenon
<1>11. ASSUME NEW g \in plan, MergeFails(g) PROVE TypeInv'
  <2>1. /\ Kept /\ Same /\ UNCHANGED <<due, notice, reply, pending, queue, pc>> /\ plan' = plan \ {g}
    BY <1>11, Zenon DEF MergeFails, storeVars, ownerVars, indexVars
  <2>2. ControlInv'
    BY <1>1, <2>1, Zenon DEF Entry
  <2>3. CompactorPaths' \subseteq CompactorPaths
    BY <2>1, Zenon DEF CompactorPaths
  <2> QED BY <1>2, <2>1, <2>2, <2>3, Zenon
<1>12. ASSUME NEW f \in due, Delete(f) PROVE TypeInv'
  <2>1. /\ Kept /\ Same /\ UNCHANGED <<plan, notice, reply, pending, queue>> /\ due' = due \ {f}
        /\ pc = "delete" /\ pc' \in {"saveShorter", "delete"}
    BY <1>12, Zenon DEF Delete, storeVars, ownerVars, indexVars
  <2>2. ControlInv'
    BY <1>1, <2>1, Zenon DEF Entry
  <2> QED BY <1>3, <2>1, <2>2, Zenon
<1>13. CASE CompactorCrash
  <2>1. /\ Kept /\ handlers' = Unheard /\ notice' = {} /\ reply' = "none" /\ pc' = "load"
        /\ plan' = {} /\ due' = {} /\ pending' = {} /\ UNCHANGED <<objects, queue>>
        /\ crashes["compactor"] < MaxCrashes /\ crashes' = [crashes EXCEPT !["compactor"] = @ + 1]
    BY <1>13, Zenon DEF CompactorCrash, storeVars, ownerVars, indexVars
  <2>2. crashes' \in [{"owner", "compactor"} -> 0..MaxCrashes]
    <3>1. crashes \in [{"owner", "compactor"} -> 0..MaxCrashes]
      BY <1>1, Zenon
    <3> QED BY <2>1, <3>1, HandoffAssumption
  <2>3. ControlInv'
    BY <1>1, <2>1, <2>2, Zenon DEF Entry
  <2>4. CompactorPaths' \subseteq CompactorPaths
    BY <2>1, Zenon DEF CompactorPaths
  <2> QED BY <1>2, <2>1, <2>3, <2>4, Zenon
<1> HIDE DEF Kept, Same, ControlInv
<1> QED BY <1>4, <1>5, <1>6, <1>7, <1>8, <1>9, <1>10, <1>11, <1>12, <1>13, Zenon DEF CompactorStep

LEMMA TypeInit == ASSUME Init PROVE TypeInv
<1>1. NumberInv
  <2>1. Added(manifests) = {}
    BY Zenon DEF Init, Added
  <2>2. next \in Nat \ {0} /\ pos \in Nat
    BY DEF Init
  <2> QED BY <2>1, <2>2, FS_EmptySet, Zenon DEF Init, NumberInv
<1>2. ControlInv
  <2>1. 0 \in 0..MaxCrashes
    BY HandoffAssumption
  <2> QED BY <2>1, Zenon DEF Init, ControlInv
<1>3. Known = {}
  BY Zenon DEF Init, Known, OwnerPaths, CompactorPaths, Added
<1> QED BY <1>1, <1>2, <1>3, Zenon DEF TypeInv

LEMMA TypeStep == ASSUME TypeInv, [Next]_vars PROVE TypeInv'
<1>1. CASE Next
  BY <1>1, TypeSwap, TypeReserve, TypeEnd, TypeIngest, TypeCrash, TypeIndex, TypeCompactor, Zenon
     DEF Next, Step, HandlerStep
<1>2. CASE UNCHANGED vars
  BY <1>2, Zenon DEF vars, storeVars, ownerVars, indexVars, compVars, TypeInv, NumberInv, ControlInv,
       Known, OwnerPaths, CompactorPaths, Added, Entry, HandlerShape, Handler, Path, Gen1File, MergedFile
<1> QED BY <1>1, <1>2

LEMMA TypeOKFollows == ASSUME TypeInv PROVE TypeOK
<1>1. NumberInv /\ ControlInv /\ \A f \in Known : Path(f)
  BY Zenon DEF TypeInv
<1>2. \A f \in objects \cup memory \cup due \cup notice : Path(f)
  BY <1>1, Zenon DEF Known, OwnerPaths, CompactorPaths
<1>3. ASSUME NEW e \in queue \cup pending PROVE Path(e.path) /\ e.wait \in 0..Grace
  <2>1. PICK w \in 0..Grace : e = [path |-> e.path, wait |-> w]
    BY <1>1, Zenon DEF ControlInv, Entry
  <2>2. e.wait = w
    BY <2>1
  <2>3. e.path \in Known
    BY Zenon DEF Known, CompactorPaths
  <2> QED BY <1>1, <2>2, <2>3, Zenon
<1> QED BY <1>1, <1>2, <1>3, Zenon DEF TypeOK, NumberInv, ControlInv, HandlerShape

(* In every behaviour, whatever fails and whatever the timing, the variables
   keep their types: the numbers a compaction reserves and the manifests stay
   below the owner's next number, also when it restarts and counts from its
   manifests again, and the compactor never owes or plans a path that is not a
   gen1 file or the output of a merge.                                     *)
THEOREM HandoffTypeOK == Spec => []TypeOK
<1>1. Init => TypeInv
  BY TypeInit
<1>2. TypeInv /\ [Next]_vars => TypeInv'
  BY TypeStep
<1>3. TypeInv => TypeOK
  BY TypeOKFollows
<1> QED BY <1>1, <1>2, <1>3, PTL DEF Spec

-----------------------------------------------------------------------------
(* Manifests that add every file once                                      *)

(* What manifests leave is what they add and do not remove, whatever the order. *)
LEMMA ViewIs ==
  ASSUME NEW M, \A m \in M : m.seq \in Nat,
         \A m, n \in M : \A f \in m.added : f \in n.removed => m.seq < n.seq
  PROVE  View(M) = Added(M) \ Removed(M)
<1>1. \A m, n \in M : m.seq < n.seq => n.seq > m.seq
  OBVIOUS
<1>2. ASSUME NEW f \in View(M) PROVE f \in Added(M) \ Removed(M)
  <2>1. PICK m \in M : f \in m.added /\ \A l \in M : l.seq > m.seq => f \notin l.removed
    BY <1>2, Zenon DEF View
  <2>2. ASSUME NEW l \in M, f \in l.removed PROVE FALSE
    BY <1>1, <2>1, <2>2, Zenon
  <2> QED BY <2>1, <2>2, Zenon DEF Added, Removed
<1>3. ASSUME NEW f \in Added(M) \ Removed(M) PROVE f \in View(M)
  BY <1>3, Zenon DEF View, Added, Removed
<1> QED BY <1>2, <1>3, Zenon

LEMMA DurableIs ==
  ASSUME NumberInv, OnceInv
  PROVE  /\ Durable = Added(manifests) \ Removed(manifests)
         /\ \A p : /\ View(Prefix(p)) = Added(Prefix(p)) \ Removed(Prefix(p))
                   /\ Added(Prefix(p)) \subseteq Added(manifests)
<1>1. \A p : Prefix(p) \in SUBSET manifests
  BY Zenon DEF Prefix
<1>2. \A m \in manifests : m.seq \in Nat
  BY Numbers, Zenon
<1>3. ASSUME NEW M \in SUBSET manifests PROVE View(M) = Added(M) \ Removed(M)
  BY <1>2, ViewIs, Zenon DEF OnceInv
<1>4. \A p : Added(Prefix(p)) \subseteq Added(manifests)
  BY <1>1, Zenon DEF Added
<1> QED BY <1>1, <1>3, <1>4, Zenon DEF Durable

LEMMA Same ==
  ASSUME UNCHANGED manifests
  PROVE  /\ Durable' = Durable /\ Added(manifests)' = Added(manifests)
         /\ Removed(manifests)' = Removed(manifests) /\ Ingested' = Ingested
         /\ \A p : /\ Added(Prefix(p))' = Added(Prefix(p))
                   /\ View(Prefix(p))' = View(Prefix(p))
BY Zenon DEF Durable, Added, Removed, Ingested, Prefix

LEMMA GroupOfMerged ==
  ASSUME NEW g, NEW h, h.added = {MergedFile(g)}
  PROVE  GroupOf(h) = g
<1>1. \A f : f \in h.added <=> f = MergedFile(g)
  BY Zenon
<1>2. MergedFile(g).from = g
  BY FileFields, Zenon
<1> QED BY <1>1, <1>2, Zenon DEF GroupOf

(* One more manifest m, that adds what none has added and removes files that
   those below it have. *)
New(m) ==
  /\ manifests' = manifests \cup {m}
  /\ m.seq \in Nat /\ \A l \in manifests : l.seq # m.seq
  /\ m.added \cap Added(manifests) = {} /\ m.removed \subseteq Added(manifests)
  /\ \A l \in manifests : \A x \in l.added : x \in m.removed => l.seq < m.seq
  /\ \A f \in m.added : \A x \in f.from :
       x \in m.removed \/ \E l \in manifests : l.seq < m.seq /\ x \in l.removed

LEMMA NewManifest ==
  ASSUME NumberInv, OnceInv, RetiredInv, NEW m, New(m)
  PROVE  /\ OnceInv' /\ RetiredInv'
         /\ Added(manifests)' = Added(manifests) \cup m.added
         /\ Removed(manifests)' = Removed(manifests) \cup m.removed
         /\ Durable' = (Durable \ m.removed) \cup m.added
         /\ \A p \in Nat : p < m.seq => /\ Added(Prefix(p))' = Added(Prefix(p))
                                        /\ View(Prefix(p))' = View(Prefix(p))
<1>1. \A l : l \in manifests' <=> l \in manifests \/ l = m
  BY Zenon DEF New
<1>2. /\ Added(manifests)' = Added(manifests) \cup m.added
      /\ Removed(manifests)' = Removed(manifests) \cup m.removed
  BY <1>1, Zenon DEF Added, Removed
<1>3. \A l \in manifests : l.seq \in Nat
  BY Numbers, Zenon
<1>4. OnceInv'
  <2>1. \A l, n \in manifests' : l.seq = n.seq => l = n
    BY <1>1, Zenon DEF OnceInv, New
  <2>2. \A l \in manifests : l.added \subseteq Added(manifests) /\ l.removed \subseteq Added(manifests)
    BY Zenon DEF OnceInv, Added, Removed
  <2>3. \A f \in m.added : f \notin Added(manifests) /\ f \notin m.removed
    BY Zenon DEF New
  <2>4. ASSUME NEW l \in manifests', NEW n \in manifests', NEW f \in l.added, f \in n.added
        PROVE  l = n
    BY <1>1, <2>2, <2>3, <2>4, Zenon DEF OnceInv
  <2>5. ASSUME NEW l \in manifests', NEW n \in manifests', NEW f \in l.added, f \in n.removed
        PROVE  l.seq < n.seq
    <3>1. CASE l = m
      BY <1>1, <2>2, <2>3, <2>5, <3>1, Zenon
    <3>2. CASE l \in manifests /\ n = m
      BY <2>5, <3>2, Zenon DEF New
    <3>3. CASE l \in manifests /\ n \in manifests
      BY <2>5, <3>3, Zenon DEF OnceInv
    <3> QED BY <1>1, <3>1, <3>2, <3>3, Zenon
  <2>6. Removed(manifests)' \subseteq Added(manifests)'
    BY <1>2, Zenon DEF OnceInv, New
  <2> QED BY <2>1, <2>4, <2>5, <2>6, Zenon DEF OnceInv
<1>5. RetiredInv'
  <2> SUFFICES ASSUME NEW n \in manifests', NEW f \in n.added, NEW x \in f.from
               PROVE  \E l \in manifests' : l.seq <= n.seq /\ x \in l.removed
    BY Zenon DEF RetiredInv
  <2>1. CASE n \in manifests
    BY <1>1, <2>1, Zenon DEF RetiredInv
  <2>2. CASE n = m
    <3>1. \A l \in manifests : l.seq < m.seq => l.seq <= m.seq
      BY <1>3 DEF New
    <3>2. m.seq <= m.seq
      BY DEF New
    <3> QED BY <1>1, <2>2, <3>1, <3>2, Zenon DEF New
  <2> QED BY <1>1, <2>1, <2>2
<1>6. Durable' = (Durable \ m.removed) \cup m.added
  <2>1. Durable = Added(manifests) \ Removed(manifests)
    BY DurableIs, Zenon
  <2>2. Durable' = Added(manifests)' \ Removed(manifests)'
    <3>1. \A l \in manifests' : l.seq \in Nat
      BY <1>1, <1>3, Zenon DEF New
    <3>2. \A l, n \in manifests' : \A f \in l.added : f \in n.removed => l.seq < n.seq
      BY <1>4, Zenon DEF OnceInv
    <3>3. View(manifests') = Added(manifests') \ Removed(manifests')
      BY <3>1, <3>2, ViewIs, Zenon
    <3> QED BY <3>3, Zenon DEF Durable, Added, Removed
  <2>3. Removed(manifests) \subseteq Added(manifests)
    BY Zenon DEF OnceInv
  <2> QED BY <1>2, <2>1, <2>2, <2>3, Zenon DEF New
<1>7. ASSUME NEW p \in Nat, p < m.seq
      PROVE  Added(Prefix(p))' = Added(Prefix(p)) /\ View(Prefix(p))' = View(Prefix(p))
  <2>1. ~(m.seq <= p)
    BY <1>7 DEF New
  <2>2. Prefix(p)' = Prefix(p)
    BY <1>1, <2>1, Zenon DEF Prefix
  <2> QED BY <2>2, Zenon DEF Added
<1> QED BY <1>2, <1>4, <1>5, <1>6, <1>7, Zenon

-----------------------------------------------------------------------------
(* Steps that leave the owner alone, but for handlers that end or lose their
   caller *)

From(k, h) ==
  /\ k.stage = h.stage /\ k.added = h.added /\ k.removed = h.removed /\ k.seq = h.seq
  /\ k.heard => h.heard

LEMMA HandlersFrom ==
  ASSUME NumberInv, handlers' \subseteq handlers \/ handlers' = Unheard
  PROVE  \A k, l \in handlers' : \E h, i \in handlers :
           From(k, h) /\ From(l, i) /\ (h = i => k = l)
<1>1. CASE handlers' \subseteq handlers
  BY <1>1, Zenon DEF From
<1>2. CASE handlers' = Unheard
  <2>1. \A k \in handlers' : \E h \in handlers : k = Handler(h.stage, h.added, h.removed, h.seq, FALSE)
    BY <1>2, UnheardFields, Zenon DEF NumberInv, HandlerShape
  <2>2. ASSUME NEW k, NEW h, k = Handler(h.stage, h.added, h.removed, h.seq, FALSE)
        PROVE  From(k, h)
    BY <2>2, Zenon DEF From, Handler
  <2> SUFFICES ASSUME NEW k \in handlers', NEW l \in handlers'
               PROVE  \E h, i \in handlers : From(k, h) /\ From(l, i) /\ (h = i => k = l)
    BY Zenon
  <2>3. PICK h \in handlers : k = Handler(h.stage, h.added, h.removed, h.seq, FALSE)
    BY <2>1, Zenon
  <2>4. PICK i \in handlers : l = Handler(i.stage, i.added, i.removed, i.seq, FALSE)
    BY <2>1, Zenon
  <2>5. h = i => k = l
    BY <2>3, <2>4, Zenon
  <2>6. From(k, h) /\ From(l, i)
    BY <2>2, <2>3, <2>4, Zenon
  <2> QED BY <2>5, <2>6, Zenon
<1> QED BY <1>1, <1>2

LEMMA HandlersKept ==
  ASSUME NumberInv, OrderInv, OnceInv, RetiredInv, HandlerInv,
         UNCHANGED <<manifests, memory, drained, pos>>,
         handlers' \subseteq handlers \/ handlers' = Unheard,
         \A h \in handlers' : h.heard => UNCHANGED <<notice, pc, reply>>
  PROVE  OrderInv' /\ OnceInv' /\ RetiredInv' /\ HandlerInv'
<1>1. \A k, l \in handlers' : \E h, i \in handlers :
        From(k, h) /\ From(l, i) /\ (h = i => k = l)
  BY HandlersFrom, Zenon
<1>2. OnceInv' /\ RetiredInv'
  BY Zenon DEF OnceInv, RetiredInv, Added, Removed
<1>3. OrderInv'
  <2>1. ASSUME NEW k \in handlers', k.stage = "persist"
        PROVE  k.seq > LastSeq(drained) /\ \A m \in manifests : m.seq # k.seq
    <3>1. PICK h \in handlers : From(k, h)
      BY <1>1, Zenon
    <3> QED BY <2>1, <3>1, Zenon DEF OrderInv, From
  <2>2. ASSUME NEW k \in handlers', NEW l \in handlers', k.stage = "persist", l.stage = "persist",
               k.seq = l.seq
        PROVE  k = l
    <3>1. PICK h, i \in handlers : From(k, h) /\ From(l, i) /\ (h = i => k = l)
      BY <1>1, Zenon
    <3>2. h = i
      BY <2>2, <3>1, Zenon DEF OrderInv, From
    <3> QED BY <3>1, <3>2
  <2>3. pos' \in 0..LastSeq(drained') /\ \A m \in manifests' : m.seq <= LastSeq(drained') => m \in drained'
    BY Zenon DEF OrderInv
  <2> QED BY <2>1, <2>2, <2>3, Zenon DEF OrderInv
<1>4. HandlerInv'
  <2>1. ASSUME NEW k \in handlers' PROVE HandlerOK(k, GroupOf(k))'
    <3>1. PICK h \in handlers : From(k, h)
      BY <1>1, Zenon
    <3>2. PICK g : g = GroupOf(h) /\ g = GroupOf(k)
      BY <3>1, Zenon DEF GroupOf, From
    <3>3. HandlerOK(h, g)
      BY <3>2, Zenon DEF HandlerInv
    <3>4. Durable' = Durable /\ Added(manifests)' = Added(manifests)
      BY Same, Zenon
    <3>5. HandlerOK(k, g)'
      <4>1. /\ k.added = {MergedFile(g)} /\ k.removed \subseteq Durable \cap g
            /\ g # {} /\ g \cap memory = {} /\ g \subseteq Added(manifests)
            /\ MergedFile(g) \in memory \ Added(manifests)
        BY <3>1, <3>3, Zenon DEF HandlerOK, From
      <4>2. /\ \A x \in g \ k.removed : \E l \in manifests : x \in l.removed /\ Above(k, l.seq)
            /\ \A m \in manifests : \A x \in m.added : x \in k.removed => Above(k, m.seq)
        BY <3>1, <3>3, Zenon DEF HandlerOK, From, Above
      <4>3. k.heard => notice' = g /\ pc' = "notify" /\ reply' = "none"
        BY <3>1, <3>3, Zenon DEF HandlerOK, From
      <4> QED BY <3>4, <4>1, <4>2, <4>3, Zenon DEF HandlerOK, Above
    <3> QED BY <3>2, <3>5, Zenon
  <2>2. ASSUME NEW k \in handlers', NEW l \in handlers',
               k.added = l.added \/ k.removed \cap l.removed # {}
        PROVE  k = l
    <3>1. PICK h, i \in handlers : From(k, h) /\ From(l, i) /\ (h = i => k = l)
      BY <1>1, Zenon
    <3>2. h = i
      BY <2>2, <3>1, Zenon DEF HandlerInv, From
    <3> QED BY <3>1, <3>2
  <2> QED BY <2>1, <2>2, Zenon DEF HandlerInv
<1> QED BY <1>2, <1>3, <1>4

(* The rest of the invariant. *)
LEMMA StoreKept ==
  ASSUME NumberInv, OnceInv, StoreInv, UNCHANGED <<manifests, memory>>,
         \A f \in objects : f \in objects' \/ f \in Removed(manifests)
  PROVE  StoreInv'
<1>1. /\ Durable' = Durable /\ Removed(manifests)' = Removed(manifests) /\ Ingested' = Ingested
  BY Same, Zenon
<1>2. Durable \cap Removed(manifests) = {}
  BY DurableIs, Zenon
<1>3. Durable' \subseteq objects' /\ memory' \subseteq objects'
  BY <1>1, <1>2, Zenon DEF StoreInv, Recoverable, Served
<1>4. Covers(Durable)' /\ Covers(memory)'
  BY <1>1, Zenon DEF StoreInv, Recoverable, Served, Covers
<1> QED BY <1>1, <1>3, <1>4, Zenon DEF StoreInv, Recoverable, Served

LEMMA PlannedKept ==
  ASSUME NEW p, PlannedAt(p), UNCHANGED <<manifests, memory>>,
         \A g \in plan' \cup {notice'} : g = {} \/ g \in plan \cup {notice}
  PROVE  PlannedAt(p)'
<1>1. /\ Durable' = Durable /\ Removed(manifests)' = Removed(manifests)
      /\ Added(Prefix(p))' = Added(Prefix(p)) /\ View(Prefix(p))' = View(Prefix(p))
  BY Same, Zenon
<1>2. \A g \in plan' \cup {notice'} : g \subseteq View(Prefix(p))
  BY Zenon DEF PlannedAt
<1>3. Removed(manifests) \cup (Durable \ memory') \subseteq Added(Prefix(p))
  BY Zenon DEF PlannedAt
<1> QED BY <1>1, <1>2, <1>3, Zenon DEF PlannedAt

LEMMA CompactorKept ==
  ASSUME NumberInv, Inv, UNCHANGED <<manifests, memory, drained, pos>>,
         handlers' \subseteq handlers \/ handlers' = Unheard,
         \A h \in handlers' : h.heard => UNCHANGED <<notice, pc, reply>>,
         \A f \in objects : f \in objects' \/ f \in Removed(manifests),
         \A g \in plan' \cup {notice'} : g = {} \/ g \in plan \cup {notice}, {} \notin plan',
         pc' = "notify" => /\ notice' # {}
                           /\ reply' = "none" => MergedFile(notice') \in objects'
                           /\ reply' = "ok" => notice' \subseteq Removed(manifests),
         OwedPaths' \subseteq Removed(manifests), due' # {} => pc' = "delete"
  PROVE  Inv'
<1>1. OrderInv' /\ OnceInv' /\ RetiredInv' /\ HandlerInv'
  BY HandlersKept, Zenon DEF Inv
<1>2. StoreInv'
  BY StoreKept, Zenon DEF Inv
<1>3. Removed(manifests)' = Removed(manifests)
  BY Same, Zenon
<1>4. PlanInv'
  <2>1. PICK p \in 0..pos : PlannedAt(p)
    BY Zenon DEF Inv, PlanInv
  <2>2. PlannedAt(p)'
    BY <2>1, PlannedKept, Zenon
  <2> QED BY <1>3, <2>2, Zenon DEF PlanInv
<1>5. OwedInv'
  BY <1>3, Zenon DEF OwedInv
<1> QED BY <1>1, <1>2, <1>4, <1>5, Zenon DEF Inv

-----------------------------------------------------------------------------
(* The compactor's steps                                                   *)

(* Only a notice that is under way has a caller that waits. *)
LEMMA NobodyWaits ==
  ASSUME HandlerInv, pc # "notify" \/ reply # "none", NEW h \in handlers
  PROVE  ~h.heard
BY Zenon DEF HandlerInv, HandlerOK

LEMMA UnheardSilent ==
  ASSUME NumberInv, NEW k \in Unheard
  PROVE  ~k.heard
<1>1. PICK h \in handlers : k = Handler(h.stage, h.added, h.removed, h.seq, FALSE)
  BY UnheardFields, Zenon DEF NumberInv, HandlerShape
<1>2. k.heard = FALSE
  BY <1>1, Zenon DEF Handler
<1> QED BY <1>2

LEMMA OwedAre ==
  OwedPaths = {e.path : e \in pending} \cup {e.path : e \in queue} \cup due
BY Zenon DEF OwedPaths

LEMMA LoadQueueStep == ASSUME NumberInv, Inv, LoadQueue PROVE Inv'
<1>1. /\ pc = "load" /\ pc' = "idle" /\ pending' \in {queue, {}}
      /\ UNCHANGED <<objects, manifests, memory, next, handlers, drained, pos, plan, notice, reply,
                     queue, due>>
  BY Zenon DEF LoadQueue, storeVars, ownerVars, indexVars
<1>2. \A h \in handlers : ~h.heard
  BY <1>1, NobodyWaits, Zenon DEF Inv
<1>3. OwedPaths' \subseteq OwedPaths
  BY <1>1, Zenon DEF OwedPaths
<1> QED BY <1>1, <1>2, <1>3, CompactorKept, Zenon DEF Inv, PlanInv, OwedInv

LEMMA NotifyFailsStep == ASSUME NumberInv, Inv, NotifyFails PROVE Inv'
<1>1. /\ pc = "notify" /\ pc' = "group" /\ notice' = {} /\ handlers' = Unheard
      /\ UNCHANGED <<objects, manifests, memory, next, drained, pos, plan, queue, pending, due>>
  BY Zenon DEF NotifyFails, storeVars, indexVars
<1>2. \A k \in handlers' : ~k.heard
  BY <1>1, UnheardSilent, Zenon
<1>3. OwedPaths' = OwedPaths
  BY <1>1, Zenon DEF OwedPaths
<1> QED BY <1>1, <1>2, <1>3, CompactorKept, Zenon DEF Inv, PlanInv, OwedInv

LEMMA NotifyErrorStep == ASSUME NumberInv, Inv, NotifyError PROVE Inv'
<1>1. /\ pc = "notify" /\ pc' = "group" /\ notice' = {} /\ reply = "error"
      /\ UNCHANGED <<objects, manifests, memory, next, handlers, drained, pos, plan, queue,
                     pending, due>>
  BY Zenon DEF NotifyError, storeVars, ownerVars, indexVars
<1>2. \A h \in handlers : ~h.heard
  BY <1>1, NobodyWaits, Zenon DEF Inv
<1>3. OwedPaths' = OwedPaths
  BY <1>1, Zenon DEF OwedPaths
<1> QED BY <1>1, <1>2, <1>3, CompactorKept, Zenon DEF Inv, PlanInv, OwedInv

LEMMA ScheduleStep == ASSUME NumberInv, Inv, Schedule PROVE Inv'
<1>1. /\ pc = "notify" /\ pc' = "save" /\ notice' = {} /\ reply = "ok"
      /\ pending' = pending \cup Owed(notice)
      /\ UNCHANGED <<objects, manifests, memory, next, handlers, drained, pos, plan, queue, due>>
  BY Zenon DEF Schedule, storeVars, ownerVars, indexVars
<1>2. \A h \in handlers : ~h.heard
  BY <1>1, NobodyWaits, Zenon DEF Inv
<1>3. OwedPaths' \subseteq OwedPaths \cup notice
  <2>1. \A e \in pending' \cup queue' : e \in pending \cup queue \/ e.path \in notice
    BY <1>1, OwedEntries, Zenon
  <2> QED BY <1>1, <2>1, Zenon DEF OwedPaths
<1>4. OwedPaths' \subseteq Removed(manifests)
  BY <1>1, <1>3, Zenon DEF Inv, PlanInv, OwedInv
<1> QED BY <1>1, <1>2, <1>4, CompactorKept, Zenon DEF Inv, PlanInv, OwedInv

LEMMA SaveStep == ASSUME NumberInv, Inv, Save PROVE Inv'
<1>1. /\ pc \in {"save", "saveShorter"} /\ pc' \in {"group", "idle"} /\ queue' \in {pending, queue}
      /\ UNCHANGED <<objects, manifests, memory, next, handlers, drained, pos, plan, notice, reply,
                     pending, due>>
  BY Zenon DEF Save, storeVars, ownerVars, indexVars
<1>2. \A h \in handlers : ~h.heard
  BY <1>1, NobodyWaits, Zenon DEF Inv
<1>3. OwedPaths' \subseteq OwedPaths
  BY <1>1, Zenon DEF OwedPaths
<1> QED BY <1>1, <1>2, <1>3, CompactorKept, Zenon DEF Inv, PlanInv, OwedInv

LEMMA ReclaimStep == ASSUME NumberInv, Inv, Reclaim PROVE Inv'
<1>1. /\ pc = "group" /\ pc' \in {"idle", "delete"}
      /\ due' # {} => pc' = "delete"
      /\ pending' \subseteq pending /\ due' \subseteq {e.path : e \in pending}
      /\ UNCHANGED <<objects, manifests, memory, next, handlers, drained, pos, plan, notice, reply,
                     queue>>
  BY Zenon DEF Reclaim, storeVars, ownerVars, indexVars
<1>2. \A h \in handlers : ~h.heard
  BY <1>1, NobodyWaits, Zenon DEF Inv
<1>3. OwedPaths' \subseteq OwedPaths
  BY <1>1, Zenon DEF OwedPaths
<1> QED BY <1>1, <1>2, <1>3, CompactorKept, Zenon DEF Inv, PlanInv, OwedInv

LEMMA DeleteStep == ASSUME NumberInv, Inv, NEW f \in due, Delete(f) PROVE Inv'
<1>1. /\ pc = "delete" /\ pc' \in {"saveShorter", "delete"}
      /\ due' # {} => pc' = "delete"
      /\ due' = due \ {f} /\ objects' \in {objects, objects \ {f}}
      /\ UNCHANGED <<manifests, memory, next, handlers, drained, pos, plan, notice, reply, pending,
                     queue>>
  BY Zenon DEF Delete, storeVars, ownerVars, indexVars
<1>2. \A h \in handlers : ~h.heard
  BY <1>1, NobodyWaits, Zenon DEF Inv
<1>3. OwedPaths' \subseteq OwedPaths
  BY <1>1, Zenon DEF OwedPaths
<1>4. \A x \in objects : x \in objects' \/ x \in Removed(manifests)
  BY <1>1, Zenon DEF Inv, OwedInv, OwedPaths
<1> QED BY <1>1, <1>2, <1>3, <1>4, CompactorKept, Zenon DEF Inv, PlanInv, OwedInv

LEMMA MergeStep == ASSUME NumberInv, Inv, NEW g \in plan, Merge(g) \/ MergeFails(g) PROVE Inv'
<1>1. /\ pc = "group" /\ plan' = plan \ {g} /\ objects \subseteq objects'
      /\ notice' \in {notice, g} /\ pc' \in {"notify", "group"}
      /\ pc' = "notify" => notice' = g /\ reply' = "none" /\ MergedFile(g) \in objects'
      /\ UNCHANGED <<manifests, memory, next, handlers, drained, pos, pending, queue, due>>
  BY Zenon DEF Merge, MergeFails, storeVars, ownerVars, indexVars
<1>2. \A h \in handlers : ~h.heard
  BY <1>1, NobodyWaits, Zenon DEF Inv
<1>3. OwedPaths' = OwedPaths
  BY <1>1, Zenon DEF OwedPaths
<1>4. due = {} /\ g # {} /\ {} \notin plan'
  BY <1>1, Zenon DEF Inv, OwedInv, PlanInv
<1> QED BY <1>1, <1>2, <1>3, <1>4, CompactorKept, Zenon DEF Inv, OwedInv

LEMMA CompactorCrashStep == ASSUME NumberInv, Inv, CompactorCrash PROVE Inv'
<1>1. /\ pc' = "load" /\ plan' = {} /\ notice' = {} /\ pending' = {} /\ due' = {}
      /\ handlers' = Unheard
      /\ UNCHANGED <<objects, manifests, memory, next, drained, pos, queue>>
  BY Zenon DEF CompactorCrash, storeVars, indexVars
<1>2. \A k \in handlers' : ~k.heard
  BY <1>1, UnheardSilent, Zenon
<1>3. OwedPaths' \subseteq OwedPaths
  BY <1>1, Zenon DEF OwedPaths
<1> QED BY <1>1, <1>2, <1>3, CompactorKept, Zenon DEF Inv, OwedInv

(* The groups of a pass are from the index of this moment: every manifest up to
   pos. *)
LEMMA PassStartStep == ASSUME NumberInv, ControlInv, Inv, PassStart PROVE Inv'
<1>1. /\ pc = "idle" /\ pc' = "group" /\ pending' = Sooner(pending) /\ queue' = Sooner(queue)
      /\ UNCHANGED <<objects, manifests, memory, next, handlers, drained, pos, notice, reply, due>>
  BY Zenon DEF PassStart, ownerVars, indexVars
<1>2. PICK cold : plan' \in SelectMerges(Index, cold)
  BY Zenon DEF PassStart
<1>3. \A g \in plan' : g \subseteq Index /\ g # {}
  BY <1>2, IndexIs, SelectsFrom, Zenon
<1>4. \A h \in handlers : ~h.heard
  BY <1>1, NobodyWaits, Zenon DEF Inv
<1>5. OrderInv' /\ OnceInv' /\ RetiredInv' /\ HandlerInv'
  BY <1>1, <1>4, HandlersKept, Zenon DEF Inv
<1>6. StoreInv'
  BY <1>1, StoreKept, Zenon DEF Inv
<1>7. Removed(manifests)' = Removed(manifests)
  BY <1>1, Same, Zenon
<1>8. PlanInv'
  <2>1. PICK p \in 0..pos : PlannedAt(p)
    BY Zenon DEF Inv, PlanInv
  <2>2. /\ pos \in Nat /\ p \in Nat /\ p <= pos /\ pos \in 0..pos /\ pos <= LastSeq(drained)
        /\ \A m \in manifests : m.seq \in Nat
        /\ LastSeq(drained) \in Nat
    <3>1. pos \in 0..LastSeq(drained) /\ LastSeq(drained) \in Nat
      BY Numbers, Zenon DEF Inv, OrderInv
    <3> QED BY <2>1, <3>1, Numbers
  <2>3. \A m \in manifests : (m.seq <= p => m.seq <= pos) /\ (m.seq <= pos => m.seq <= LastSeq(drained))
    BY <2>2
  <2>4. Added(Prefix(p)) \subseteq Added(Prefix(pos))
    BY <2>3, Zenon DEF Added, Prefix
  <2>5. Index = View(Prefix(pos))
    <3>1. {m \in drained : m.seq <= pos} = Prefix(pos)
      BY <2>3, Zenon DEF Prefix, Inv, OrderInv, NumberInv
    <3> QED BY <3>1, Zenon DEF Index
  <2>6. notice = {}
    BY <1>1, Zenon DEF ControlInv
  <2>7. PlannedAt(pos)'
    <3>1. /\ Durable' = Durable /\ Removed(manifests)' = Removed(manifests)
          /\ \A n : Added(Prefix(n))' = Added(Prefix(n)) /\ View(Prefix(n))' = View(Prefix(n))
      BY <1>1, Same, Zenon
    <3>2. \A g \in plan' \cup {notice'} : g \subseteq View(Prefix(pos))
      BY <1>1, <1>3, <2>5, <2>6, Zenon
    <3>3. Removed(manifests) \cup (Durable \ memory) \subseteq Added(Prefix(pos))
      BY <2>1, <2>4, Zenon DEF PlannedAt
    <3> QED BY <1>1, <3>1, <3>2, <3>3, Zenon DEF PlannedAt, Prefix
  <2> QED BY <1>1, <1>3, <2>2, <2>7, Zenon DEF PlanInv
<1>9. OwedInv'
  <2>1. (\A e \in pending : Entry(e)) /\ (\A e \in queue : Entry(e))
    BY Zenon DEF ControlInv
  <2>2. /\ {e.path : e \in pending'} = {e.path : e \in pending}
        /\ {e.path : e \in queue'} = {e.path : e \in queue}
    BY <1>1, <2>1, SoonerEntries, Zenon
  <2>3. OwedPaths' = {e.path : e \in pending'} \cup {e.path : e \in queue'} \cup due'
    BY Zenon DEF OwedPaths
  <2>4. OwedPaths' = OwedPaths
    BY <1>1, <2>2, <2>3, OwedAre, Zenon
  <2>5. due = {}
    BY <1>1, Zenon DEF Inv, OwedInv
  <2> QED BY <1>1, <1>7, <2>4, <2>5, Zenon DEF Inv, OwedInv
<1> QED BY <1>5, <1>6, <1>8, <1>9, Zenon DEF Inv

-----------------------------------------------------------------------------
(* The owner's steps                                                       *)

LEMMA RowsKept ==
  ASSUME NEW A, NEW B, \A x \in A : \E y \in B : x.rows \subseteq y.rows
  PROVE  UNION {x.rows : x \in A} \subseteq UNION {x.rows : x \in B}
<1> SUFFICES ASSUME NEW r, NEW x \in A, r \in x.rows
             PROVE  \E y \in B : r \in y.rows
  OBVIOUS
<1> QED BY Zenon

LEMMA DroppedStep ==
  ASSUME NumberInv, Inv, NEW h \in handlers, handlers' = handlers \ {h},
         UNCHANGED <<manifests, objects, queue, memory, drained, pos, pc, plan, notice, pending, due>>,
         reply' = IF h.heard THEN "error" ELSE reply
  PROVE  Inv'
<1>1. ASSUME NEW k \in handlers', k.heard PROVE reply' = reply
  <2>1. CASE h.heard
    <3>1. GroupOf(h) = notice /\ GroupOf(k) = notice
      BY <1>1, <2>1, Zenon DEF Inv, HandlerInv, HandlerOK
    <3>2. h.added = {MergedFile(notice)} /\ k.added = {MergedFile(notice)}
      BY <1>1, <3>1, Zenon DEF Inv, HandlerInv, HandlerOK
    <3>3. h = k
      BY <1>1, <3>2, Zenon DEF Inv, HandlerInv
    <3> QED BY <1>1, <3>3, Zenon
  <2> QED BY <2>1, Zenon
<1>2. OwedPaths' = OwedPaths
  BY Zenon DEF OwedPaths
<1>3. reply' \in {reply, "error"}
  BY Zenon
<1>4. pc' = "notify" => /\ notice' # {}
                        /\ reply' = "none" => MergedFile(notice') \in objects'
                        /\ reply' = "ok" => notice' \subseteq Removed(manifests)
  BY <1>3, Zenon DEF Inv, PlanInv
<1> QED BY <1>1, <1>2, <1>4, CompactorKept, Zenon DEF Inv, PlanInv, OwedInv

(* The handler's manifest is stored: its inputs and its output change places. *)
LEMMA StoredStep ==
  ASSUME NumberInv, NumberInv', Inv, NEW h \in handlers, h.stage = "persist",
         handlers' = handlers \ {h}, NEW m, m = Manifest(h.seq, h.added, h.removed),
         manifests' = manifests \cup {m},
         UNCHANGED <<objects, queue, memory, drained, pos, pc, plan, notice, pending, due>>,
         NEW answer \in {"ok", "error"}, reply' = IF h.heard THEN answer ELSE reply
  PROVE  Inv'
<1>1. m.seq = h.seq /\ m.added = h.added /\ m.removed = h.removed
  BY Zenon DEF Manifest
<1>2. PICK g : g = GroupOf(h)
  BY Zenon
<1>3. HandlerOK(h, g)
  BY <1>2, Zenon DEF Inv, HandlerInv
<1>4. PICK f : f = MergedFile(g)
  BY Zenon
<1>5. /\ m.added = {f} /\ m.removed \subseteq Durable \cap g
      /\ g # {} /\ g \cap memory = {} /\ f \in memory /\ f \notin Added(manifests)
  BY <1>1, <1>3, <1>4, Zenon DEF HandlerOK
<1>6. f.from = g /\ f.rows = UNION {x.rows : x \in g}
  BY <1>4, FileFields, Zenon
<1>7. /\ Durable = Added(manifests) \ Removed(manifests)
      /\ NumberInv /\ OnceInv /\ RetiredInv
  BY DurableIs, Zenon DEF Inv
<1>8. m.seq \in Nat /\ m.seq > LastSeq(drained) /\ \A l \in manifests : l.seq # m.seq
  <2>1. HandlerShape(h)
    BY Zenon DEF NumberInv
  <2> QED BY <1>1, <2>1, Zenon DEF Inv, OrderInv, HandlerShape
<1>9. New(m)
  <2>1. \A n : Above(h, n) => n < m.seq
    BY <1>1, Zenon DEF Above
  <2>2. \A l \in manifests : \A x \in l.added : x \in m.removed => l.seq < m.seq
    BY <1>1, <1>3, <2>1, Zenon DEF HandlerOK
  <2>3. \A x \in g : x \in m.removed \/ \E l \in manifests : l.seq < m.seq /\ x \in l.removed
    BY <1>1, <1>3, <2>1, Zenon DEF HandlerOK
  <2>4. \A y \in m.added : \A x \in y.from :
          x \in m.removed \/ \E l \in manifests : l.seq < m.seq /\ x \in l.removed
    BY <1>5, <1>6, <2>3, Zenon
  <2>5. m.added \cap Added(manifests) = {} /\ m.removed \subseteq Added(manifests)
    BY <1>5, <1>7, Zenon
  <2> QED BY <1>8, <2>2, <2>4, <2>5, Zenon DEF New
<1>10. /\ OnceInv' /\ RetiredInv'
       /\ Added(manifests)' = Added(manifests) \cup {f}
       /\ Removed(manifests)' = Removed(manifests) \cup m.removed
       /\ Durable' = (Durable \ m.removed) \cup {f}
       /\ \A p \in Nat : p < m.seq => /\ Added(Prefix(p))' = Added(Prefix(p))
                                      /\ View(Prefix(p))' = View(Prefix(p))
  BY <1>5, <1>7, <1>9, NewManifest, Zenon
<1>11. OrderInv'
  <2>1. \A l \in manifests' : l \in manifests \/ l = m
    BY Zenon
  <2>2. ~(m.seq <= LastSeq(drained))
    <3>1. LastSeq(drained) \in Nat
      BY Numbers, Zenon
    <3> QED BY <1>8, <3>1
  <2>3. \A l \in manifests' : l.seq <= LastSeq(drained) => l \in drained
    BY <2>1, <2>2, Zenon DEF Inv, OrderInv
  <2>4. \A k \in handlers' : k.stage = "persist" =>
          k.seq > LastSeq(drained) /\ \A l \in manifests' : l.seq # k.seq
    BY <1>1, <2>1, Zenon DEF Inv, OrderInv
  <2> QED BY <2>3, <2>4, Zenon DEF Inv, OrderInv
<1>12. HandlerInv'
  <2>1. ASSUME NEW k \in handlers' PROVE HandlerOK(k, GroupOf(k))'
    <3>1. PICK c : c = GroupOf(k)
      BY Zenon
    <3>2. HandlerOK(k, c) /\ k \in handlers /\ k # h
      BY <3>1, Zenon DEF Inv, HandlerInv
    <3>3. k.removed \cap m.removed = {} /\ k.added # {f}
      BY <1>1, <1>5, <3>2, Zenon DEF Inv, HandlerInv
    <3>4. /\ k.added = {MergedFile(c)} /\ k.removed \subseteq Durable' \cap c
          /\ c # {} /\ c \cap memory' = {} /\ c \subseteq Added(manifests)'
          /\ MergedFile(c) \in memory' \ Added(manifests)'
      BY <1>10, <3>2, <3>3, Zenon DEF HandlerOK
    <3>5. f \notin k.removed
      BY <1>5, <1>7, <3>2, Zenon DEF HandlerOK
    <3>6. \A x \in c \ k.removed : \E l \in manifests' : x \in l.removed /\ Above(k, l.seq)
      BY <3>2, Zenon DEF HandlerOK
    <3>7. \A l \in manifests' : \A x \in l.added : x \in k.removed => Above(k, l.seq)
      BY <1>5, <3>2, <3>5, Zenon DEF HandlerOK
    <3>8. ASSUME k.heard PROVE notice' = c /\ pc' = "notify" /\ reply' = "none"
      <4>1. notice = c /\ pc = "notify" /\ reply = "none"
        BY <3>2, <3>8, Zenon DEF HandlerOK
      <4>2. ~h.heard
        <5>1. h.heard => notice = g
          BY <1>3, Zenon DEF HandlerOK
        <5> QED BY <1>4, <3>3, <3>4, <4>1, <5>1, Zenon
      <4> QED BY <4>1, <4>2, Zenon
    <3> QED BY <3>1, <3>4, <3>6, <3>7, <3>8, Zenon DEF HandlerOK, Above
  <2> QED BY <2>1, Zenon DEF Inv, HandlerInv
<1>13. PlanInv'
  <2>1. PICK p \in 0..pos : PlannedAt(p)
    BY Zenon DEF Inv, PlanInv
  <2>2. p \in Nat /\ p < m.seq
    <3>1. pos \in 0..LastSeq(drained) /\ LastSeq(drained) \in Nat
      BY Numbers, Zenon DEF Inv, OrderInv
    <3> QED BY <1>8, <2>1, <3>1
  <2>3. Added(Prefix(p))' = Added(Prefix(p)) /\ View(Prefix(p))' = View(Prefix(p))
    BY <1>10, <2>2, Zenon
  <2>4. m.removed \subseteq Durable \ memory
    BY <1>5, Zenon
  <2>5. Removed(manifests)' \cup (Durable' \ memory') \subseteq Added(Prefix(p))
    BY <1>5, <1>10, <2>1, <2>4, Zenon DEF PlannedAt
  <2>6. PlannedAt(p)'
    BY <2>1, <2>3, <2>5, Zenon DEF PlannedAt
  <2>7. ASSUME pc' = "notify", reply' = "none" PROVE MergedFile(notice') \in objects'
    BY <2>7, Zenon DEF Inv, PlanInv
  <2>8. ASSUME pc' = "notify", reply' = "ok" PROVE notice' \subseteq Removed(manifests)'
    <3>1. CASE h.heard
      <4>1. notice = g
        BY <1>3, <3>1, Zenon DEF HandlerOK
      <4>2. g \subseteq Removed(manifests) \cup m.removed
        BY <1>1, <1>3, Zenon DEF HandlerOK, Removed
      <4> QED BY <1>10, <4>1, <4>2, Zenon
    <3>2. CASE ~h.heard
      BY <1>10, <2>8, <3>2, Zenon DEF Inv, PlanInv
    <3> QED BY <3>1, <3>2
  <2> QED BY <2>6, <2>7, <2>8, Zenon DEF Inv, PlanInv
<1>14. OwedInv'
  <2>1. OwedPaths' = OwedPaths
    BY Zenon DEF OwedPaths
  <2> QED BY <1>10, <2>1, Zenon DEF Inv, OwedInv
<1>15. StoreInv'
  <2>1. Ingested' = Ingested
    <3>1. \A t \in Times : (\E l \in manifests' : \E x \in l.added : x.from = {} /\ t \in x.rows)
             <=> (\E l \in manifests : \E x \in l.added : x.from = {} /\ t \in x.rows)
      BY <1>5, <1>6, Zenon
    <3> QED BY <3>1, Zenon DEF Ingested
  <2>2. Durable' \subseteq objects' /\ memory' \subseteq objects'
    BY <1>5, <1>10, Zenon DEF Inv, StoreInv, Recoverable, Served
  <2>3. \A x \in m.removed : x.rows \subseteq f.rows
    BY <1>5, <1>6, Zenon
  <2>4. UNION {x.rows : x \in Durable} \subseteq UNION {x.rows : x \in Durable'}
    <3>1. \A x \in Durable : \E y \in Durable' : x.rows \subseteq y.rows
      BY <1>10, <2>3, Zenon
    <3> QED BY <3>1, RowsKept, Zenon
  <2>5. Covers(Durable)' /\ Covers(memory)'
    BY <2>1, <2>4, Zenon DEF Inv, StoreInv, Recoverable, Served, Covers
  <2>6. memory' \cap Removed(manifests)' = {}
    BY <1>5, <1>10, Zenon DEF Inv, StoreInv
  <2> QED BY <2>2, <2>5, <2>6, Zenon DEF StoreInv, Recoverable, Served
<1> QED BY <1>10, <1>11, <1>12, <1>13, <1>14, <1>15, Zenon DEF Inv

LEMMA EndStep ==
  ASSUME NumberInv, NumberInv', Inv, NEW h \in handlers,
         HandlerPersist(h) \/ PersistFails(h) \/ HandlerDropped(h)
  PROVE  Inv'
<1>1. PICK m : m = Manifest(h.seq, h.added, h.removed)
  BY Zenon
<1>2. /\ handlers' = handlers \ {h}
      /\ UNCHANGED <<objects, queue, memory, drained, pos, pc, plan, notice, pending, due>>
  BY Zenon DEF HandlerPersist, PersistFails, HandlerDropped, storeVars, indexVars, compVars
<1>3. CASE HandlerPersist(h)
  <2>1. h.stage = "persist" /\ manifests' = manifests \cup {m} /\ reply' = IF h.heard THEN "ok" ELSE reply
    BY <1>1, <1>3, Zenon DEF HandlerPersist, Answer
  <2>2. PICK a : a = "ok" /\ a \in {"ok", "error"}
    BY Zenon
  <2> QED BY <1>1, <1>2, <2>1, <2>2, StoredStep, Zenon
<1>4. CASE PersistFails(h)
  <2>1. h.stage = "persist" /\ reply' = IF h.heard THEN "error" ELSE reply
    BY <1>4, Zenon DEF PersistFails, Answer
  <2>2. PICK a : a = "error" /\ a \in {"ok", "error"}
    BY Zenon
  <2>3. CASE manifests' = manifests
    BY <1>2, <2>1, <2>3, DroppedStep, Zenon
  <2>4. CASE manifests' = manifests \cup {m}
    BY <1>1, <1>2, <2>1, <2>2, <2>4, StoredStep, Zenon
  <2> QED BY <1>1, <1>4, <2>3, <2>4, Zenon DEF PersistFails
<1>5. CASE HandlerDropped(h)
  <2>1. manifests' = manifests /\ reply' = IF h.heard THEN "error" ELSE reply
    BY <1>5, Zenon DEF HandlerDropped, storeVars, compVars
  <2> QED BY <1>2, <2>1, DroppedStep, Zenon
<1> QED BY <1>3, <1>4, <1>5

LEMMA OthersKept ==
  ASSUME Inv, \A p \in 0..pos : p \in 0..pos',
         UNCHANGED <<objects, manifests, queue, memory, pc, plan, notice, reply, pending, due>>
  PROVE  OnceInv' /\ RetiredInv' /\ StoreInv' /\ PlanInv' /\ OwedInv'
<1>1. /\ Durable' = Durable /\ Added(manifests)' = Added(manifests)
      /\ Removed(manifests)' = Removed(manifests) /\ Ingested' = Ingested
      /\ \A p : Added(Prefix(p))' = Added(Prefix(p)) /\ View(Prefix(p))' = View(Prefix(p))
  BY Same, Zenon
<1>2. OnceInv' /\ RetiredInv'
  BY Zenon DEF Inv, OnceInv, RetiredInv, Added, Removed
<1>4. StoreInv'
  BY <1>1, Zenon DEF Inv, StoreInv, Recoverable, Served, Covers
<1>5. PlanInv'
  <2>1. PICK p \in 0..pos : PlannedAt(p)
    BY Zenon DEF Inv, PlanInv
  <2>2. PlannedAt(p)' /\ p \in 0..pos'
    BY <1>1, <2>1, Zenon DEF PlannedAt
  <2> QED BY <1>1, <2>2, Zenon DEF Inv, PlanInv, MergedFile
<1>6. OwedInv'
  BY <1>1, Zenon DEF Inv, OwedInv, OwedPaths
<1> QED BY <1>2, <1>4, <1>5, <1>6

LEMMA UnchangedKept ==
  ASSUME Inv, UNCHANGED <<manifests, memory, handlers, pc, notice, reply>>
  PROVE  HandlerInv'
<1>1. Durable' = Durable /\ Added(manifests)' = Added(manifests)
  BY Same, Zenon
<1> QED BY <1>1, Zenon DEF Inv, HandlerInv, HandlerOK, GroupOf, Above, MergedFile

LEMMA IngestStep ==
  ASSUME NumberInv, NumberInv', Inv, NEW t \in Times, NEW size \in SizesOf[t], Ingest(t, size)
  PROVE  Inv'
<1>1. PICK f : f = Gen1File(t, t, size)
  BY Zenon
<1>2. PICK m : m = Manifest(next, {f}, {})
  BY Zenon
<1>3. /\ objects' = objects \cup {f} /\ memory' = memory \cup {f} /\ manifests' = manifests \cup {m}
      /\ UNCHANGED <<queue, handlers, drained, pos, pc, plan, notice, reply, pending, due>>
  BY <1>1, <1>2, Zenon DEF Ingest, indexVars, compVars
<1>4. m.seq = next /\ m.added = {f} /\ m.removed = {} /\ f.from = {} /\ f.rows = {t}
  BY <1>1, <1>2, Zenon DEF Manifest, Gen1File
<1>5. f \notin Added(manifests)
  <2>1. t <= t
    BY HandoffAssumption
  <2>2. t \notin Ingested
    BY <2>1, Zenon DEF Ingest
  <2> QED BY <1>4, <2>2, Zenon DEF Ingested, Added
<1>6. Durable = Added(manifests) \ Removed(manifests) /\ OnceInv /\ RetiredInv
  BY DurableIs, Zenon DEF Inv
<1>7. m.seq \in Nat /\ \A l \in manifests : l.seq # m.seq
  BY <1>4, Numbers
<1>8. New(m)
  BY <1>3, <1>4, <1>5, <1>7, Zenon DEF New
<1>9. /\ OnceInv' /\ RetiredInv'
      /\ Added(manifests)' = Added(manifests) \cup {f}
      /\ Removed(manifests)' = Removed(manifests)
      /\ Durable' = Durable \cup {f}
      /\ \A p \in Nat : p < m.seq => /\ Added(Prefix(p))' = Added(Prefix(p))
                                     /\ View(Prefix(p))' = View(Prefix(p))
  BY <1>4, <1>6, <1>8, NewManifest, Zenon
<1>10. LastSeq(drained) \in Nat /\ LastSeq(drained) < m.seq /\ ~(m.seq <= LastSeq(drained))
  BY <1>4, Numbers
<1>11. OrderInv'
  <2>1. \A l \in manifests' : l \in manifests \/ l = m
    BY <1>3, Zenon
  <2>2. \A h \in handlers : h.stage = "persist" => h.seq # m.seq
    <3>1. \A h \in handlers : h.stage = "persist" => h.seq \in 1..(next - 1)
      BY Zenon DEF NumberInv, HandlerShape
    <3>2. next \notin 1..(next - 1)
      BY Numbers
    <3> QED BY <1>4, <3>1, <3>2, Zenon
  <2>3. \A l \in manifests' : l.seq <= LastSeq(drained) => l \in drained
    BY <1>10, <2>1, Zenon DEF Inv, OrderInv
  <2>4. \A h \in handlers : h.stage = "persist" =>
          h.seq > LastSeq(drained) /\ \A l \in manifests' : l.seq # h.seq
    BY <2>1, <2>2, Zenon DEF Inv, OrderInv
  <2> QED BY <1>3, <2>3, <2>4, Zenon DEF Inv, OrderInv
<1>12. HandlerInv'
  <2>1. ASSUME NEW h \in handlers' PROVE HandlerOK(h, GroupOf(h))'
    <3>1. PICK g : g = GroupOf(h)
      BY Zenon
    <3>2. HandlerOK(h, g)
      BY <1>3, <3>1, Zenon DEF Inv, HandlerInv
    <3>3. MergedFile(g) # f
      BY <1>4, <3>2, FileFields, Zenon DEF HandlerOK
    <3>4. f \notin g /\ f \notin h.removed
      BY <1>5, <1>6, <3>2, Zenon DEF HandlerOK
    <3>5. /\ h.added = {MergedFile(g)} /\ h.removed \subseteq Durable' \cap g
          /\ g # {} /\ g \cap memory' = {} /\ g \subseteq Added(manifests)'
          /\ MergedFile(g) \in memory' \ Added(manifests)'
      BY <1>3, <1>9, <3>2, <3>3, <3>4, Zenon DEF HandlerOK
    <3>6. \A x \in g \ h.removed : \E l \in manifests' : x \in l.removed /\ Above(h, l.seq)
      BY <1>3, <3>2, Zenon DEF HandlerOK
    <3>7. \A l \in manifests' : \A x \in l.added : x \in h.removed => Above(h, l.seq)
      BY <1>3, <1>4, <3>2, <3>4, Zenon DEF HandlerOK
    <3>8. h.heard => notice' = g /\ pc' = "notify" /\ reply' = "none"
      BY <1>3, <3>2, Zenon DEF HandlerOK
    <3> QED BY <3>1, <3>5, <3>6, <3>7, <3>8, Zenon DEF HandlerOK, Above
  <2> QED BY <1>3, <2>1, Zenon DEF Inv, HandlerInv
<1>13. PlanInv'
  <2>1. PICK p \in 0..pos : PlannedAt(p)
    BY Zenon DEF Inv, PlanInv
  <2>2. p \in Nat /\ p < m.seq
    <3>1. pos \in 0..LastSeq(drained)
      BY Zenon DEF Inv, OrderInv
    <3> QED BY <1>7, <1>10, <2>1, <3>1
  <2>3. Added(Prefix(p))' = Added(Prefix(p)) /\ View(Prefix(p))' = View(Prefix(p))
    BY <1>9, <2>2, Zenon
  <2>4. Removed(manifests)' \cup (Durable' \ memory') \subseteq Added(Prefix(p))
    BY <1>3, <1>9, <2>1, Zenon DEF PlannedAt
  <2>5. PlannedAt(p)'
    BY <1>3, <2>1, <2>3, <2>4, Zenon DEF PlannedAt
  <2> QED BY <1>3, <1>9, <2>5, Zenon DEF Inv, PlanInv
<1>14. OwedInv'
  <2>1. OwedPaths' = OwedPaths
    BY <1>3, Zenon DEF OwedPaths
  <2> QED BY <1>3, <1>9, <2>1, Zenon DEF Inv, OwedInv
<1>15. StoreInv'
  <2>1. Ingested' \subseteq Ingested \cup {t}
    BY <1>3, <1>4, Zenon DEF Ingested
  <2>2. Durable' \subseteq objects' /\ memory' \subseteq objects'
    BY <1>3, <1>9, Zenon DEF Inv, StoreInv, Recoverable, Served
  <2>3. ASSUME NEW A, Ingested \subseteq UNION {x.rows : x \in A}
        PROVE  Ingested' \subseteq UNION {x.rows : x \in A \cup {f}}
    BY <1>4, <2>1, <2>3, Zenon
  <2>4. Covers(Durable)' /\ Covers(memory)'
    <3>1. Ingested' \subseteq UNION {x.rows : x \in Durable'}
      BY <1>9, <2>3, Zenon DEF Inv, StoreInv, Recoverable, Covers
    <3>2. Ingested' \subseteq UNION {x.rows : x \in memory'}
      BY <1>3, <2>3, Zenon DEF Inv, StoreInv, Served, Covers
    <3> QED BY <3>1, <3>2, Zenon DEF Covers
  <2>5. memory' \cap Removed(manifests)' = {}
    BY <1>3, <1>5, <1>6, <1>9, Zenon DEF Inv, StoreInv, OnceInv
  <2> QED BY <2>2, <2>4, <2>5, Zenon DEF StoreInv, Recoverable, Served
<1> QED BY <1>9, <1>11, <1>12, <1>13, <1>14, <1>15, Zenon DEF Inv

(* The publisher drains everything there is; what is under way is above it. *)
LEMMA PublishStep == ASSUME NumberInv, NumberInv', Inv, Publish, ~Overtakes PROVE Inv'
<1>1. /\ drained' = drained \cup {m \in manifests : m.seq > LastSeq(drained)}
      /\ UNCHANGED <<objects, manifests, queue, memory, handlers, pos, pc, plan, notice, reply,
                     pending, due>>
  BY Zenon DEF Publish, Undrained, storeVars, ownerVars, compVars
<1>2. /\ LastSeq(drained) \in Nat /\ LastSeq(manifests) \in Nat /\ drained \subseteq manifests
      /\ \A m \in manifests : m.seq \in Nat /\ m.seq <= LastSeq(manifests)
      /\ LastSeq(drained) = 0 \/ \E m \in drained : m.seq = LastSeq(drained)
      /\ LastSeq(manifests) = 0 \/ \E m \in manifests : m.seq = LastSeq(manifests)
  BY Numbers, Zenon
<1>3. drained' = manifests
  <2>1. \A m \in manifests : m.seq <= LastSeq(drained) \/ m.seq > LastSeq(drained)
    BY <1>2
  <2> QED BY <1>1, <1>2, <2>1, Zenon DEF Inv, OrderInv
<1>4. OrderInv'
  <2>1. pos \in 0..LastSeq(manifests)
    <3>1. pos \in 0..LastSeq(drained)
      BY Zenon DEF Inv, OrderInv
    <3>2. LastSeq(drained) <= LastSeq(manifests)
      BY <1>2
    <3> QED BY <1>2, <3>1, <3>2
  <2>2. ASSUME NEW h \in handlers, h.stage = "persist" PROVE h.seq > LastSeq(manifests)
    <3>1. ~(h.seq < LastSeq(manifests)) /\ \A m \in manifests : m.seq # h.seq
      BY <2>2, Zenon DEF Overtakes, Inv, OrderInv
    <3>2. h.seq \in Nat /\ h.seq > 0
      <4>1. h.seq \in 1..(next - 1) /\ next \in Nat
        BY <2>2, Zenon DEF NumberInv, HandlerShape
      <4> QED BY <4>1
    <3>3. h.seq # LastSeq(manifests)
      BY <1>2, <3>1, <3>2
    <3> QED BY <1>2, <3>1, <3>2, <3>3
  <2>3. \A h \in handlers' : h.stage = "persist" =>
          h.seq > LastSeq(drained') /\ \A m \in manifests' : m.seq # h.seq
    BY <1>1, <1>3, <2>2, Zenon DEF Inv, OrderInv
  <2>4. pos' \in 0..LastSeq(drained') /\ \A m \in manifests' : m \in drained'
    BY <1>1, <1>3, <2>1, Zenon
  <2> QED BY <1>1, <2>3, <2>4, Zenon DEF Inv, OrderInv
<1>5. OnceInv' /\ RetiredInv' /\ HandlerInv' /\ StoreInv' /\ PlanInv' /\ OwedInv'
  BY <1>1, OthersKept, UnchangedKept, Zenon
<1> QED BY <1>4, <1>5, Zenon DEF Inv

LEMMA SyncIndexStep == ASSUME NumberInv, Inv, SyncIndex PROVE Inv'
<1>1. /\ pos < LastSeq(drained) /\ pos' = LastSeq(drained)
      /\ UNCHANGED <<objects, manifests, queue, memory, handlers, drained, pc, plan, notice, reply,
                     pending, due>>
  BY Zenon DEF SyncIndex, storeVars, ownerVars, compVars
<1>2. pos \in 0..LastSeq(drained) /\ LastSeq(drained) \in Nat
  BY Numbers, Zenon DEF Inv, OrderInv
<1>3. pos' \in 0..LastSeq(drained') /\ \A p \in 0..pos : p \in 0..pos'
  BY <1>1, <1>2
<1>4. OrderInv'
  BY <1>1, <1>3, Zenon DEF Inv, OrderInv
<1>5. OnceInv' /\ RetiredInv' /\ HandlerInv' /\ StoreInv' /\ PlanInv' /\ OwedInv'
  BY <1>1, <1>3, OthersKept, UnchangedKept, Zenon
<1> QED BY <1>4, <1>5, Zenon DEF Inv

LEMMA OwnerCrashStep == ASSUME NumberInv, NumberInv', Inv, OwnerCrash PROVE Inv'
<1>1. /\ memory' = Durable /\ handlers' = {}
      /\ reply' \in {reply, "error"} /\ (pc = "notify" => reply' # "none")
      /\ UNCHANGED <<objects, manifests, queue, drained, pos, pc, plan, notice, pending, due>>
  BY Zenon DEF OwnerCrash, storeVars, indexVars
<1>2. /\ Durable' = Durable /\ Added(manifests)' = Added(manifests)
      /\ Removed(manifests)' = Removed(manifests) /\ Ingested' = Ingested
      /\ \A p : Added(Prefix(p))' = Added(Prefix(p)) /\ View(Prefix(p))' = View(Prefix(p))
  BY <1>1, Same, Zenon
<1>3. OrderInv' /\ OnceInv' /\ RetiredInv' /\ HandlerInv'
  BY <1>1, Zenon DEF Inv, OrderInv, OnceInv, RetiredInv, HandlerInv, Added, Removed
<1>4. PlanInv'
  <2>1. PICK p \in 0..pos : PlannedAt(p)
    BY Zenon DEF Inv, PlanInv
  <2>2. PlannedAt(p)'
    BY <1>1, <1>2, <2>1, Zenon DEF PlannedAt
  <2> QED BY <1>1, <1>2, <2>2, Zenon DEF Inv, PlanInv
<1>5. OwedInv'
  BY <1>1, <1>2, Zenon DEF Inv, OwedInv, OwedPaths
<1>6. StoreInv'
  <2>1. Durable \cap Removed(manifests) = {}
    BY DurableIs, Zenon DEF Inv
  <2> QED BY <1>1, <1>2, <2>1, Zenon DEF Inv, StoreInv, Recoverable, Served, Covers
<1> QED BY <1>3, <1>4, <1>5, <1>6, Zenon DEF Inv

(* A notice that is not a repetition names an output no manifest has added. *)
LEMMA OutputIsNew ==
  ASSUME NumberInv, Inv, NEW p \in Nat, PlannedAt(p), pc = "notify", NEW f, f = MergedFile(notice)
  PROVE  /\ notice \subseteq Added(manifests) /\ f \notin notice
         /\ f \notin memory \/ memory \cap notice # {} => f \notin Added(manifests)
<1>1. /\ Durable = Added(manifests) \ Removed(manifests)
      /\ View(Prefix(p)) = Added(Prefix(p)) \ Removed(Prefix(p))
      /\ Added(Prefix(p)) \subseteq Added(manifests)
  BY DurableIs, Zenon DEF Inv
<1>2. /\ notice \subseteq Added(Prefix(p)) /\ notice \cap Removed(Prefix(p)) = {}
      /\ Removed(manifests) \cup (Durable \ memory) \subseteq Added(Prefix(p))
  BY <1>1, Zenon DEF PlannedAt
<1>3. notice # {} /\ f.from = notice
  BY FileFields, Zenon DEF Inv, PlanInv
<1>4. ASSUME NEW m \in manifests, f \in m.added, NEW x \in notice
      PROVE  \E l \in manifests : l.seq <= m.seq /\ x \in l.removed
  BY <1>3, <1>4, Zenon DEF Inv, RetiredInv
<1>5. \A m \in manifests : m.seq \in Nat
  BY Numbers, Zenon
<1>6. f \notin notice
  <2> SUFFICES ASSUME f \in notice PROVE FALSE
    BY Zenon
  <2>1. PICK m \in manifests : f \in m.added
    <3>1. f \in Added(manifests)
      BY <1>1, <1>2, Zenon
    <3> QED BY <3>1, Zenon DEF Added
  <2>2. PICK l \in manifests : l.seq <= m.seq /\ f \in l.removed
    BY <1>4, <2>1, Zenon
  <2>3. m.seq < l.seq
    BY <2>1, <2>2, Zenon DEF Inv, OnceInv
  <2> QED BY <1>5, <2>2, <2>3
<1>7. ASSUME f \notin memory \/ memory \cap notice # {}, f \in Added(manifests)
      PROVE  FALSE
  <2>1. PICK n \in manifests : f \in n.added
    BY <1>7, Zenon DEF Added
  <2>2. notice \subseteq Removed(manifests)
    BY <1>4, <2>1, Zenon DEF Removed
  <2>3. f \notin memory
    BY <1>7, <2>2, Zenon DEF Inv, StoreInv
  <2>4. f \in Added(Prefix(p))
    BY <1>1, <1>2, <1>7, <2>3, Zenon
  <2>5. PICK m \in manifests : m.seq <= p /\ f \in m.added
    BY <2>4, Zenon DEF Added, Prefix
  <2>6. PICK x : x \in notice
    BY <1>3, Zenon
  <2>7. PICK l \in manifests : l.seq <= m.seq /\ x \in l.removed
    BY <1>4, <2>5, <2>6, Zenon
  <2>8. l.seq <= p
    BY <1>5, <2>5, <2>7
  <2>9. x \in Removed(Prefix(p))
    BY <2>7, <2>8, Zenon DEF Removed, Prefix
  <2> QED BY <1>2, <2>6, <2>9, Zenon
<1> QED BY <1>1, <1>2, <1>6, <1>7, Zenon

LEMMA SwapStep == ASSUME NumberInv, Inv, HandlerSwap, ~Unrecorded PROVE Inv'
<1>1. PICK f : f = MergedFile(notice)
  BY Zenon
<1>2. PICK k : k = Handler("reserve", {f}, memory \cap notice, 0, TRUE)
  BY Zenon
<1>3. /\ pc = "notify" /\ reply = "none" /\ \A h \in handlers : ~h.heard
      /\ memory' = (memory \cup {f}) \ notice
      /\ IF {f} \ memory = {} /\ memory \cap notice = {}
         THEN reply' = "ok" /\ UNCHANGED handlers
         ELSE handlers' = handlers \cup {k} /\ UNCHANGED reply
      /\ UNCHANGED <<objects, manifests, queue, drained, pos, pc, plan, notice, pending, due>>
  BY <1>1, <1>2, Zenon DEF HandlerSwap, storeVars, indexVars
<1>4. PICK p \in 0..pos : PlannedAt(p)
  BY Zenon DEF Inv, PlanInv
<1>5. /\ notice \subseteq Added(manifests) /\ f \notin notice
      /\ f \notin memory \/ memory \cap notice # {} => f \notin Added(manifests)
  <2>1. p \in Nat
    BY <1>4 DEF NumberInv
  <2> QED BY <1>1, <1>3, <1>4, <2>1, OutputIsNew, Zenon
<1>6. Durable = Added(manifests) \ Removed(manifests) /\ Removed(manifests) \subseteq Added(manifests)
  BY DurableIs, Zenon DEF Inv, OnceInv
<1>7. Durable \cap notice \subseteq memory
  BY Zenon DEF Unrecorded
<1>8. f \in objects /\ f.from = notice /\ f.rows = UNION {x.rows : x \in notice} /\ notice # {}
  BY <1>1, <1>3, FileFields, Zenon DEF Inv, PlanInv
<1>9. CASE f \in memory /\ memory \cap notice = {}
  <2>1. memory' = memory /\ reply' = "ok" /\ handlers' = handlers
    BY <1>3, <1>9, Zenon
  <2>2. notice \subseteq Removed(manifests)
    BY <1>5, <1>6, <1>7, <1>9, Zenon
  <2>3. OwedPaths' = OwedPaths
    BY <1>3, Zenon DEF OwedPaths
  <2> QED BY <1>3, <2>1, <2>2, <2>3, CompactorKept, Zenon DEF Inv, PlanInv, OwedInv
<1>10. CASE f \notin memory \/ memory \cap notice # {}
  <2>1. handlers' = handlers \cup {k} /\ reply' = reply
    BY <1>3, <1>10, Zenon
  <2>2. f \notin Added(manifests)
    BY <1>5, <1>10, Zenon
  <2>3. /\ Durable' = Durable /\ Added(manifests)' = Added(manifests)
        /\ Removed(manifests)' = Removed(manifests) /\ Ingested' = Ingested
        /\ Added(Prefix(p))' = Added(Prefix(p)) /\ View(Prefix(p))' = View(Prefix(p))
    BY <1>3, Same, Zenon
  <2>4. /\ k.stage = "reserve" /\ k.added = {f} /\ k.removed = memory \cap notice
        /\ k.heard = TRUE
    BY <1>2, Zenon DEF Handler
  <2>5. OnceInv' /\ RetiredInv'
    BY <1>3, Zenon DEF Inv, OnceInv, RetiredInv, Added, Removed
  <2>6. OrderInv'
    <3>1. \A h \in handlers' : h.stage = "persist" => h \in handlers
      BY <2>1, <2>4, Zenon
    <3> QED BY <1>3, <3>1, Zenon DEF Inv, OrderInv
  <2>7. HandlerInv'
    <3>1. HandlerOK(k, GroupOf(k))'
      <4>1. GroupOf(k) = notice
        BY <1>1, <2>4, GroupOfMerged, Zenon
      <4>2. /\ k.added = {MergedFile(notice)} /\ k.removed \subseteq Durable \cap notice
            /\ notice \cap memory' = {} /\ f \in memory' \ Added(manifests)
        BY <1>1, <1>3, <1>5, <1>6, <2>2, <2>4, Zenon DEF Inv, StoreInv
      <4>3. \A n : Above(k, n)
        BY <2>4, Zenon DEF Above
      <4>4. \A x \in notice \ k.removed : \E l \in manifests : x \in l.removed
        BY <1>5, <1>6, <1>7, <2>4, Zenon DEF Removed
      <4>5. HandlerOK(k, notice)'
        BY <1>1, <1>3, <1>5, <1>8, <2>1, <2>3, <4>2, <4>3, <4>4, Zenon DEF HandlerOK, Above
      <4> QED BY <1>3, <4>1, <4>5, Zenon
    <3>2. ASSUME NEW h \in handlers PROVE HandlerOK(h, GroupOf(h))'
      <4>1. PICK g : g = GroupOf(h)
        BY Zenon
      <4>2. HandlerOK(h, g)
        BY <4>1, Zenon DEF Inv, HandlerInv
      <4>3. g \cap memory' = {}
        BY <1>3, <2>2, <4>2, Zenon DEF HandlerOK
      <4>4. MergedFile(g) \in memory'
        BY <1>3, <1>5, <4>2, Zenon DEF HandlerOK
      <4>5. ~h.heard
        BY <1>3, Zenon
      <4>6. HandlerOK(h, g)'
        <5>1. /\ h.added = {MergedFile(g)} /\ h.removed \subseteq Durable \cap g
              /\ g # {} /\ g \subseteq Added(manifests) /\ MergedFile(g) \notin Added(manifests)
          BY <4>2, Zenon DEF HandlerOK
        <5>2. /\ \A x \in g \ h.removed : \E l \in manifests' : x \in l.removed /\ Above(h, l.seq)
              /\ \A m \in manifests' : \A x \in m.added : x \in h.removed => Above(h, m.seq)
          BY <1>3, <4>2, Zenon DEF HandlerOK
        <5> QED BY <2>3, <4>3, <4>4, <4>5, <5>1, <5>2, Zenon DEF HandlerOK, Above
      <4> QED BY <4>1, <4>6, Zenon
    <3>3. ASSUME NEW h \in handlers PROVE h.added # k.added /\ h.removed \cap k.removed = {}
      <4>1. PICK g : g = GroupOf(h)
        BY Zenon
      <4>2. HandlerOK(h, g)
        BY <4>1, Zenon DEF Inv, HandlerInv
      <4>3. h.removed \cap k.removed = {}
        BY <2>4, <4>2, Zenon DEF HandlerOK
      <4>4. ASSUME h.added = k.added PROVE FALSE
        <5>1. MergedFile(g) = f /\ f \in memory /\ g \cap memory = {}
          BY <2>4, <4>2, <4>4, Zenon DEF HandlerOK
        <5>2. g = notice
          BY <1>8, <5>1, FileFields, Zenon
        <5> QED BY <1>10, <5>1, <5>2, Zenon
      <4> QED BY <4>3, <4>4
    <3> QED BY <2>1, <3>1, <3>2, <3>3, Zenon DEF Inv, HandlerInv
  <2>8. PlanInv'
    <3>1. notice \subseteq Added(Prefix(p))
      BY <1>4, ViewAdded, Zenon DEF PlannedAt
    <3>2. Durable \ memory' \subseteq (Durable \ memory) \cup notice
      BY <1>3, Zenon
    <3>3. Removed(manifests) \cup (Durable \ memory') \subseteq Added(Prefix(p))
      BY <1>4, <3>1, <3>2, Zenon DEF PlannedAt
    <3>4. PlannedAt(p)'
      BY <1>3, <1>4, <2>3, <3>3, Zenon DEF PlannedAt
    <3> QED BY <1>3, <2>1, <2>3, <3>4, Zenon DEF Inv, PlanInv, MergedFile
  <2>9. OwedInv'
    BY <1>3, <2>3, Zenon DEF Inv, OwedInv, OwedPaths
  <2>10. StoreInv'
    <3>1. memory' \subseteq objects'
      BY <1>3, <1>8, Zenon DEF Inv, StoreInv, Served
    <3>2. \A x \in memory : \E y \in memory' : x.rows \subseteq y.rows
      <4>1. f \in memory'
        BY <1>3, <1>5, Zenon
      <4>2. \A x \in notice : x.rows \subseteq f.rows
        BY <1>8, Zenon
      <4> QED BY <1>3, <4>1, <4>2, Zenon
    <3>3. UNION {x.rows : x \in memory} \subseteq UNION {x.rows : x \in memory'}
      BY <3>2, RowsKept, Zenon
    <3>4. Covers(memory)'
      BY <2>3, <3>3, Zenon DEF Inv, StoreInv, Served, Covers
    <3>5. Recoverable'
      BY <1>3, <2>3, Zenon DEF Inv, StoreInv, Recoverable, Covers
    <3>6. memory' \cap Removed(manifests)' = {}
      BY <1>3, <1>6, <2>2, <2>3, Zenon DEF Inv, StoreInv
    <3> QED BY <3>1, <3>4, <3>5, <3>6, Zenon DEF StoreInv, Served
  <2> QED BY <2>5, <2>6, <2>7, <2>8, <2>9, <2>10, Zenon DEF Inv
<1> QED BY <1>9, <1>10, Zenon

(* A reserved number is above every manifest there is. *)
LEMMA ReserveStep == ASSUME NumberInv, Inv, NEW h \in handlers, HandlerReserve(h) PROVE Inv'
<1>1. PICK k : k = Handler("persist", h.added, h.removed, next, h.heard)
  BY Zenon
<1>2. [h EXCEPT !.stage = "persist", !.seq = next] = k
  BY <1>1, ReserveFields, Zenon DEF NumberInv, HandlerShape
<1>3. /\ handlers' = (handlers \ {h}) \cup {k}
      /\ UNCHANGED <<objects, manifests, queue, memory, drained, pos, pc, plan, notice, reply,
                     pending, due>>
  BY <1>2, Zenon DEF HandlerReserve, storeVars, indexVars, compVars
<1>4. k.stage = "persist" /\ k.added = h.added /\ k.removed = h.removed /\ k.seq = next /\ k.heard = h.heard
  BY <1>1, Zenon DEF Handler
<1>5. /\ \A m \in manifests : m.seq < next /\ m.seq # next
      /\ next > LastSeq(drained)
      /\ \A x \in handlers : x.stage = "persist" => x.seq # next
  <2>1. \A x \in handlers : x.stage = "persist" => x.seq \in 1..(next - 1)
    BY Zenon DEF NumberInv, HandlerShape
  <2>2. \A n \in 1..(next - 1) : n # next
    BY Numbers
  <2>3. (\A m \in manifests : m.seq < next /\ m.seq # next) /\ next > LastSeq(drained)
    BY Numbers
  <2> QED BY <2>1, <2>2, <2>3, Zenon
<1>6. OrderInv'
  <2>1. \A x \in handlers' : x = k \/ x \in handlers
    BY <1>3, Zenon
  <2>2. \A x \in handlers' : x.stage = "persist" =>
          x.seq > LastSeq(drained) /\ \A m \in manifests : m.seq # x.seq
    BY <1>4, <1>5, <2>1, Zenon DEF Inv, OrderInv
  <2>3. \A x, y \in handlers' : x.stage = "persist" /\ y.stage = "persist" /\ x.seq = y.seq => x = y
    BY <1>4, <1>5, <2>1, Zenon DEF Inv, OrderInv
  <2> QED BY <1>3, <2>2, <2>3, Zenon DEF Inv, OrderInv
<1>7. HandlerInv'
  <2>1. Durable' = Durable /\ Added(manifests)' = Added(manifests)
    BY <1>3, Same, Zenon
  <2>2. ASSUME NEW x, NEW y \in handlers, x.added = y.added, x.removed = y.removed, x.heard = y.heard,
               \A m \in manifests : Above(y, m.seq) => Above(x, m.seq)
        PROVE  HandlerOK(x, GroupOf(x))'
    <3>1. PICK g : g = GroupOf(y) /\ g = GroupOf(x)
      BY <2>2, Zenon DEF GroupOf
    <3>2. HandlerOK(y, g)
      BY <3>1, Zenon DEF Inv, HandlerInv
    <3>3. /\ x.added = {MergedFile(g)} /\ x.removed \subseteq Durable \cap g
          /\ g # {} /\ g \cap memory = {} /\ g \subseteq Added(manifests)
          /\ MergedFile(g) \in memory \ Added(manifests)
          /\ x.heard => notice = g /\ pc = "notify" /\ reply = "none"
      BY <2>2, <3>2, Zenon DEF HandlerOK
    <3>4. /\ \A z \in g \ x.removed : \E l \in manifests : z \in l.removed /\ Above(x, l.seq)
          /\ \A m \in manifests : \A z \in m.added : z \in x.removed => Above(x, m.seq)
      BY <2>2, <3>2, Zenon DEF HandlerOK
    <3>5. HandlerOK(x, g)'
      BY <1>3, <2>1, <3>3, <3>4, Zenon DEF HandlerOK, Above
    <3> QED BY <3>1, <3>5, Zenon
  <2>3. HandlerOK(k, GroupOf(k))'
    <3>1. \A m \in manifests : Above(k, m.seq)
      BY <1>4, <1>5, Zenon DEF Above
    <3> QED BY <1>4, <2>2, <3>1, Zenon
  <2>4. \A x \in handlers : HandlerOK(x, GroupOf(x))'
    BY <2>2, Zenon
  <2>5. \A x, y \in handlers' : x.added = y.added \/ x.removed \cap y.removed # {} => x = y
    <3>1. \A x \in handlers' : x = k \/ (x \in handlers /\ x # h)
      BY <1>3, Zenon
    <3>2. \A x, y \in handlers : x.added = y.added \/ x.removed \cap y.removed # {} => x = y
      BY Zenon DEF Inv, HandlerInv
    <3> QED BY <1>4, <3>1, <3>2, Zenon
  <2> QED BY <1>3, <2>3, <2>4, <2>5, Zenon DEF HandlerInv
<1>8. OnceInv' /\ RetiredInv' /\ StoreInv' /\ PlanInv' /\ OwedInv'
  BY <1>3, OthersKept, Zenon
<1> QED BY <1>6, <1>7, <1>8, Zenon DEF Inv

-----------------------------------------------------------------------------
(* The theorems                                                            *)

LEMMA InvInit == ASSUME Init PROVE Inv
<1>1. manifests = {} /\ memory = {} /\ drained = {} /\ handlers = {} /\ pos = 0 /\ pc = "load"
      /\ plan = {} /\ notice = {} /\ pending = {} /\ queue = {} /\ due = {}
  BY Zenon DEF Init
<1>2. Added(manifests) = {} /\ Removed(manifests) = {} /\ Durable = {} /\ Ingested = {}
  BY <1>1, Zenon DEF Added, Removed, Durable, View, Ingested
<1>3. OrderInv
  <2>1. LastSeq(drained) \in 0..0
    BY <1>1, LastSeqIs
  <2>2. pos \in 0..LastSeq(drained)
    BY <1>1, <2>1
  <2> QED BY <1>1, <2>2, Zenon DEF OrderInv
<1>4. OnceInv /\ RetiredInv /\ HandlerInv
  BY <1>1, <1>2, Zenon DEF OnceInv, RetiredInv, HandlerInv
<1>5. PlanInv
  <2>1. PlannedAt(0)
    BY <1>1, <1>2, Zenon DEF PlannedAt
  <2>2. 0 \in 0..pos
    BY <1>1
  <2> QED BY <1>1, <2>1, <2>2, Zenon DEF PlanInv
<1>6. OwedInv
  BY <1>1, Zenon DEF OwedInv, OwedPaths
<1>7. StoreInv
  BY <1>1, <1>2, Zenon DEF StoreInv, Recoverable, Served, Covers
<1> QED BY <1>3, <1>4, <1>5, <1>6, <1>7, Zenon DEF Inv

LEMMA InvStep == ASSUME TypeInv, TypeInv', Inv, [TimelyNext]_vars PROVE Inv'
<1>1. NumberInv /\ NumberInv' /\ ControlInv
  BY Zenon DEF TypeInv
<1>2. CASE HandlerSwap /\ ~Unrecorded
  BY <1>1, <1>2, SwapStep, Zenon
<1>3. CASE Publish /\ ~Overtakes
  BY <1>1, <1>3, PublishStep, Zenon
<1>4. ASSUME NEW h \in handlers, HandlerStep(h) PROVE Inv'
  BY <1>1, <1>4, ReserveStep, EndStep, Zenon DEF HandlerStep
<1>5. CASE CompactorStep
  BY <1>1, <1>5, LoadQueueStep, PassStartStep, NotifyFailsStep, NotifyErrorStep, ScheduleStep,
     SaveStep, ReclaimStep, MergeStep, DeleteStep, Zenon DEF CompactorStep
<1>6. CASE SyncIndex \/ OwnerCrash \/ CompactorCrash
  BY <1>1, <1>6, SyncIndexStep, OwnerCrashStep, CompactorCrashStep, Zenon
<1>7. ASSUME NEW t \in Times, NEW size \in SizesOf[t], Ingest(t, size) PROVE Inv'
  BY <1>1, <1>7, IngestStep, Zenon
<1>8. CASE UNCHANGED vars
  <2>1. /\ UNCHANGED <<objects, manifests, queue, memory, handlers, drained, pos, pc, plan, notice,
                       reply, pending, due>>
    BY <1>8, Zenon DEF vars, storeVars, ownerVars, indexVars, compVars
  <2>2. OrderInv'
    BY <2>1, Zenon DEF Inv, OrderInv
  <2> QED BY <2>1, <2>2, OthersKept, UnchangedKept, Zenon DEF Inv
<1> QED BY <1>2, <1>3, <1>4, <1>5, <1>6, <1>7, <1>8, Zenon DEF TimelyNext, Step

LEMMA TimelyIsNext == ASSUME [TimelyNext]_vars PROVE [Next]_vars
BY Zenon DEF TimelyNext, Next

LEMMA Always == TimelySpec => [](TypeInv /\ Inv)
<1>1. Init => TypeInv /\ Inv
  BY TypeInit, InvInit
<1>2. TypeInv /\ Inv /\ [TimelyNext]_vars => (TypeInv /\ Inv)'
  BY TimelyIsNext, TypeStep, InvStep
<1> QED BY <1>1, <1>2, PTL DEF TimelySpec

(* "Returning Ok means the inputs are safe to delete after the grace period"
   (rpc/server.rs:88): a path the compactor owes a deletion, in memory, in the
   stored queue or under way, is not a file of the owner's manifests, whatever
   crashes, fails, is lost, times out or is delivered again.  Two timings the
   code allows are excluded: the owner takes no notice whose inputs it swapped
   out before and has no manifest for (Unrecorded), and its publisher drains no
   manifest above a number that is reserved and not stored (Overtakes).    *)
THEOREM HandoffOnlyRetired == TimelySpec => []OnlyRetired
<1>1. TypeInv /\ Inv => OnlyRetired
  <2>1. NumberInv /\ OnceInv => Durable = Added(manifests) \ Removed(manifests)
    BY DurableIs, Zenon
  <2> QED BY <2>1, Zenon DEF TypeInv, Inv, OwedInv, OwedPaths, OnlyRetired
<1> QED BY <1>1, Always, PTL

(* "Deletion happens only after the acknowledgement proves the replacement is
   durable" (compactor.rs:104): at every moment the files the manifests leave are
   there and hold every row the owner has persisted, so a crash of the owner
   loses nothing.  The two timings of HandoffOnlyRetired are excluded; with an
   unrecorded notice this fails.                                           *)
THEOREM HandoffRecoverable == TimelySpec => []Recoverable
<1>1. TypeInv /\ Inv => Recoverable
  BY Zenon DEF Inv, StoreInv
<1> QED BY <1>1, Always, PTL

(* "The rows are advertised by one file or the other at every instant"
   (rpc/server.rs:111): the running owner never names a file that is gone, and
   the files it names hold every row, through swaps, deletions and restarts.
   The two timings of HandoffOnlyRetired are excluded.                     *)
THEOREM HandoffServed == TimelySpec => []Served
<1>1. TypeInv /\ Inv => Served
  BY Zenon DEF Inv, StoreInv
<1> QED BY <1>1, Always, PTL
=============================================================================
