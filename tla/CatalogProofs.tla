--------------------------- MODULE CatalogProofs ----------------------------
(***************************************************************************)
(* For any nodes, names and bounds, and any of the faults of Next: every   *)
(* copy of the catalog is exact, ids are assigned once, and CatalogLog     *)
(* implements OneCatalog: behind log objects, snapshots, permits and       *)
(* catch-ups there is one catalog that only moves forward.                 *)
(***************************************************************************)
EXTENDS CatalogLog, TLAPS

-----------------------------------------------------------------------------
(* The inductive invariant, and the lemmas its proof rests on.            *)

Db == [id : Nat, name : Names, deleted : BOOLEAN]
Cat == [dbs : SUBSET Db, next : Nat]
Last == Len(versions) - 1

(* The log from 1 on makes each version out of the one before it. *)
LogInv ==
  /\ versions \in Seq(Cat) /\ Len(versions) >= 1 /\ versions[1] = Empty
  /\ DOMAIN log = 1..Last
  /\ \A s \in 1..Last : /\ Applies(versions[s], log[s])
                        /\ versions[s + 1] = Apply(versions[s], log[s])
  /\ \A i \in 1..Len(versions) : WellFormed(versions[i])

Shape ==
  /\ DOMAIN inner = Nodes /\ DOMAIN permit = Nodes /\ DOMAIN task = Nodes
  /\ DOMAIN txn = Nodes /\ DOMAIN slot = Nodes

(* A record prepared against version i. *)
Prepared(r, i) == \E op \in Ops : r \in Prepare(op, versions[i])

(* A node's copy is exact, its permit is its copy's number except within a
   catch-up, a record on its way was prepared against the copy, and a startup
   will not end below what the node has seen.                              *)
TaskInv(n) ==
  LET t == task[n]
  IN /\ t.pc = "list" => Exact(t.image)
     /\ t.pc = "replay" =>
          /\ Exact(t.image)
          /\ \E k \in inner[n].seq..Last : t.todo = (t.image.seq + 1)..k
     /\ t.pc \in {"free", "put", "follow"} => permit[n] = inner[n].seq
     /\ t.pc = "put" =>
          /\ t.seq = inner[n].seq + 1
          /\ t.op = NoOp \/ t.op \in Ops
          /\ Prepared(t.rec, inner[n].seq + 1)
     /\ t.pc = "catch" => t.op = NoOp \/ t.op \in Ops
     /\ t.pc \in {"catch", "follow"} => t.seq = inner[n].seq + 1

TxnInv(n) ==
  \A t \in txn[n] :
    /\ t.seq \in 0..inner[n].seq
    /\ \A r \in t.recs : \E i \in t.seq..inner[n].seq : Prepared(r, i + 1)

SlotInv(n) == \A c \in slot[n] : Exact(c.image) /\ (c.forced => Forcing(n))

(* No node is up before there is a snapshot. *)
BlankInv(n) ==
  snapshot = {} => /\ inner[n] = Initial /\ task[n].pc \in {"down", "init"}
                   /\ txn[n] = {} /\ slot[n] = {}

NodeInv(n) ==
  Exact(inner[n]) /\ TaskInv(n) /\ TxnInv(n) /\ SlotInv(n) /\ BlankInv(n)

Inv ==
  /\ LogInv /\ Shape
  /\ \A s \in snapshot : Exact(s)
  /\ \A n \in Nodes : NodeInv(n)
-----------------------------------------------------------------------------
(* What an operation prepares in a good catalog leaves a good catalog: a new
   id is above all others and a new name not in use (CreateDatabaseOp::prepare,
   Repository::insert).                                                    *)
LEMMA ApplyGood ==
  ASSUME NEW c \in Cat, WellFormed(c), NEW op,
         \/ op \in CreateOps \cup DropOps
         \/ \E image \in Cat : WellFormed(image) /\ op = RestoreOp(image),
         NEW r \in Prepare(op, c)
  PROVE  Applies(c, r) /\ Apply(c, r) \in Cat /\ WellFormed(Apply(c, r))
<1>1. CASE op \in CreateOps
  <2>1. PICK name \in Names : op = [kind |-> "create", name |-> name]
    BY <1>1, Zenon DEF CreateOps
  <2>2. r = [kind |-> "create", id |-> c.next, name |-> name] /\ Named(c, name) = {}
    BY <2>1, Zenon DEF Prepare
  <2> DEFINE new == [id |-> c.next, name |-> name, deleted |-> FALSE]
  <2>4. new \in Db /\ c.dbs \subseteq Db /\ c.next \in Nat
    BY Zenon DEF Db, Cat
  <2>a. r.kind = "create" /\ r.id = c.next /\ r.name = name
    BY <2>2, Zenon
  <2>b. Apply(c, r) = [dbs |-> {d \in c.dbs : d.id # r.id}
                                 \cup {[id |-> r.id, name |-> r.name, deleted |-> FALSE]},
                       next |-> IF c.next <= r.id THEN r.id + 1 ELSE c.next]
    BY <2>a, Zenon DEF Apply
  <2> DEFINE dbs == {d \in c.dbs : d.id # c.next} \cup {new}
  <2>c. (IF c.next <= r.id THEN r.id + 1 ELSE c.next) = c.next + 1
    BY <2>a, <2>4
  <2>e. {d \in c.dbs : d.id # r.id} \cup {[id |-> r.id, name |-> r.name, deleted |-> FALSE]}
          = dbs
    BY <2>a, Zenon
  <2>3. Apply(c, r) = [dbs |-> dbs, next |-> c.next + 1]
    BY <2>b, <2>c, <2>e, Zenon
  <2>d. dbs \in SUBSET Db
    BY <2>4, Zenon
  <2>5. Apply(c, r) \in Cat
    <3> HIDE DEF dbs
    <3> QED BY <2>3, <2>4, <2>d DEF Cat
  <2>6. \A d \in c.dbs : d.name = name => d.deleted
    BY <2>2, <2>4, Zenon DEF Named, Db
  <2>7. /\ Apply(c, r).next = c.next + 1
        /\ \A d \in Apply(c, r).dbs : d = new \/ (d \in c.dbs /\ d.id < c.next)
    BY <2>3 DEF WellFormed
  <2>8. \A d \in Apply(c, r).dbs : d.id < Apply(c, r).next
    BY <2>4, <2>7 DEF Db
  <2>9. ASSUME NEW d \in Apply(c, r).dbs, NEW e \in Apply(c, r).dbs,
               d.id = e.id \/ (d.name = e.name /\ ~d.deleted /\ ~e.deleted)
        PROVE  d = e
    <3>1. new.id = c.next /\ new.name = name /\ ~new.deleted
      BY Zenon
    <3>2. CASE d = new /\ e # new
      BY <3>1, <3>2, <2>4, <2>6, <2>7, <2>9 DEF Db
    <3>3. CASE d # new /\ e = new
      BY <3>1, <3>3, <2>4, <2>6, <2>7, <2>9 DEF Db
    <3>4. CASE d \in c.dbs /\ e \in c.dbs
      BY <3>4, <2>9, Zenon DEF WellFormed
    <3> QED BY <2>7, <3>2, <3>3, <3>4, Zenon
  <2>f. Applies(c, r)
    BY <2>a, <2>2, <2>4, Zenon DEF Applies
  <2> QED BY <2>5, <2>8, <2>9, <2>f, Zenon DEF WellFormed
<1>2. CASE op \in DropOps
  <2>1. PICK name \in Names : op = [kind |-> "drop", name |-> name]
    BY <1>2, Zenon DEF DropOps
  <2>2. PICK d \in c.dbs : r = [kind |-> "drop", id |-> d.id]
    BY <2>1, Zenon DEF Prepare, Named
  <2> DEFINE mark(e) == [e EXCEPT !.deleted = @ \/ e.id = d.id]
  <2>3. Apply(c, r) = [c EXCEPT !.dbs = {mark(e) : e \in c.dbs}]
    BY <2>2, Zenon DEF Apply
  <2>4. c.dbs \subseteq Db /\ c.next \in Nat
    BY Zenon DEF Cat
  <2>5. \A e \in Db : /\ mark(e) \in Db /\ mark(e).id = e.id /\ mark(e).name = e.name
                      /\ ~mark(e).deleted => ~e.deleted
    BY Zenon DEF Db
  <2>6. Apply(c, r).dbs = {mark(e) : e \in c.dbs} /\ Apply(c, r).next = c.next
    BY <2>3, Zenon DEF Cat
  <2>7. Apply(c, r) \in Cat
    BY <2>3, <2>4, <2>5 DEF Cat
  <2> HIDE DEF mark
  <2>8. \A e \in Apply(c, r).dbs : e.id < c.next
    BY <2>4, <2>5, <2>6 DEF WellFormed
  <2>9. ASSUME NEW e \in c.dbs, NEW f \in c.dbs,
               \/ mark(e).id = mark(f).id
               \/ mark(e).name = mark(f).name /\ ~mark(e).deleted /\ ~mark(f).deleted
        PROVE  mark(e) = mark(f)
    BY <2>4, <2>5, <2>9 DEF WellFormed
  <2>10. Applies(c, r)
    BY <2>2, Zenon DEF Applies
  <2> QED BY <2>6, <2>7, <2>8, <2>9, <2>10 DEF WellFormed
<1>3. CASE \E image \in Cat : WellFormed(image) /\ op = RestoreOp(image)
  BY <1>3 DEF RestoreOp, Prepare, Apply, Applies
<1> QED BY <1>1, <1>2, <1>3, Zenon

-----------------------------------------------------------------------------
(* The log only grows. *)
Grows ==
  /\ Len(versions') >= Len(versions)
  /\ \A i \in 1..Len(versions) : versions'[i] = versions[i]

(* An operation and a prepared record stay what they are as the log grows. *)
LEMMA OpsGrow ==
  ASSUME LogInv, LogInv', Grows
  PROVE  /\ Ops \subseteq Ops'
         /\ \A i \in 1..Len(versions) : \A r : Prepared(r, i) => Prepared(r, i)'
<1>1. Ops \subseteq Ops'
  <2>1. DOMAIN versions = 1..Len(versions) /\ DOMAIN versions' = 1..Len(versions')
    BY DEF LogInv
  <2>2. \A i \in DOMAIN versions : i \in DOMAIN versions' /\ versions'[i] = versions[i]
    BY <2>1 DEF LogInv, Grows
  <2> QED BY <2>2, Zenon DEF Ops
<1> QED BY <1>1, Zenon DEF Prepared, Grows

(* A catalog of the log is good, and so is what an operation makes of it. *)
LEMMA PreparedGood ==
  ASSUME LogInv, NEW i \in 1..Len(versions), NEW r, Prepared(r, i)
  PROVE  /\ Applies(versions[i], r)
         /\ Apply(versions[i], r) \in Cat /\ WellFormed(Apply(versions[i], r))
<1>1. PICK op \in Ops : r \in Prepare(op, versions[i])
  BY Zenon DEF Prepared
<1>2. \A j \in DOMAIN versions : versions[j] \in Cat /\ WellFormed(versions[j])
  BY DEF LogInv
<1>3. versions[i] \in Cat /\ WellFormed(versions[i])
  BY <1>2 DEF LogInv
<1>4. \/ op \in CreateOps \cup DropOps
      \/ \E image \in Cat : WellFormed(image) /\ op = RestoreOp(image)
  BY <1>1, <1>2, Zenon DEF Ops
<1> QED BY <1>1, <1>3, <1>4, ApplyGood, Zenon

(* A record that lands at the end makes the next version. *)
LEMMA LandGood ==
  ASSUME LogInv, NEW seq, NEW rec, seq = Last + 1, Prepared(rec, seq), Land(seq, rec)
  PROVE  /\ LogInv' /\ Grows
         /\ Len(versions') = seq + 1 /\ versions'[seq + 1] = Apply(versions[seq], rec)
<1> DEFINE next == Apply(versions[seq], rec)
<1>1. seq = Len(versions) /\ seq \in 1..Len(versions) /\ seq \in Nat
  BY DEF LogInv, Last
<1>2. Applies(versions[seq], rec) /\ next \in Cat /\ WellFormed(next)
  BY <1>1, PreparedGood, Zenon
<1>3. versions' = Append(versions, next) /\ versions \in Seq(Cat)
  BY <1>1, Zenon DEF Land, LogInv
<1> HIDE DEF next
<1>4. /\ versions' \in Seq(Cat) /\ Len(versions') = seq + 1
      /\ \A i \in 1..Len(versions) : versions'[i] = versions[i]
      /\ versions'[seq + 1] = next
  BY <1>1, <1>2, <1>3
<1>5. Grows
  BY <1>1, <1>4 DEF Grows
<1>6. DOMAIN log' = 1..seq /\ log'[seq] = rec /\ \A s \in 1..(seq - 1) : log'[s] = log[s]
  <2>1. log' = [s \in (1..(seq - 1)) \cup {seq} |-> IF s = seq THEN rec ELSE log[s]]
    <3>1. Last = seq - 1
      BY <1>1, Zenon DEF Last
    <3> QED BY <3>1, Zenon DEF Land, LogInv
  <2>2. (1..(seq - 1)) \cup {seq} = 1..seq
    BY <1>1
  <2> QED BY <1>1, <2>1, <2>2
<1>7. \A s \in 1..seq : /\ Applies(versions'[s], log'[s])
                        /\ versions'[s + 1] = Apply(versions'[s], log'[s])
  <2> SUFFICES ASSUME NEW s \in 1..seq
               PROVE  /\ Applies(versions'[s], log'[s])
                      /\ versions'[s + 1] = Apply(versions'[s], log'[s])
    BY Zenon
  <2>1. CASE s = seq
    BY <2>1, <1>1, <1>2, <1>4, <1>6, Zenon DEF next
  <2>2. CASE s # seq
    <3>1. s \in 1..Last /\ s + 1 \in 1..Len(versions) /\ s \in 1..Len(versions) /\ s \in 1..(seq - 1)
      BY <2>2, <1>1 DEF Last
    <3> QED BY <3>1, <1>4, <1>6, Zenon DEF LogInv
  <2> QED BY <2>1, <2>2, Zenon
<1>8. \A i \in 1..Len(versions') : WellFormed(versions'[i])
  <2>1. \A i \in 1..(seq + 1) : i \in 1..Len(versions) \/ i = seq + 1
    BY <1>1
  <2> QED BY <2>1, <1>2, <1>4, Zenon DEF LogInv
<1>9. LogInv'
  <2>1. versions'[1] = Empty /\ Last' = seq
    BY <1>1, <1>4 DEF LogInv, Last
  <2> QED BY <2>1, <1>1, <1>4, <1>6, <1>7, <1>8 DEF LogInv
<1> QED BY <1>4, <1>5, <1>9, Zenon DEF next

(* A copy that is exact stays exact as the log grows. *)
LEMMA ExactStays ==
  ASSUME LogInv, LogInv', Grows, NEW image, Exact(image)
  PROVE  Exact(image)'
<1>1. Len(versions) \in Nat /\ Len(versions') \in Nat /\ Len(versions') >= Len(versions)
  BY DEF LogInv, Grows
<1>2. image.seq \in 0..(Len(versions) - 1) /\ image.cat = versions[image.seq + 1]
  BY Zenon DEF Exact
<1>3. image.seq \in 0..(Len(versions') - 1) /\ image.seq + 1 \in 1..Len(versions)
  BY <1>1, <1>2
<1> QED BY <1>2, <1>3, Zenon DEF Exact, Grows

(* The log's numbers, and those of a node's copy. *)
LEMMA Numbers ==
  ASSUME LogInv
  PROVE  /\ Last \in Nat /\ Len(versions) = Last + 1
         /\ \A image : Exact(image) =>
              /\ image.seq \in 0..Last /\ image.seq \in Nat
              /\ image.seq + 1 \in 1..Len(versions)
              /\ image.cat = versions[image.seq + 1]
<1>1. Len(versions) \in Nat /\ Len(versions) >= 1
  BY DEF LogInv
<1> QED BY <1>1 DEF Last, Exact

(* The numbers above a first one. *)
LEMMA Above ==
  ASSUME NEW a \in Nat, NEW k \in Nat
  PROVE  ((a + 1)..k) \ {a + 1} = (a + 2)..k
  OBVIOUS

(* A transaction stays what it is while the node's copy moves on. *)
LEMMA TxnStays ==
  ASSUME NEW m \in Nodes, Exact(inner[m]), TxnInv(m), LogInv, LogInv', Grows,
         txn'[m] \subseteq txn[m], inner'[m].seq \in Nat, inner'[m].seq >= inner[m].seq
  PROVE  TxnInv(m)'
<1>1. inner[m].seq \in Nat /\ inner[m].seq + 1 \in 1..Len(versions)
  BY Numbers, Zenon
<1> SUFFICES ASSUME NEW t \in txn[m]
             PROVE  /\ t.seq \in 0..inner'[m].seq
                    /\ \A r \in t.recs :
                         \E i \in t.seq..inner'[m].seq : Prepared(r, i + 1)'
  BY Zenon DEF TxnInv
<1>2. /\ t.seq \in 0..inner[m].seq
      /\ \A r \in t.recs : \E i \in t.seq..inner[m].seq : Prepared(r, i + 1)
  BY Zenon DEF TxnInv
<1>3. \A i \in t.seq..inner[m].seq : i + 1 \in 1..Len(versions) /\ i \in t.seq..inner'[m].seq
  <2>1. t.seq \in Nat /\ Len(versions) \in Nat /\ inner[m].seq + 1 <= Len(versions)
    BY <1>1, <1>2 DEF LogInv
  <2> QED BY <1>1, <2>1
<1>4. t.seq \in 0..inner'[m].seq
  BY <1>1, <1>2
<1> QED BY <1>2, <1>3, <1>4, OpsGrow, Zenon

(* A step of another node leaves a node's invariant alone. *)
LEMMA Frame ==
  ASSUME NEW m \in Nodes, NodeInv(m), LogInv, LogInv', Grows,
         snapshot' = {} => snapshot = {},
         inner'[m] = inner[m], permit'[m] = permit[m], task'[m] = task[m],
         txn'[m] = txn[m], slot'[m] = slot[m]
  PROVE  NodeInv(m)'
<1>1. \A image : Exact(image) => Exact(image)'
  BY ExactStays, Zenon
<1>2. Exact(inner[m]) /\ inner[m].seq \in Nat /\ inner[m].seq + 1 \in 1..Len(versions)
  BY Numbers, Zenon DEF NodeInv
<1>3. Last' >= Last /\ Last \in Nat /\ Last' \in Nat
  BY DEF Last, Grows, LogInv
<1>4. TaskInv(m)'
  BY <1>1, <1>2, <1>3, OpsGrow DEF NodeInv, TaskInv
<1>5. TxnInv(m)'
  BY <1>2, TxnStays DEF NodeInv
<1>6. SlotInv(m)'
  BY <1>1, Zenon DEF NodeInv, SlotInv, Forcing
<1> QED BY <1>1, <1>2, <1>4, <1>5, <1>6, Zenon DEF NodeInv, BlankInv

-----------------------------------------------------------------------------
Others(n) ==
  \A m \in Nodes \ {n} :
    /\ inner'[m] = inner[m] /\ permit'[m] = permit[m] /\ task'[m] = task[m]
    /\ txn'[m] = txn[m] /\ slot'[m] = slot[m]

(* A step of n, seen from outside: it writes the next version, or moves n on. *)
Moves(n) ==
  /\ versions' = versions
  /\ inner'[n].seq \in inner[n].seq..Last
Writes(n) ==
  \E r : /\ Prepared(r, Len(versions))
         /\ versions' = Append(versions, Apply(versions[Len(versions)], r))
         /\ inner'[n].seq \in {inner[n].seq, Len(versions)}

(* All there is to show of a step of n. *)
StepOf(n) ==
  /\ LogInv' /\ Grows /\ Shape' /\ Others(n)
  /\ snapshot' = {} => snapshot = {}
  /\ \A s \in snapshot' : Exact(s)'
  /\ NodeInv(n)'
  /\ Moves(n) \/ Writes(n)

(* A step of one node keeps the invariant of all. *)
LEMMA StepKeeps ==
  ASSUME Inv, NEW n \in Nodes, StepOf(n)
  PROVE  Inv'
<1> SUFFICES ASSUME NEW m \in Nodes PROVE NodeInv(m)'
  BY Zenon DEF Inv, StepOf
<1>1. CASE m = n
  BY <1>1, Zenon DEF StepOf
<1>2. CASE m # n
  BY <1>2, Frame, Zenon DEF Inv, StepOf, Others
<1> QED BY <1>1, <1>2, Zenon

(* A step that leaves the store and the node's copy alone has only to account
   for what it changes.                                                    *)
LEMMA Quiet ==
  ASSUME Inv, NEW n \in Nodes, UNCHANGED <<log, versions, snapshot, inner>>,
         Shape', Others(n), BlankInv(n)',
         TaskInv(n)' \/ UNCHANGED <<task, permit>>,
         TxnInv(n)' \/ UNCHANGED txn,
         SlotInv(n)' \/ (UNCHANGED slot /\ (~Forcing(n) \/ UNCHANGED task))
  PROVE  StepOf(n)
<1>0. LogInv /\ NodeInv(n) /\ \A s \in snapshot : Exact(s)
  BY Zenon DEF Inv
<1>1. LogInv' /\ Grows
  <2>1. LogInv' BY <1>0, Zenon DEF LogInv, Last
  <2> QED BY <2>1 DEF LogInv, Grows
<1>2. (\A image : Exact(image)' <=> Exact(image)) /\ Ops' = Ops /\ Last' = Last
  BY Zenon DEF Exact, Ops, Last
<1>3. \A r, i : Prepared(r, i)' <=> Prepared(r, i)
  BY <1>2, Zenon DEF Prepared
<1>4. Moves(n)
  <2>1. inner[n].seq \in 0..Last /\ inner'[n].seq = inner[n].seq
    BY <1>0, Numbers, Zenon DEF NodeInv
  <2>2. Last \in Nat
    BY <1>0, Numbers, Zenon
  <2> QED BY <2>1, <2>2 DEF Moves
<1>5. TaskInv(n)'
  <2>1. CASE UNCHANGED <<task, permit>>
    <3>1. TaskInv(n)
      BY <1>0, Zenon DEF NodeInv
    <3> QED BY <1>2, <1>3, <2>1, <3>1, Zenon DEF TaskInv
  <2> QED BY <2>1, Zenon
<1>6. TxnInv(n)'
  BY <1>0, <1>3, Zenon DEF NodeInv, TxnInv
<1>7. SlotInv(n)'
  BY <1>0, <1>2, Zenon DEF NodeInv, SlotInv, Forcing
<1>8. NodeInv(n)'
  BY <1>0, <1>2, <1>5, <1>6, <1>7, Zenon DEF NodeInv
<1> QED BY <1>0, <1>1, <1>2, <1>4, <1>8, Zenon DEF StepOf

(* A step that moves only what holds the node's permit, or its number. *)
LEMMA TaskOnly ==
  ASSUME Inv, NEW n \in Nodes, NEW t, NEW p, ~Forcing(n),
         UNCHANGED <<log, versions, snapshot, inner, txn, slot>>,
         task' = [task EXCEPT ![n] = t],
         permit' = permit \/ permit' = [permit EXCEPT ![n] = p],
         task[n].pc \in {"down", "init"} /\ snapshot = {} => t.pc \in {"down", "init"},
         task'[n] = t => TaskInv(n)'
  PROVE  StepOf(n)
<1>1. Shape /\ BlankInv(n)
  BY Zenon DEF Inv, NodeInv
<1>2. Shape' /\ Others(n) /\ task'[n] = t
  BY <1>1, Zenon DEF Shape, Others
<1>3. BlankInv(n)'
  BY <1>1, <1>2, Zenon DEF BlankInv
<1> QED BY <1>2, <1>3, Quiet, Zenon

-----------------------------------------------------------------------------
(* Startup and the callers' operations up to their PUTs.                   *)

(* load_or_create_catalog reads the snapshot: what it goes on with is exact. *)
LEMMA LoadSnapshotStep ==
  ASSUME Inv, NEW n \in Nodes, LoadSnapshot(n)
  PROVE  StepOf(n)
<1>0. ~Forcing(n) /\ UNCHANGED <<log, versions, snapshot, inner, txn, slot, permit>>
  BY DEF LoadSnapshot, Forcing, Down
<1> PICK none : none = [pc |-> "init"]
  BY Zenon
<1>1. CASE snapshot = {} /\ task' = [task EXCEPT ![n] = none]
  <2>1. none.pc = "init" /\ (task'[n] = none => TaskInv(n)')
    BY DEF TaskInv
  <2> QED BY <1>0, <1>1, <2>1, TaskOnly, Zenon
<1>2. ASSUME NEW s \in snapshot, task' = [task EXCEPT ![n] = Replay("list", s, {})]
      PROVE  StepOf(n)
  <2>1. Exact(s)'
    BY <1>0, Zenon DEF Inv, Exact
  <2>2. task'[n] = Replay("list", s, {}) => TaskInv(n)'
    BY <2>1 DEF TaskInv, Replay
  <2> QED BY <1>0, <1>2, <2>2, TaskOnly, Zenon
<1> QED BY <1>1, <1>2, Zenon DEF LoadSnapshot

(* load_catalog lists every log above the snapshot, up to the last one. *)
LEMMA ListLogsStep ==
  ASSUME Inv, NEW n \in Nodes, ListLogs(n)
  PROVE  StepOf(n)
<1> PICK image : image = task[n].image
  BY Zenon
<1>0. /\ task[n].pc = "list" /\ ~Forcing(n)
      /\ UNCHANGED <<log, versions, snapshot, inner, txn, slot, permit>>
      /\ task' = [task EXCEPT ![n] =
                    Replay("replay", image, {s \in DOMAIN log : s > image.seq})]
  BY Zenon DEF ListLogs, Forcing
<1>1. LogInv /\ Exact(inner[n]) /\ Exact(image)
  BY <1>0, Zenon DEF Inv, NodeInv, TaskInv
<1>2. Last \in Nat /\ inner[n].seq \in 0..Last /\ image.seq \in 0..Last
  BY <1>1, Numbers, Zenon
<1>3. {s \in DOMAIN log : s > image.seq} = (image.seq + 1)..Last
  <2>1. {s \in 1..Last : s > image.seq} = (image.seq + 1)..Last
    BY <1>2
  <2> QED BY <1>1, <2>1, Zenon DEF LogInv
<1>4. Exact(image)' /\ inner'[n].seq = inner[n].seq /\ Last' = Last
  BY <1>0, <1>1, Zenon DEF Exact, Last
<1>5. task'[n] = Replay("replay", image, (image.seq + 1)..Last) => TaskInv(n)'
  BY <1>2, <1>4 DEF TaskInv, Replay
<1> QED BY <1>0, <1>3, <1>5, TaskOnly, Zenon

(* A startup that opens the catalog at image. *)
LEMMA OpenStep ==
  ASSUME Inv, NEW n \in Nodes, NEW image, Exact(image), image.seq >= inner[n].seq,
         Open(n, image), snapshot' # {}, \A s \in snapshot' : Exact(s), ~Forcing(n),
         UNCHANGED <<log, versions, txn, slot>>
  PROVE  StepOf(n)
<1>1. Shape' /\ Others(n)
  BY Zenon DEF Inv, Shape, Others, Open
<1>2. LogInv' /\ Grows
  <2>1. LogInv' BY Zenon DEF Inv, LogInv, Last
  <2> QED BY <2>1 DEF LogInv, Grows
<1>3. inner'[n] = image /\ permit'[n] = image.seq /\ task'[n].pc = "free"
  BY Zenon DEF Inv, Shape, Open, Free
<1>4. image.seq \in Nat /\ image.seq \in inner[n].seq..Last
  BY Numbers DEF Inv, NodeInv
<1>5. \A i : Exact(i)' <=> Exact(i)
  BY Zenon DEF Exact
<1>6. TxnInv(n)'
  BY <1>2, <1>3, <1>4, TxnStays, Zenon DEF Inv, NodeInv
<1>7. NodeInv(n)'
  BY <1>3, <1>5, <1>6, Zenon DEF Inv, NodeInv, TaskInv, SlotInv, Forcing, BlankInv
<1> QED BY <1>1, <1>2, <1>3, <1>4, <1>5, <1>7, Zenon DEF StepOf, Moves

(* initialize_snapshot: only the first of racing nodes starts from an empty
   catalog.                                                                *)
LEMMA InitSnapshotStep ==
  ASSUME Inv, NEW n \in Nodes, InitSnapshot(n)
  PROVE  StepOf(n)
<1>0. ~Forcing(n)
  BY Zenon DEF InitSnapshot, Forcing
<1>1. Exact(Initial) /\ Initial.seq = 0
  BY DEF Inv, LogInv, Exact, Initial, Image
<1>2. CASE snapshot = {} /\ snapshot' = {Initial} /\ Open(n, Initial)
  <2>1. inner[n].seq = 0
    BY <1>1, <1>2, Zenon DEF Inv, NodeInv, BlankInv
  <2> QED BY <1>0, <1>1, <1>2, <2>1, OpenStep DEF InitSnapshot
<1>3. CASE /\ task' = [task EXCEPT ![n] = Down] /\ UNCHANGED <<inner, permit>>
           /\ snapshot' = snapshot \/ snapshot' = {Initial}
  <2>1. UNCHANGED <<log, versions, txn, slot, inner, permit>>
    BY <1>3, Zenon DEF InitSnapshot
  <2>2. Shape' /\ Others(n) /\ task'[n].pc = "down"
    BY <1>3, <2>1, Zenon DEF Inv, Shape, Others, Down
  <2>3. LogInv' /\ Grows
    <3>1. LogInv' BY <2>1, Zenon DEF Inv, LogInv, Last
    <3> QED BY <2>1, <3>1 DEF LogInv, Grows
  <2>4. \A image : Exact(image)' <=> Exact(image)
    BY <2>1, Zenon DEF Exact
  <2>5. TxnInv(n)'
    BY <2>1, Zenon DEF Inv, NodeInv, TxnInv, Prepared, Ops
  <2>6. NodeInv(n)'
    BY <1>0, <1>3, <2>1, <2>2, <2>4, <2>5, Zenon
       DEF Inv, NodeInv, TaskInv, SlotInv, Forcing, BlankInv
  <2>7. Moves(n)
    BY <2>1, Numbers DEF Inv, NodeInv, Moves
  <2> QED BY <1>1, <1>3, <2>2, <2>3, <2>4, <2>6, <2>7, Zenon DEF StepOf, Inv
<1> QED BY <1>2, <1>3, Zenon DEF InitSnapshot

(* A startup applies the listed logs without a gap and ends no lower than the
   node had been.                                                          *)
LEMMA ReplayLogStep ==
  ASSUME Inv, NEW n \in Nodes, ReplayLog(n)
  PROVE  StepOf(n)
<1> PICK image, todo : image = task[n].image /\ todo = task[n].todo
  BY Zenon
<1>0. /\ Inv /\ ~Forcing(n) /\ snapshot # {} /\ \A s \in snapshot : Exact(s)
      /\ UNCHANGED <<log, snapshot, versions, txn, slot>>
  BY Zenon DEF ReplayLog, Forcing, Inv, NodeInv, BlankInv
<1>1. Exact(image) /\ \E k \in inner[n].seq..Last : todo = (image.seq + 1)..k
  BY Zenon DEF Inv, NodeInv, TaskInv, ReplayLog
<1>2. PICK k \in inner[n].seq..Last : todo = (image.seq + 1)..k
  BY <1>1, Zenon
<1>3. /\ Last \in Nat /\ inner[n].seq \in Nat /\ image.seq \in Nat /\ k \in Nat
      /\ image.cat = versions[image.seq + 1]
  <2>1. LogInv /\ Exact(inner[n])
    BY Zenon DEF Inv, NodeInv
  <2>2. /\ Last \in Nat /\ inner[n].seq \in Nat /\ image.seq \in Nat
        /\ image.cat = versions[image.seq + 1]
    BY <1>1, <2>1, Numbers, Zenon
  <2> QED BY <1>2, <2>2
<1>4. CASE todo = {} /\ Open(n, image)
  <2>1. image.seq >= inner[n].seq
    BY <1>2, <1>3, <1>4
  <2> QED BY <1>0, <1>1, <1>4, <2>1, OpenStep, Zenon
<1>5. ASSUME NEW s \in todo, \A t \in todo : s <= t,
             task' = [task EXCEPT ![n] =
                  IF Applies(image.cat, log[s])
                  THEN Replay("replay", Image(s, Apply(image.cat, log[s])), todo \ {s})
                  ELSE Down],
             UNCHANGED <<inner, permit>>
      PROVE  StepOf(n)
  <2>1. s = image.seq + 1 /\ s \in 1..Last
    <3>1. s \in (image.seq + 1)..k /\ image.seq + 1 \in (image.seq + 1)..k
      BY <1>2, <1>3, <1>5
    <3>2. s <= image.seq + 1
      BY <1>2, <1>5, <3>1, Zenon
    <3> QED BY <1>2, <1>3, <3>1, <3>2
  <2>2. Applies(image.cat, log[s]) /\ Apply(image.cat, log[s]) = versions[s + 1]
    BY <1>3, <2>1, Zenon DEF Inv, LogInv
  <2>3. todo \ {s} = (s + 1)..k
    <3>1. ((image.seq + 1)..k) \ {image.seq + 1} = (image.seq + 2)..k
      BY <1>3, Above, Zenon
    <3>2. s + 1 = image.seq + 2
      BY <1>3, <2>1
    <3> QED BY <1>2, <2>1, <3>1, <3>2, Zenon
  <2> PICK new : new = Image(s, versions[s + 1])
    BY Zenon
  <2>4. task'[n] = Replay("replay", new, (new.seq + 1)..k)
    BY <1>5, <2>2, <2>3, Zenon DEF Inv, Shape, Image
  <2>5. Exact(new)' /\ Last' = Last /\ inner' = inner
    BY <1>0, <1>5, <2>1, <1>3 DEF Exact, Image, Last
  <2>6. TaskInv(n)'
    BY <1>2, <2>4, <2>5 DEF TaskInv, Replay
  <2>7. task' = [task EXCEPT ![n] = Replay("replay", new, (new.seq + 1)..k)]
    BY <1>5, <2>2, <2>3, Zenon DEF Image
  <2> QED BY <1>0, <1>5, <2>6, <2>7, TaskOnly, Zenon
<1> QED BY <1>4, <1>5, Zenon DEF ReplayLog

(* update_committed prepares against the latest copy, under the permit. *)
LEMMA UpdateStep ==
  ASSUME Inv, NEW n \in Nodes, NEW op \in Ops, Update(n, op)
  PROVE  StepOf(n)
<1>0. /\ task[n].pc = "free" /\ ~Forcing(n)
      /\ UNCHANGED <<log, versions, snapshot, inner, txn, slot, permit>>
  BY DEF Update, Free, Forcing
<1>1. PICK r \in Prepare(op, inner[n].cat) :
        task' = [task EXCEPT ![n] = Put(permit[n] + 1, op, r)]
  BY Zenon DEF Update
<1>2. permit[n] = inner[n].seq /\ inner[n].cat = versions[inner[n].seq + 1]
  BY <1>0, Zenon DEF Inv, NodeInv, TaskInv, Exact
<1>3. Prepared(r, inner[n].seq + 1)
  BY <1>1, <1>2, Zenon DEF Prepared
<1>4. Prepared(r, inner[n].seq + 1)' /\ op \in Ops'
  BY <1>0, <1>3, Zenon DEF Prepared, Ops
<1>5. task'[n] = Put(permit[n] + 1, op, r) => TaskInv(n)'
  BY <1>0, <1>2, <1>4 DEF TaskInv, Put
<1> QED BY <1>0, <1>1, <1>5, TaskOnly, Zenon

(* begin_transaction's number is at most the copy it will read. *)
LEMMA BeginStep ==
  ASSUME Inv, NEW n \in Nodes, Begin(n)
  PROVE  StepOf(n)
<1>0. /\ UNCHANGED <<log, versions, snapshot, inner, task, slot, permit>>
      /\ txn' = [txn EXCEPT ![n] = {[seq |-> inner[n].seq, recs |-> {}]}]
  BY Zenon DEF Begin
<1>1. Shape /\ BlankInv(n) /\ inner[n].seq \in Nat
  BY Numbers, Zenon DEF Inv, NodeInv
<1>2. Shape' /\ Others(n) /\ TxnInv(n)'
  BY <1>0, <1>1 DEF Shape, Others, TxnInv
<1>3. BlankInv(n)'
  BY <1>0, <1>1, Zenon DEF BlankInv, Up, Begin
<1> QED BY <1>0, <1>2, <1>3, Quiet, Zenon

(* begin_database_transaction's records belong to a version at or above the
   transaction's number.                                                   *)
LEMMA BeginReadStep ==
  ASSUME Inv, NEW n \in Nodes, NEW op \in CreateOps, BeginRead(n, op)
  PROVE  StepOf(n)
<1>0. UNCHANGED <<log, versions, snapshot, inner, task, slot, permit>> /\ Shape
      /\ Exact(inner[n]) /\ TxnInv(n) /\ BlankInv(n) /\ LogInv
  BY Zenon DEF BeginRead, Inv, NodeInv
<1>1. Shape' /\ Others(n)
  BY <1>0, Zenon DEF Shape, Others, BeginRead
<1>3. TxnInv(n)'
  <2>1. PICK t \in txn[n] :
          txn'[n] = {[seq |-> t.seq, recs |-> {r}] : r \in Prepare(op, inner[n].cat)}
    BY <1>0, Zenon DEF BeginRead, Shape
  <2>2. t.seq \in 0..inner[n].seq /\ inner[n].seq \in Nat
        /\ inner[n].cat = versions[inner[n].seq + 1]
    BY <1>0, Numbers, Zenon DEF TxnInv
  <2>3. \A r \in Prepare(op, inner[n].cat) : Prepared(r, inner[n].seq + 1)
    BY <2>2, Zenon DEF Prepared, Ops
  <2>4. \A u \in txn'[n] : \E r \in Prepare(op, inner[n].cat) :
          u = [seq |-> t.seq, recs |-> {r}]
    BY <2>1, Zenon
  <2>5. \A r \in Prepare(op, inner[n].cat) : Prepared(r, inner[n].seq + 1)' /\ inner' = inner
    BY <1>0, <2>3, Zenon DEF Prepared, Ops
  <2>6. inner[n].seq \in t.seq..inner[n].seq
    BY <2>2
  <2> SUFFICES ASSUME NEW u \in txn'[n], NEW r \in u.recs
               PROVE  u.seq \in 0..inner'[n].seq
                      /\ \E i \in u.seq..inner'[n].seq : Prepared(r, i + 1)'
    <3>1. \A u \in txn'[n] : \E r : r \in u.recs
      BY <2>4
    <3> QED BY <3>1, Zenon DEF TxnInv
  <2>7. u.seq = t.seq /\ r \in Prepare(op, inner[n].cat)
    BY <2>4
  <2>8. inner' = inner /\ Prepared(r, inner[n].seq + 1)'
    BY <1>0, <2>5, <2>7, Zenon
  <2> QED BY <2>2, <2>6, <2>7, <2>8, Zenon
<1>4. BlankInv(n)'
  BY <1>0, Zenon DEF BlankInv, Up, BeginRead
<1> QED BY <1>0, <1>1, <1>3, <1>4, Quiet, Zenon

(* commit_transaction: a number equal to the permit's pins the version the
   records were prepared against.                                          *)
LEMMA CommitStep ==
  ASSUME Inv, NEW n \in Nodes, Commit(n)
  PROVE  StepOf(n)
<1>0. /\ UNCHANGED <<log, versions, snapshot, inner, slot, permit>> /\ Shape
      /\ Exact(inner[n]) /\ TaskInv(n) /\ TxnInv(n) /\ BlankInv(n) /\ LogInv
      /\ task[n] = Free /\ txn' = [txn EXCEPT ![n] = {}]
  BY Zenon DEF Commit, Inv, NodeInv
<1>1. PICK t \in txn[n] : \E r \in t.recs :
        task' = IF permit[n] = t.seq
                THEN [task EXCEPT ![n] = Put(permit[n] + 1, NoOp, r)] ELSE task
  BY Zenon DEF Commit
<1>2. PICK r \in t.recs :
        task' = IF permit[n] = t.seq
                THEN [task EXCEPT ![n] = Put(permit[n] + 1, NoOp, r)] ELSE task
  BY <1>1, Zenon
<1>3. Shape' /\ Others(n)
  BY <1>0, <1>2, Zenon DEF Shape, Others
<1>4. permit[n] = inner[n].seq /\ inner[n].seq \in Nat
  BY <1>0, Numbers DEF TaskInv, Free
<1>5. PICK i \in t.seq..inner[n].seq : Prepared(r, i + 1)
  BY <1>0, <1>2, Zenon DEF TxnInv
<1>6. permit[n] = t.seq => Prepared(r, inner[n].seq + 1)
  BY <1>0, <1>4, <1>5 DEF TxnInv
<1>7. permit[n] = t.seq => Prepared(r, inner[n].seq + 1)'
  BY <1>0, <1>6, Zenon DEF Prepared, Ops
<1>8. TaskInv(n)'
  <2>1. task'[n] = IF permit[n] = t.seq THEN Put(permit[n] + 1, NoOp, r) ELSE Free
    BY <1>0, <1>2, Zenon DEF Shape
  <2> QED BY <1>0, <1>4, <1>7, <2>1 DEF TaskInv, Put, Free
<1>9. TxnInv(n)' /\ BlankInv(n)'
  BY <1>0, Zenon DEF Shape, TxnInv, BlankInv, Free
<1>10. ~Forcing(n)
  BY <1>0 DEF Forcing, Free
<1> QED BY <1>0, <1>3, <1>8, <1>9, <1>10, Quiet, Zenon

-----------------------------------------------------------------------------
(* The steps that write the log or read it: PUTs, catching up, following.  *)

(* The object of a pending write is create-only and numbered one above the
   node's copy: when nothing is there, the copy is the latest version.     *)
LEMMA AtTheEnd ==
  ASSUME Inv, NEW n \in Nodes, task[n].pc = "put", task[n].seq \notin DOMAIN log
  PROVE  /\ task[n].seq = Last + 1 /\ inner[n].seq = Last /\ task[n].seq = Len(versions)
         /\ Last \in Nat /\ inner[n].cat = versions[task[n].seq]
         /\ Prepared(task[n].rec, task[n].seq)
<1>1. /\ Last \in Nat /\ Len(versions) = Last + 1 /\ inner[n].seq \in 0..Last
      /\ inner[n].cat = versions[inner[n].seq + 1]
  BY Numbers, Zenon DEF Inv, NodeInv
<1>2. task[n].seq = inner[n].seq + 1 /\ Prepared(task[n].rec, inner[n].seq + 1)
  BY Zenon DEF Inv, NodeInv, TaskInv
<1>3. task[n].seq \notin 1..Last
  BY Zenon DEF Inv, LogInv
<1>4. inner[n].seq = Last
  BY <1>1, <1>2, <1>3
<1> QED BY <1>1, <1>2, <1>4, Zenon

(* A record that lands makes the next version; one that finds its number taken
   catches up from there.                                                  *)
LEMMA PutLogStep ==
  ASSUME Inv, NEW n \in Nodes, PutLog(n)
  PROVE  StepOf(n)
<1> PICK t : t = task[n]
  BY Zenon
<1> PICK image : image = Image(t.seq, Apply(inner[n].cat, t.rec))
  BY Zenon
<1>0. /\ LogInv /\ Shape /\ (\A s \in snapshot : Exact(s)) /\ Exact(inner[n])
      /\ TaskInv(n) /\ TxnInv(n) /\ SlotInv(n) /\ BlankInv(n)
      /\ t.pc = "put" /\ txn' = txn /\ snapshot' = snapshot
  BY Zenon DEF Inv, NodeInv, PutLog
<1>1. CASE /\ t.seq \notin DOMAIN log
           /\ Land(t.seq, t.rec)
           /\ inner' = [inner EXCEPT ![n] = image]
           /\ permit' = [permit EXCEPT ![n] = t.seq]
           /\ task' = [task EXCEPT ![n] = Free]
           /\ MaybeCheckpoint(n, image)
  <2>1. /\ t.seq = Last + 1 /\ inner[n].seq = Last /\ t.seq = Len(versions) /\ Last \in Nat
        /\ inner[n].cat = versions[t.seq] /\ Prepared(t.rec, t.seq)
    BY <1>0, <1>1, AtTheEnd, Zenon
  <2>2. /\ LogInv' /\ Grows /\ Len(versions') = t.seq + 1
        /\ versions'[t.seq + 1] = Apply(versions[t.seq], t.rec)
    BY <1>0, <1>1, <2>1, LandGood, Zenon
  <2>3. Exact(image)' /\ image.seq = t.seq
    BY <2>1, <2>2 DEF Exact, Image
  <2>4. /\ inner'[n] = image /\ permit'[n] = t.seq /\ task'[n] = Free
        /\ txn' = txn /\ snapshot' = snapshot /\ t.seq > inner[n].seq /\ t.seq \in Nat
        /\ slot'[n] = slot[n] \/ slot'[n] = {[image |-> image, forced |-> FALSE]}
    BY <1>0, <1>1, <2>1 DEF Shape, MaybeCheckpoint
  <2>5. Shape' /\ Others(n)
    BY <1>0, <1>1, Zenon DEF Shape, Others, MaybeCheckpoint
  <2>6. \A i : Exact(i) => Exact(i)'
    BY <1>0, <2>2, ExactStays, Zenon
  <2>7. TxnInv(n)'
    <3>1. txn'[n] \subseteq txn[n]
      BY <1>0, Zenon
    <3>2. inner'[n].seq \in Nat /\ inner'[n].seq >= inner[n].seq
      BY <2>1, <2>3, <2>4
    <3> QED BY <1>0, <2>2, <3>1, <3>2, TxnStays, Zenon
  <2>8. SlotInv(n)'
    <3>1. \A c \in slot[n] : Exact(c.image) /\ ~c.forced
      BY <1>0, Zenon DEF SlotInv, Forcing
    <3> QED BY <2>3, <2>4, <2>6, <3>1 DEF SlotInv
  <2>9. TaskInv(n)' /\ BlankInv(n)'
    BY <1>0, <2>3, <2>4 DEF TaskInv, BlankInv, Free
  <2>10. NodeInv(n)'
    BY <2>3, <2>4, <2>7, <2>8, <2>9, Zenon DEF NodeInv
  <2>11. Writes(n)
    BY <1>1, <2>1, <2>3, <2>4, Zenon DEF Writes, Land
  <2>12. \A s \in snapshot' : Exact(s)'
    BY <1>0, <2>6, Zenon
  <2> QED BY <2>2, <2>4, <2>5, <2>10, <2>11, <2>12, Zenon DEF StepOf
<1>2. CASE /\ task' = [task EXCEPT ![n] = Load("catch", t.seq, t.op, FALSE)]
           /\ UNCHANGED <<log, versions, inner, permit, slot, restoring>>
  <2>1. /\ Ops' = Ops /\ ~Forcing(n)
        /\ t.seq = inner[n].seq + 1 /\ (t.op = NoOp \/ t.op \in Ops)
    BY <1>0, <1>2, Zenon DEF TaskInv, Ops, Forcing
  <2>2. task'[n] = Load("catch", t.seq, t.op, FALSE) => TaskInv(n)'
    BY <1>2, <2>1 DEF TaskInv, Load
  <2> QED BY <1>0, <1>2, <2>1, <2>2, TaskOnly, Zenon
<1> QED BY <1>1, <1>2, Zenon DEF PutLog

(* The request of an update whose answer is lost. *)
LEMMA PutFailsStep ==
  ASSUME Inv, NEW n \in Nodes, PutFails(n)
  PROVE  StepOf(n)
<1> PICK t : t = task[n]
  OBVIOUS
<1>i. /\ LogInv /\ Shape /\ (\A s \in snapshot : Exact(s)) /\ Exact(inner[n])
      /\ TaskInv(n) /\ TxnInv(n) /\ SlotInv(n) /\ BlankInv(n)
  BY Zenon DEF Inv, NodeInv
<1>0. /\ t.pc = "put" /\ UNCHANGED <<snapshot, inner, permit, txn, slot>>
      /\ \/ task' = [task EXCEPT ![n] = Free]
         \/ task' = [task EXCEPT ![n] = Load("catch", t.seq, t.op, FALSE)]
  BY Zenon DEF PutFails
<1>1. Shape' /\ Others(n)
  BY <1>i, <1>0, Zenon DEF Shape, Others
<1>2. /\ task'[n] = Free \/ task'[n] = Load("catch", t.seq, t.op, FALSE)
      /\ permit[n] = inner[n].seq /\ t.seq = inner[n].seq + 1
      /\ t.op = NoOp \/ t.op \in Ops
  BY <1>i, <1>0, Zenon DEF Shape, TaskInv
<1>3. CASE UNCHANGED <<log, versions>>
  <2>1. TaskInv(n)' /\ ~Forcing(n)
    BY <1>0, <1>2, <1>3 DEF TaskInv, Free, Load, Ops, Forcing
  <2> QED BY <1>0, <1>3, <2>1, TaskOnly, Zenon
<1>4. CASE t.seq \notin DOMAIN log /\ Land(t.seq, t.rec)
  <2>1. /\ t.seq = Last + 1 /\ t.seq = Len(versions) /\ Prepared(t.rec, t.seq)
    BY <1>0, <1>4, AtTheEnd, Zenon
  <2>2. LogInv' /\ Grows
    BY <1>i, <1>4, <2>1, LandGood, Zenon
  <2>3. Ops \subseteq Ops' /\ \A i : Exact(i) => Exact(i)'
    BY <1>i, <2>2, ExactStays, OpsGrow, Zenon
  <2>4. TaskInv(n)'
    BY <1>0, <1>2, <2>3 DEF TaskInv, Free, Load
  <2>5. TxnInv(n)'
    <3>1. inner[n].seq \in Nat
      BY <1>i, Numbers, Zenon
    <3>2. txn'[n] \subseteq txn[n] /\ inner'[n].seq \in Nat /\ inner'[n].seq >= inner[n].seq
      BY <1>0, <3>1
    <3> QED BY <1>i, <2>2, <3>2, TxnStays, Zenon
  <2>6. NodeInv(n)'
    BY <1>i, <1>0, <1>2, <2>3, <2>4, <2>5, Zenon DEF NodeInv, SlotInv, BlankInv, Forcing
  <2>7. Writes(n) /\ \A s \in snapshot' : Exact(s)'
    BY <1>i, <1>0, <1>4, <2>1, <2>3, Zenon DEF Writes, Land
  <2> QED BY <1>0, <1>1, <2>2, <2>6, <2>7, Zenon DEF StepOf
<1> QED BY <1>3, <1>4, Zenon DEF PutFails

-----------------------------------------------------------------------------
(* A log object that is there applies to the copy one below it. *)
LEMMA Loaded ==
  ASSUME Inv, NEW n \in Nodes, task[n].pc \in {"catch", "follow"},
         task[n].seq \in DOMAIN log, LoadedLog(n),
         UNCHANGED <<log, versions, snapshot, txn, slot>>, ~Forcing(n),
         permit'[n] = permit[n] \/ permit'[n] = task[n].seq, DOMAIN permit' = Nodes,
         \A m \in Nodes \ {n} : permit'[m] = permit[m],
         task[n].pc = "follow" => permit'[n] = inner'[n].seq
  PROVE  StepOf(n)
<1> PICK t : t = task[n]
  BY Zenon
<1>1. /\ Last \in Nat /\ Len(versions) = Last + 1 /\ inner[n].seq \in 0..Last
      /\ inner[n].cat = versions[inner[n].seq + 1] /\ DOMAIN log = 1..Last
  <2>1. LogInv /\ Exact(inner[n])
    BY Zenon DEF Inv, NodeInv
  <2>2. DOMAIN log = 1..Last
    BY <2>1, Zenon DEF LogInv
  <2> QED BY <2>1, <2>2, Numbers, Zenon
<1>2. t.seq = inner[n].seq + 1 /\ t.seq \in 1..Last /\ (t.pc = "catch" => t.op = NoOp \/ t.op \in Ops)
  BY <1>1, Zenon DEF Inv, NodeInv, TaskInv
<1>3. /\ Applies(inner[n].cat, log[t.seq])
      /\ Apply(inner[n].cat, log[t.seq]) = versions[t.seq + 1]
  <2>1. \A s \in 1..Last : /\ Applies(versions[s], log[s])
                           /\ versions[s + 1] = Apply(versions[s], log[s])
    BY Zenon DEF Inv, LogInv
  <2>2. t.seq \in 1..Last /\ inner[n].cat = versions[t.seq]
    BY <1>1, <1>2, Zenon
  <2> QED BY <2>1, <2>2, Zenon
<1> PICK image : image = Image(t.seq, versions[t.seq + 1])
  BY Zenon
<1>4. /\ inner' = [inner EXCEPT ![n] = image]
      /\ \E force : task' = [task EXCEPT ![n] = Load(t.pc, t.seq + 1, t.op, force)]
  BY <1>3, Zenon DEF LoadedLog
<1>5. Shape' /\ Others(n)
  BY <1>4, Zenon DEF Inv, Shape, Others
<1>6. /\ inner'[n] = image /\ image.seq = t.seq
      /\ \E force : task'[n] = Load(t.pc, t.seq + 1, t.op, force)
  BY <1>4, Zenon DEF Inv, Shape, Image
<1>7. LogInv' /\ Grows
  <2>1. LogInv /\ LogInv'
    BY Zenon DEF Inv, LogInv, Last
  <2> QED BY <2>1 DEF LogInv, Grows
<1>8. Exact(image)' /\ (\A i : Exact(i)' <=> Exact(i)) /\ Ops' = Ops
  BY <1>1, <1>2 DEF Exact, Image, Ops
<1>9. TaskInv(n)'
  <2>1. /\ task'[n].pc = t.pc /\ task'[n].seq = t.seq + 1 /\ task'[n].op = t.op
        /\ inner'[n].seq = t.seq
    BY <1>6 DEF Load
  <2>2. /\ t.pc \in {"catch", "follow"}
        /\ t.pc = "follow" => permit'[n] = inner'[n].seq
    BY Zenon
  <2>3. t.pc = "catch" => t.op = NoOp \/ t.op \in Ops'
    BY <1>2, <1>8, Zenon
  <2> QED BY <2>1, <2>2, <2>3, Zenon DEF TaskInv
<1>10. TxnInv(n)'
  <2>1. LogInv /\ Exact(inner[n]) /\ TxnInv(n)
    BY Zenon DEF Inv, NodeInv
  <2>2. inner'[n].seq \in Nat /\ inner'[n].seq >= inner[n].seq
    BY <1>1, <1>2, <1>6
  <2> QED BY <1>7, <2>1, <2>2, TxnStays, Zenon
<1>11. SlotInv(n)' /\ BlankInv(n)'
  BY <1>8, Zenon DEF Inv, NodeInv, SlotInv, BlankInv
<1>12. Moves(n)
  BY <1>1, <1>2, <1>6 DEF Moves
<1>13. \A s \in snapshot' : Exact(s)'
  BY <1>8, Zenon DEF Inv
<1>14. NodeInv(n)'
  BY <1>6, <1>8, <1>9, <1>10, <1>11, Zenon DEF NodeInv
<1> QED BY <1>5, <1>7, <1>12, <1>13, <1>14, Zenon DEF StepOf

(* catch_up_from, to the end of the log and the operation prepared again. *)
LEMMA CatchUpStep ==
  ASSUME Inv, NEW n \in Nodes, CatchUp(n)
  PROVE  StepOf(n)
<1> PICK t : t = task[n]
  OBVIOUS
<1>0. /\ t.pc = "catch" /\ ~Forcing(n)
      /\ UNCHANGED <<log, versions, snapshot, txn, slot>>
  BY Zenon DEF CatchUp, Forcing
<1>1. CASE t.seq \in DOMAIN log /\ LoadedLog(n) /\ UNCHANGED permit
  BY <1>0, <1>1, Loaded, Zenon DEF Inv, Shape
<1>2. CASE /\ UNCHANGED inner
           /\ permit' = [permit EXCEPT ![n] = inner[n].seq]
           /\ \/ task' = [task EXCEPT ![n] = Free]
              \/ /\ t.op # NoOp
                 /\ \E r \in Prepare(t.op, inner[n].cat) :
                      task' = [task EXCEPT ![n] = Put(inner[n].seq + 1, t.op, r)]
  <2>1. Shape /\ TaskInv(n) /\ Exact(inner[n])
    BY Zenon DEF Inv, NodeInv
  <2>2. /\ permit'[n] = inner[n].seq /\ (t.op = NoOp \/ t.op \in Ops)
        /\ inner[n].cat = versions[inner[n].seq + 1]
        /\ \/ task'[n] = Free
           \/ /\ t.op # NoOp
              /\ \E r \in Prepare(t.op, inner[n].cat) :
                   task'[n] = Put(inner[n].seq + 1, t.op, r)
    BY <1>0, <1>2, <2>1, Zenon DEF TaskInv, Shape, Exact
  <2>3. TaskInv(n)'
    <3>1. CASE task'[n] = Free
      BY <1>2, <2>2, <3>1 DEF TaskInv, Free
    <3>2. CASE task'[n] # Free
      <4>1. t.op \in Ops
        BY <2>2, <3>2, Zenon
      <4>2. PICK r \in Prepare(t.op, inner[n].cat) :
              task'[n] = Put(inner[n].seq + 1, t.op, r)
        BY <2>2, <3>2, Zenon
      <4>3. Prepared(r, inner[n].seq + 1)
        BY <2>2, <4>1, <4>2, Zenon DEF Prepared
      <4>4. Prepared(r, inner[n].seq + 1)' /\ t.op \in Ops'
        BY <1>0, <1>2, <4>1, <4>3, Zenon DEF Prepared, Ops
      <4> QED BY <1>2, <2>2, <4>2, <4>4 DEF TaskInv, Put
    <3> QED BY <3>1, <3>2, Zenon
  <2> QED BY <1>0, <1>2, <2>3, TaskOnly, Zenon
<1> QED BY <1>1, <1>2, Zenon DEF CatchUp

(* The permit is given back, or taken by the follower. *)
LEMMA PermitStep ==
  ASSUME Inv, NEW n \in Nodes, permit[n] = inner[n].seq, ~Forcing(n), Up(n),
         UNCHANGED <<log, versions, snapshot, inner, permit, txn, slot>>,
         \/ task' = [task EXCEPT ![n] = Free]
         \/ task' = [task EXCEPT ![n] = Load("follow", permit[n] + 1, NoOp, FALSE)]
  PROVE  StepOf(n)
<1>1. /\ task'[n] = Free => TaskInv(n)'
      /\ task'[n] = Load("follow", permit[n] + 1, NoOp, FALSE) => TaskInv(n)'
  BY DEF TaskInv, Free, Load
<1>2. task[n].pc \notin {"down", "init"}
  BY Zenon DEF Up
<1> QED BY <1>1, <1>2, TaskOnly, Zenon

(* background_update and update_to_sequence_number, with their failures. *)
LEMMA FollowSteps ==
  ASSUME Inv, NEW n \in Nodes, FollowStart(n) \/ Follow(n) \/ FollowFails(n)
  PROVE  StepOf(n)
<1>1. CASE FollowStart(n) \/ FollowFails(n)
  <2>1. /\ permit[n] = inner[n].seq /\ ~Forcing(n) /\ Up(n)
        /\ UNCHANGED <<log, versions, snapshot, inner, permit, txn, slot>>
    <3>1. /\ task[n].pc \in {"free", "follow"} /\ ~Forcing(n)
          /\ UNCHANGED <<log, versions, snapshot, inner, permit, txn, slot>>
      <4>1. CASE FollowStart(n)
        BY <4>1 DEF FollowStart, Free, Forcing
      <4>2. CASE FollowFails(n)
        BY <4>2, Zenon DEF FollowFails, Forcing
      <4> QED BY <1>1, <4>1, <4>2, Zenon
    <3>2. TaskInv(n)
      BY Zenon DEF Inv, NodeInv
    <3> QED BY <3>1, <3>2, Zenon DEF Up, TaskInv
  <2>2. \/ task' = [task EXCEPT ![n] = Free]
        \/ task' = [task EXCEPT ![n] = Load("follow", permit[n] + 1, NoOp, FALSE)]
    BY <1>1, Zenon DEF FollowStart, FollowFails
  <2> QED BY <2>1, <2>2, PermitStep, Zenon
<1>2. CASE Follow(n)
  <2>0. /\ task[n].pc = "follow" /\ ~Forcing(n) /\ Up(n) /\ permit[n] = inner[n].seq
        /\ UNCHANGED <<log, versions, snapshot, txn, slot>>
    <3>1. TaskInv(n)
      BY Zenon DEF Inv, NodeInv
    <3> QED BY <1>2, <3>1, Zenon DEF Follow, Forcing, Up, TaskInv
  <2>1. CASE /\ task[n].seq \in DOMAIN log /\ LoadedLog(n)
             /\ permit' = IF inner' = inner THEN permit
                          ELSE [permit EXCEPT ![n] = task[n].seq]
    <3>1. inner'[n].seq = task[n].seq \/ inner' = inner
      BY <2>1 DEF LoadedLog, Inv, Shape, Image
    <3>2. /\ permit'[n] = inner'[n].seq /\ DOMAIN permit' = Nodes
          /\ permit'[n] = permit[n] \/ permit'[n] = task[n].seq
          /\ \A m \in Nodes \ {n} : permit'[m] = permit[m]
      BY <2>0, <2>1, <3>1, Zenon DEF Inv, Shape
    <3> QED BY <2>0, <2>1, <3>2, Loaded, Zenon
  <2>2. CASE task' = [task EXCEPT ![n] = Free] /\ UNCHANGED <<inner, permit>>
    BY <2>0, <2>2, PermitStep, Zenon
  <2> QED BY <1>2, <2>1, <2>2, Zenon DEF Follow
<1> QED BY <1>1, <1>2, Zenon

-----------------------------------------------------------------------------
(* Checkpoints, the invariant, and the refinement.                         *)

(* force_checkpoint captures number and contents together. *)
LEMMA ForceCheckpointStep ==
  ASSUME Inv, NEW n \in Nodes, ForceCheckpoint(n)
  PROVE  StepOf(n)
<1>1. Shape' /\ Others(n) /\ UNCHANGED <<log, versions, snapshot, inner, task, permit, txn>>
  BY Zenon DEF Inv, Shape, Others, ForceCheckpoint
<1>2. TaskInv(n)'
  BY <1>1 DEF Inv, NodeInv, TaskInv, Prepared, Ops, Exact, Last
<1>3. TxnInv(n)'
  BY <1>1, Zenon DEF Inv, NodeInv, TxnInv, Prepared, Ops
<1>4. SlotInv(n)'
  <2>1. \/ slot'[n] = {[image |-> inner[n], forced |-> TRUE]} /\ Forcing(n)
        \/ slot'[n] = {[image |-> inner[n], forced |-> FALSE]}
    BY Zenon DEF ForceCheckpoint, Inv, Shape
  <2>2. Exact(inner[n])'
    BY <1>1, Zenon DEF Inv, NodeInv, Exact
  <2>3. Forcing(n)' <=> Forcing(n)
    BY <1>1, Zenon DEF Forcing
  <2> QED BY <1>1, <2>1, <2>2, <2>3 DEF SlotInv
<1>5. BlankInv(n)'
  BY <1>1, Zenon DEF Inv, NodeInv, BlankInv, Forcing, Up, ForceCheckpoint
<1> QED BY <1>1, <1>2, <1>3, <1>4, <1>5, Quiet, Zenon

(* write_checkpoint may put back an older snapshot, never a wrong one. *)
LEMMA WriteCheckpointStep ==
  ASSUME Inv, NEW n \in Nodes, WriteCheckpoint(n)
  PROVE  StepOf(n)
<1>0. UNCHANGED <<log, versions, inner, permit, txn>> /\ slot' = [slot EXCEPT ![n] = {}]
  BY Zenon DEF WriteCheckpoint
<1>1. PICK c \in slot[n] : snapshot' = {c.image} /\ Resume(n, c)
  BY Zenon DEF WriteCheckpoint
<1>2. Shape' /\ Others(n)
  BY <1>0, <1>1, Zenon DEF Inv, Shape, Others, Resume
<1>3. LogInv' /\ Grows
  <2>1. LogInv' BY <1>0, Zenon DEF Inv, LogInv, Last
  <2> QED BY <1>0, <2>1 DEF LogInv, Grows
<1>4. Exact(c.image) /\ (\A i : Exact(i)' <=> Exact(i)) /\ Ops' = Ops
      /\ (c.forced => task[n].pc \in {"catch", "follow"})
  BY <1>0, Zenon DEF Inv, NodeInv, SlotInv, Forcing, Exact, Ops
<1>5. TaskInv(n)'
  <2>1. CASE c.forced
    <3>1. task'[n] = Load(task[n].pc, task[n].seq, task[n].op, FALSE)
      BY <1>1, <2>1, Zenon DEF Resume, Inv, Shape
    <3>2. TaskInv(n)
      BY Zenon DEF Inv, NodeInv
    <3> QED BY <1>0, <1>4, <2>1, <3>1, <3>2 DEF TaskInv, Load
  <2>2. CASE ~c.forced
    BY <1>0, <1>1, <1>4, <2>2, Zenon DEF Resume, Inv, NodeInv, TaskInv, Prepared, Last
  <2> QED BY <2>1, <2>2, Zenon
<1>6. TxnInv(n)'
  BY <1>0, Zenon DEF Inv, NodeInv, TxnInv, Prepared, Ops
<1>7. NodeInv(n)'
  BY <1>0, <1>1, <1>4, <1>5, <1>6, Zenon DEF Inv, NodeInv, Shape, SlotInv, BlankInv
<1>8. Moves(n)
  BY <1>0, Numbers DEF Inv, NodeInv, Moves
<1> QED BY <1>1, <1>2, <1>3, <1>4, <1>7, <1>8, Zenon DEF StepOf

(* A failed checkpoint leaves the snapshot and gives the permit back. *)
LEMMA CheckpointFailsStep ==
  ASSUME Inv, NEW n \in Nodes, CheckpointFails(n)
  PROVE  StepOf(n)
<1>0. UNCHANGED <<log, snapshot, versions, inner, permit, txn>>
      /\ slot' = [slot EXCEPT ![n] = {}]
  BY Zenon DEF CheckpointFails
<1>1. PICK c \in slot[n] :
        /\ c.forced => task[n].pc = "follow"
        /\ task' = IF c.forced THEN [task EXCEPT ![n] = Free] ELSE task
  BY Zenon DEF CheckpointFails
<1>2. Shape' /\ Others(n)
  BY <1>0, <1>1, Zenon DEF Inv, Shape, Others
<1>3. TaskInv(n)' \/ UNCHANGED <<task, permit>>
  <2>1. CASE c.forced
    BY <1>0, <1>1, <2>1, Zenon DEF Inv, Shape, NodeInv, TaskInv, Free
  <2>2. CASE ~c.forced
    BY <1>0, <1>1, <2>2, Zenon
  <2> QED BY <2>1, <2>2, Zenon
<1>4. TxnInv(n)'
  BY <1>0, Zenon DEF Inv, NodeInv, TxnInv, Prepared, Ops
<1>5. SlotInv(n)' /\ BlankInv(n)'
  BY <1>0, <1>1, Zenon DEF Inv, NodeInv, Shape, SlotInv, BlankInv
<1> QED BY <1>0, <1>2, <1>3, <1>4, <1>5, Quiet, Zenon

(* A crash leaves what the object store holds. *)
LEMMA StopStep ==
  ASSUME Inv, NEW n \in Nodes, Stop(n)
  PROVE  StepOf(n)
<1>1. Shape' /\ Others(n)
  BY Zenon DEF Inv, Shape, Others, Stop
<1>2. task'[n] = Down /\ txn'[n] = {} /\ slot'[n] = {}
  BY Zenon DEF Inv, Shape, Stop
<1>3. TaskInv(n)' /\ TxnInv(n)' /\ SlotInv(n)'
  BY <1>2 DEF TaskInv, TxnInv, SlotInv, Down
<1>4. BlankInv(n)'
  BY <1>2 DEF Inv, NodeInv, BlankInv, Down, Stop
<1> QED BY <1>1, <1>3, <1>4, Quiet, Zenon DEF Stop

-----------------------------------------------------------------------------
(* Every step is a step of some node. *)
LEMMA EveryStep ==
  ASSUME Inv, Next
  PROVE  \E n \in Nodes : StepOf(n)
<1>1. PICK n \in Nodes : Work(n) \/ Checkpointing(n) \/ Calls(n) \/ Failures(n)
  BY Zenon DEF Next
<1>2. CASE Work(n)
  BY <1>2, LoadSnapshotStep, InitSnapshotStep, ListLogsStep, ReplayLogStep, PutLogStep,
     CatchUpStep, FollowSteps, Zenon DEF Work
<1>3. CASE Checkpointing(n)
  BY <1>3, ForceCheckpointStep, WriteCheckpointStep, Zenon DEF Checkpointing
<1>4. CASE Calls(n)
  BY <1>4, UpdateStep, BeginStep, BeginReadStep, CommitStep, Zenon DEF Calls
<1>5. CASE Failures(n)
  BY <1>5, PutFailsStep, FollowSteps, CheckpointFailsStep, StopStep, Zenon DEF Failures
<1> QED BY <1>1, <1>2, <1>3, <1>4, <1>5, Zenon

(* The invariant is inductive.  No record, checkpoint or copy that some
   interleaving, crash or failed request leaves behind departs from the log. *)
THEOREM CatalogInvariant == Spec => []Inv
<1>1. Init => Inv
  <2> SUFFICES ASSUME Init PROVE Inv
    BY Zenon
  <2>1. Empty \in Cat /\ WellFormed(Empty)
    BY Zenon DEF Empty, Cat, WellFormed
  <2>2. versions = <<Empty>> /\ versions \in Seq(Cat) /\ Len(versions) = 1 /\ Last = 0
    BY <2>1 DEF Init, Last
  <2>3. LogInv
    <3>1. DOMAIN log = {} /\ 1..Last = {} /\ versions[1] = Empty
      BY <2>2 DEF Init
    <3>2. \A i \in 1..Len(versions) : i = 1
      BY <2>2
    <3> QED BY <2>1, <2>2, <3>1, <3>2 DEF LogInv
  <2>4. Shape /\ snapshot = {}
    BY Zenon DEF Init, Shape
  <2>5. ASSUME NEW n \in Nodes PROVE NodeInv(n)
    <3>1. /\ inner[n] = Initial /\ task[n] = Down /\ txn[n] = {} /\ slot[n] = {}
      BY Zenon DEF Init
    <3>2. Exact(Initial)
      BY <2>2 DEF Exact, Initial, Image
    <3> QED BY <3>1, <3>2 DEF NodeInv, TaskInv, TxnInv, SlotInv, BlankInv, Down
  <2> QED BY <2>3, <2>4, <2>5, Zenon DEF Inv
<1>2. Inv /\ [Next]_vars => Inv'
  <2> SUFFICES ASSUME Inv, [Next]_vars PROVE Inv'
    BY Zenon
  <2>1. CASE Next
    BY <2>1, EveryStep, StepKeeps, Zenon
  <2>2. CASE UNCHANGED vars
    <3>1. UNCHANGED <<log, snapshot, versions, inner, permit, task, txn, slot>>
      BY <2>2, Zenon DEF vars, nodeVars
    <3>2. LogInv' /\ Shape'
      BY <3>1, Zenon DEF Inv, LogInv, Shape, Last
    <3>3. Grows
      BY <3>1, <3>2 DEF Grows, LogInv
    <3>4. \A m \in Nodes : NodeInv(m)'
      BY <3>1, <3>2, <3>3, Frame, Zenon DEF Inv
    <3>5. \A s \in snapshot' : Exact(s)'
      BY <3>1, Zenon DEF Inv, Exact
    <3> QED BY <3>2, <3>4, <3>5, Zenon DEF Inv
  <2> QED BY <2>1, <2>2, Zenon
<1> QED BY <1>1, <1>2, PTL DEF Spec

-----------------------------------------------------------------------------
(* Types: the numbers under the permits and the counters. *)
Pcs == {"down", "init", "list", "replay", "free", "put", "catch", "follow"}
CountInv ==
  /\ DOMAIN restoring = Nodes
  /\ permit \in [Nodes -> Nat] /\ restoring \in [Nodes -> Nat]
  /\ \A n \in Nodes : task[n].pc \in Pcs
  /\ calls \in 0..MaxCalls /\ faults \in 0..MaxFaults

LEMMA SeqsNat ==
  ASSUME Inv, NEW n \in Nodes
  PROVE  /\ inner[n].seq \in Nat
         /\ task[n].pc = "replay" => task[n].image.seq \in Nat
         /\ task[n].pc \in {"put", "catch", "follow"} => task[n].seq \in Nat
<1>1. Len(versions) \in Nat
  BY DEF Inv, LogInv
<1>2. \A image : Exact(image) => image.seq \in Nat
  BY <1>1 DEF Exact
<1>3. NodeInv(n)
  BY Zenon DEF Inv
<1>4. inner[n].seq \in Nat /\ TaskInv(n)
  BY <1>2, <1>3, Zenon DEF NodeInv
<1> QED BY <1>2, <1>4 DEF TaskInv

(* Who acts moves its own permit, count and task. *)
LEMMA CountMoves ==
  ASSUME CountInv, Shape, NEW n \in Nodes, NEW p \in Nat, NEW k \in Nat, NEW t, t.pc \in Pcs,
         permit' \in {permit, [permit EXCEPT ![n] = p]},
         restoring' \in {restoring, [restoring EXCEPT ![n] = k]},
         task' \in {task, [task EXCEPT ![n] = t]},
         \/ calls' = calls
         \/ Call,
         \/ faults' = faults
         \/ \E kind : Fault(kind)
  PROVE  CountInv'
<1>1. permit' \in [Nodes -> Nat] /\ restoring' \in [Nodes -> Nat] /\ DOMAIN restoring' = Nodes
  BY DEF CountInv
<1>2. \A m \in Nodes : task'[m].pc \in Pcs
  BY Zenon DEF CountInv, Shape
<1>3. calls' \in 0..MaxCalls /\ faults' \in 0..MaxFaults
  BY CatalogAssumption DEF CountInv, Call, Fault
<1> QED BY <1>1, <1>2, <1>3, Zenon DEF CountInv

LEMMA PcsOf ==
  /\ Down.pc \in Pcs /\ Free.pc \in Pcs /\ [pc |-> "init"].pc \in Pcs
  /\ \A image, todo : /\ Replay("list", image, todo).pc \in Pcs
                      /\ Replay("replay", image, todo).pc \in Pcs
  /\ \A seq, op, rec : Put(seq, op, rec).pc \in Pcs
  /\ \A pc \in Pcs : \A seq, op, force : Load(pc, seq, op, force).pc \in Pcs
  /\ "catch" \in Pcs /\ "follow" \in Pcs
BY DEF Pcs, Down, Free, Replay, Put, Load

LEMMA StartsCount ==
  ASSUME Inv, CountInv, NEW n \in Nodes,
         LoadSnapshot(n) \/ InitSnapshot(n) \/ ListLogs(n) \/ ReplayLog(n)
  PROVE  CountInv'
<1>1. Shape /\ 0 \in Nat
  BY Zenon DEF Inv
<1>2. CASE LoadSnapshot(n)
  BY <1>1, <1>2, PcsOf, CountMoves, Zenon DEF LoadSnapshot
<1>3. CASE InitSnapshot(n)
  <2>1. Initial.seq \in Nat
    BY DEF Initial, Image
  <2> QED BY <1>1, <1>3, <2>1, PcsOf, CountMoves, Zenon DEF InitSnapshot, Open
<1>4. CASE ListLogs(n)
  BY <1>1, <1>4, PcsOf, CountMoves, Zenon DEF ListLogs
<1>5. CASE ReplayLog(n)
  <2>1. task[n].image.seq \in Nat
    BY <1>5, SeqsNat, Zenon DEF ReplayLog
  <2>2. PICK t : t.pc \in Pcs /\ task' = [task EXCEPT ![n] = t]
    BY <1>5, PcsOf, Zenon DEF ReplayLog, Open
  <2>3. permit' \in {permit, [permit EXCEPT ![n] = task[n].image.seq]}
    BY <1>5, Zenon DEF ReplayLog, Open
  <2> QED BY <1>1, <1>5, <2>1, <2>2, <2>3, CountMoves, Zenon DEF ReplayLog
<1> QED BY <1>2, <1>3, <1>4, <1>5, Zenon

LEMMA CallsCount ==
  ASSUME Inv, CountInv, NEW n \in Nodes, Calls(n)
  PROVE  CountInv'
<1>1. Shape /\ 0 \in Nat
  BY Zenon DEF Inv
<1>2. ASSUME NEW op, Update(n, op) PROVE CountInv'
  BY <1>1, <1>2, PcsOf, CountMoves, Zenon DEF Update
<1>3. CASE Begin(n)
  BY <1>1, <1>3, PcsOf, CountMoves, Zenon DEF Begin
<1>4. ASSUME NEW op, BeginRead(n, op) PROVE CountInv'
  BY <1>1, <1>4, PcsOf, CountMoves, Zenon DEF BeginRead
<1>5. CASE Commit(n)
  <2>1. PICK t : t.pc \in Pcs /\ task' \in {task, [task EXCEPT ![n] = t]}
    BY <1>5, PcsOf, Zenon DEF Commit
  <2> QED BY <1>1, <1>5, <2>1, CountMoves, Zenon DEF Commit
<1> QED BY <1>2, <1>3, <1>4, <1>5, Zenon DEF Calls

LEMMA WritesCount ==
  ASSUME Inv, CountInv, NEW n \in Nodes,
         PutLog(n) \/ PutFails(n) \/ CatchUp(n) \/ FollowStart(n) \/ Follow(n)
  PROVE  CountInv'
<1>1. Shape /\ 0 \in Nat
  BY Zenon DEF Inv
<1>2. inner[n].seq \in Nat /\ restoring[n] + 1 \in Nat
  BY SeqsNat DEF CountInv
<1>3. CASE PutLog(n)
  <2>1. task[n].seq \in Nat
    BY <1>3, SeqsNat, Zenon DEF PutLog
  <2>2. PICK t : t.pc \in Pcs /\ task' = [task EXCEPT ![n] = t]
    BY <1>3, PcsOf, Zenon DEF PutLog
  <2>3. restoring' \in {restoring, [restoring EXCEPT ![n] = restoring[n] + 1]}
    BY <1>3, Zenon DEF PutLog
  <2>4. permit' \in {permit, [permit EXCEPT ![n] = task[n].seq]}
    BY <1>3, Zenon DEF PutLog
  <2> QED BY <1>1, <1>2, <1>3, <2>1, <2>2, <2>3, <2>4, CountMoves, Zenon DEF PutLog
<1>4. CASE PutFails(n)
  <2>1. PICK t : t.pc \in Pcs /\ task' = [task EXCEPT ![n] = t]
    BY <1>4, PcsOf, Zenon DEF PutFails
  <2> QED BY <1>1, <1>4, <2>1, CountMoves, Zenon DEF PutFails
<1>5. ASSUME task[n].pc \in Pcs, LoadedLog(n)
      PROVE  \E t : t.pc \in Pcs /\ task' = [task EXCEPT ![n] = t]
  BY <1>5, PcsOf, Zenon DEF LoadedLog
<1>6. CASE CatchUp(n)
  <2>1. task[n].pc \in Pcs
    BY <1>6, PcsOf, Zenon DEF CatchUp
  <2>2. PICK t : t.pc \in Pcs /\ task' = [task EXCEPT ![n] = t]
    BY <1>5, <1>6, <2>1, PcsOf, Zenon DEF CatchUp
  <2>3. permit' \in {permit, [permit EXCEPT ![n] = inner[n].seq]}
    BY <1>6, Zenon DEF CatchUp
  <2> QED BY <1>1, <1>2, <1>6, <2>2, <2>3, CountMoves, Zenon DEF CatchUp
<1>7. CASE FollowStart(n)
  BY <1>1, <1>7, PcsOf, CountMoves, Zenon DEF FollowStart
<1>8. CASE Follow(n)
  <2>1. task[n].pc \in Pcs /\ task[n].seq \in Nat
    BY <1>8, PcsOf, SeqsNat, Zenon DEF Follow
  <2>2. PICK t : t.pc \in Pcs /\ task' = [task EXCEPT ![n] = t]
    BY <1>5, <1>8, <2>1, PcsOf, Zenon DEF Follow
  <2>3. permit' \in {permit, [permit EXCEPT ![n] = task[n].seq]}
    BY <1>8, Zenon DEF Follow
  <2> QED BY <1>1, <1>8, <2>1, <2>2, <2>3, CountMoves, Zenon DEF Follow
<1> QED BY <1>3, <1>4, <1>6, <1>7, <1>8, Zenon

LEMMA OthersCount ==
  ASSUME Inv, CountInv, NEW n \in Nodes,
         Checkpointing(n) \/ FollowFails(n) \/ CheckpointFails(n) \/ Stop(n)
  PROVE  CountInv'
<1>1. Shape /\ 0 \in Nat
  BY Zenon DEF Inv
<1>2. CASE ForceCheckpoint(n)
  <2>1. CASE UNCHANGED restoring
    BY <1>1, <1>2, <2>1, PcsOf, CountMoves, Zenon DEF ForceCheckpoint
  <2>2. CASE restoring[n] > 0 /\ restoring' = [restoring EXCEPT ![n] = @ - 1]
    <3>1. restoring[n] - 1 \in Nat
      BY <2>2 DEF CountInv
    <3> QED BY <1>1, <1>2, <2>2, <3>1, PcsOf, CountMoves, Zenon DEF ForceCheckpoint
  <2> QED BY <1>2, <2>1, <2>2, Zenon DEF ForceCheckpoint
<1>3. CASE WriteCheckpoint(n)
  <2>1. task[n].pc \in Pcs
    BY Zenon DEF CountInv
  <2>2. PICK t : t.pc \in Pcs /\ task' \in {task, [task EXCEPT ![n] = t]}
    BY <1>3, <2>1, PcsOf, Zenon DEF WriteCheckpoint, Resume
  <2> QED BY <1>1, <1>3, <2>2, CountMoves, Zenon DEF WriteCheckpoint
<1>4. CASE FollowFails(n)
  BY <1>1, <1>4, PcsOf, CountMoves, Zenon DEF FollowFails
<1>5. CASE CheckpointFails(n)
  <2>1. task' \in {task, [task EXCEPT ![n] = Free]}
    BY <1>5, Zenon DEF CheckpointFails
  <2> QED BY <1>1, <1>5, <2>1, PcsOf, CountMoves, Zenon DEF CheckpointFails
<1>6. CASE Stop(n)
  BY <1>1, <1>6, PcsOf, CountMoves, Zenon DEF Stop
<1> QED BY <1>2, <1>3, <1>4, <1>5, <1>6, Zenon DEF Checkpointing

(* Type correctness: the numbers under the permits, the tasks' places and the
   counters, restores still to be checkpointed included, which force_checkpoint
   takes down only when there is one.                                      *)
THEOREM CatalogTypeOK == Spec => []TypeOK
<1>1. Init => CountInv
  BY CatalogAssumption DEF Init, CountInv, Pcs, Down
<1>2. Inv /\ CountInv /\ [Next]_vars => CountInv'
  <2> SUFFICES ASSUME Inv, CountInv, [Next]_vars PROVE CountInv'
    BY Zenon
  <2>1. CASE Next
    BY <2>1, StartsCount, CallsCount, WritesCount, OthersCount, Zenon
    DEF Next, Work, Failures
  <2>2. CASE UNCHANGED vars
    BY <2>2, Zenon DEF vars, nodeVars, CountInv
  <2> QED BY <2>1, <2>2, Zenon
<1>3. Inv /\ CountInv => TypeOK
  <2> SUFFICES ASSUME Inv, CountInv PROVE TypeOK
    BY Zenon
  <2>1. DOMAIN log \subseteq Nat
    BY DEF Inv, LogInv
  <2>2. \A n \in Nodes : inner[n].seq \in Nat
    BY SeqsNat, Zenon
  <2> QED BY <2>1, <2>2, Zenon DEF CountInv, Pcs, TypeOK
<1> QED BY <1>1, <1>2, <1>3, CatalogInvariant, PTL DEF Spec

(* Memory, snapshot file and checkpoints in flight agree with the log at the
   number they carry, for any number of nodes, calls and faults.           *)
THEOREM CopiesAlwaysExact == Spec => []CopiesExact
<1>1. Inv => CopiesExact
  BY Zenon DEF Inv, NodeInv, SlotInv, CopiesExact
<1> QED BY <1>1, CatalogInvariant, PTL

(* Ids and live names stay unique in every version of the catalog. *)
THEOREM IdsAssignedOnce == Spec => []IdsOnce
<1>1. Inv => IdsOnce
  BY DEF Inv, LogInv, IdsOnce
<1> QED BY <1>1, CatalogInvariant, PTL

-----------------------------------------------------------------------------

seen == [n \in Nodes |-> inner[n].seq + 1]

(* The two specifications speak of the same operations. *)
LEMMA SameOps ==
  /\ One!Ops = Ops /\ One!Empty = Empty
  /\ \A op, c : One!Prepare(op, c) = Prepare(op, c)
  /\ \A c, r : One!Apply(c, r) = Apply(c, r)
<1>1. One!Ops = Ops
  BY Zenon DEF One!Ops, Ops, One!CreateOps, CreateOps, One!DropOps, DropOps, One!RestoreOp,
         RestoreOp
<1>2. One!Empty = Empty
  BY Zenon DEF One!Empty, Empty
<1>3. \A op, c : One!Prepare(op, c) = Prepare(op, c)
  BY Zenon DEF One!Prepare, Prepare, One!Named, Named
<1>4. \A c, r : One!Apply(c, r) = Apply(c, r)
  BY Zenon DEF One!Apply, Apply
<1> QED BY <1>1, <1>2, <1>3, <1>4, Zenon

(* Only n's own view moves in a step of n. *)
LEMMA SeenMoves ==
  ASSUME NEW n \in Nodes, Others(n)
  PROVE  seen' = [seen EXCEPT ![n] = inner'[n].seq + 1]
BY Zenon DEF seen, Others

(* A step of the nodes is a write of the one catalog, or a node's moving on,
   or nothing to be seen.                                                  *)
LEMMA StepRefines ==
  ASSUME Inv, NEW n \in Nodes, StepOf(n)
  PROVE  One!Write(n) \/ One!CatchUp(n)
<1>1. seen' = [seen EXCEPT ![n] = inner'[n].seq + 1] /\ seen[n] = inner[n].seq + 1
  BY SeenMoves, Zenon DEF StepOf, seen
<1>2. /\ Last \in Nat /\ Len(versions) = Last + 1
      /\ inner[n].seq \in 0..Last
  BY Numbers, Zenon DEF Inv, NodeInv
<1>3. CASE Moves(n)
  <2>1. inner'[n].seq + 1 \in seen[n]..Len(versions) /\ versions' = versions
    BY <1>1, <1>2, <1>3 DEF Moves
  <2>2. \E v \in seen[n]..Len(versions) : seen' = [seen EXCEPT ![n] = v]
    BY <1>1, <2>1, Zenon
  <2> QED BY <2>1, <2>2, Zenon DEF One!CatchUp, seen
<1>4. CASE Writes(n)
  <2>1. PICK r : /\ Prepared(r, Len(versions))
                 /\ versions' = Append(versions, Apply(versions[Len(versions)], r))
                 /\ inner'[n].seq \in {inner[n].seq, Len(versions)}
    BY <1>4, Zenon DEF Writes
  <2>2. PICK op \in Ops : r \in Prepare(op, versions[Len(versions)])
    BY <2>1, Zenon DEF Prepared
  <2>3. seen' = seen \/ seen' = [seen EXCEPT ![n] = Len(versions) + 1]
    <3>1. CASE inner'[n].seq = inner[n].seq
      <4>1. seen' = [seen EXCEPT ![n] = seen[n]]
        BY <1>1, <3>1, Zenon
      <4> QED BY <4>1, Zenon DEF seen
    <3> QED BY <1>1, <2>1, <3>1, Zenon
  <2>4. /\ op \in One!Ops /\ r \in One!Prepare(op, versions[Len(versions)])
        /\ versions' = Append(versions, One!Apply(versions[Len(versions)], r))
    BY <2>1, <2>2, SameOps, Zenon
  <2>5. seen' \in {seen, [seen EXCEPT ![n] = Len(versions) + 1]}
    BY <2>3, Zenon
  <2> QED BY <2>4, <2>5, Zenon DEF One!Write, seen
<1> QED BY <1>3, <1>4, Zenon DEF StepOf

(* The cluster's catalog is one catalog: every write that lands was prepared
   against the latest version there is, and no node goes back to an earlier
   one, restarts included.                                                 *)
THEOREM ImplementsOneCatalog == Spec => Implements
<1>1. Init => One!Init
  <2> SUFFICES ASSUME Init PROVE One!Init
    OBVIOUS
  <2>1. versions = <<Empty>> /\ \A n \in Nodes : inner[n].seq + 1 = 1
    BY DEF Init, Initial, Image
  <2>2. [n \in Nodes |-> inner[n].seq + 1] = [n \in Nodes |-> 1]
    BY <2>1, Zenon
  <2> QED BY <2>1, <2>2, SameOps, Zenon DEF One!Init
<1>2. Inv /\ [Next]_vars => [One!Next]_(One!vars)
  <2> SUFFICES ASSUME Inv, [Next]_vars PROVE [One!Next]_(One!vars)
    BY Zenon
  <2>1. CASE Next
    <3>1. PICK n \in Nodes : StepOf(n)
      BY <2>1, EveryStep, Zenon
    <3> QED BY <3>1, StepRefines, Zenon DEF One!Next
  <2>2. CASE UNCHANGED vars
    BY <2>2, Zenon DEF vars, nodeVars, One!vars
  <2> QED BY <2>1, <2>2, Zenon
<1> QED BY <1>1, <1>2, CatalogInvariant, PTL DEF Spec, Implements, One!Spec
=============================================================================
