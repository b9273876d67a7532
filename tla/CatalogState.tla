---------------------------- MODULE CatalogState ----------------------------
(***************************************************************************)
(* The contents of a catalog and the records that change them              *)
(* (influxdb3_catalog/src: repository.rs, format/apply.rs, catalog/        *)
(* versions/v3/ops/), as pure operators.                                   *)
(*                                                                         *)
(* Of the catalog's repositories the databases stand for all: a resource   *)
(* has an id, a name and a deleted flag.  An operation is what a caller    *)
(* asks for, a record what its prepare makes of it in one catalog state.   *)
(***************************************************************************)
EXTENDS Integers

CONSTANT Names      \* database names

Empty == [dbs |-> {}, next |-> 1]

(* get_by_name: a soft-deleted database has been renamed out of the way. *)
Named(c, name) == {d \in c.dbs : d.name = name /\ ~d.deleted}

CreateOps == {[kind |-> "create", name |-> name] : name \in Names}
DropOps == {[kind |-> "drop", name |-> name] : name \in Names}
RestoreOp(image) == [kind |-> "restore", image |-> image]

\* Mutant of Prepare: the existence check is missing.
PrepareUnchecked(op, c) ==
  CASE op.kind = "create" -> {[kind |-> "create", id |-> c.next, name |-> op.name]}
    [] op.kind = "drop" -> {[kind |-> "drop", id |-> d.id] : d \in Named(c, op.name)}
    [] OTHER -> {op}

(* CatalogOp::prepare: the records of op in c, none when it is refused.  A
   restore record is its own operation, whatever the state.                *)
Prepare(op, c) ==
  CASE op.kind = "create" ->
         {r \in {[kind |-> "create", id |-> c.next, name |-> op.name]} :
            Named(c, op.name) = {}}
    [] op.kind = "drop" -> {[kind |-> "drop", id |-> d.id] : d \in Named(c, op.name)}
    [] OTHER -> {op}

(* Whether CatalogRecord::apply succeeds: Repository::insert refuses what it
   has under both the id and the name, update an id it does not have.      *)
Applies(c, r) ==
  CASE r.kind = "create" -> ~((\E d \in c.dbs : d.id = r.id) /\ Named(c, r.name) # {})
    [] r.kind = "drop" -> \E d \in c.dbs : d.id = r.id
    [] OTHER -> TRUE

(* CatalogRecord::apply; a restore swaps the whole catalog, next_id too.   *)
Apply(c, r) ==
  CASE r.kind = "create" ->
         [dbs |-> {d \in c.dbs : d.id # r.id}
                    \cup {[id |-> r.id, name |-> r.name, deleted |-> FALSE]},
          next |-> IF c.next <= r.id THEN r.id + 1 ELSE c.next]
    [] r.kind = "drop" ->
         [c EXCEPT !.dbs = {[d EXCEPT !.deleted = @ \/ d.id = r.id] : d \in c.dbs}]
    [] OTHER -> r.image

(* Ids and the names in use are unique, and every id is below the next one. *)
WellFormed(c) ==
  /\ \A d \in c.dbs : d.id < c.next
  /\ \A d, e \in c.dbs : d.id = e.id \/ (d.name = e.name /\ ~d.deleted /\ ~e.deleted)
                           => d = e
=============================================================================
