----------------------------- MODULE OneCatalog -----------------------------
(***************************************************************************)
(* What the cluster's catalog promises: there is one catalog, every write  *)
(* is prepared against its latest version and makes the next one, and each *)
(* node sees some version and never an earlier one afterwards, not even    *)
(* across its restarts.                                                    *)
(***************************************************************************)
EXTENDS CatalogState, Sequences

CONSTANT Nodes

VARIABLES versions,   \* the catalogs there have been, oldest first
          seen        \* node -> the number of the version it has seen

vars == <<versions, seen>>

Init == versions = <<Empty>> /\ seen = [n \in Nodes |-> 1]

Ops == CreateOps \cup DropOps \cup {RestoreOp(versions[i]) : i \in DOMAIN versions}

(* A write by n, which may or may not learn of it at once. *)
Write(n) ==
  \E op \in Ops : \E r \in Prepare(op, versions[Len(versions)]) :
    /\ versions' = Append(versions, Apply(versions[Len(versions)], r))
    /\ seen' \in {seen, [seen EXCEPT ![n] = Len(versions) + 1]}

CatchUp(n) ==
  /\ \E v \in seen[n]..Len(versions) : seen' = [seen EXCEPT ![n] = v]
  /\ UNCHANGED versions

Next == \E n \in Nodes : Write(n) \/ CatchUp(n)

Spec == Init /\ [][Next]_vars
=============================================================================
