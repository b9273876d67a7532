---------------------------- MODULE MCPublisher ----------------------------
(* Small instances of Publisher: node a publishes x, then y, then z as the
   compaction of x and y; node b, where it publishes, w; q only reads.     *)
EXTENDS Publisher

CONSTANTS a, b, q, x, y, z, w

MCPaths == {x, y, z, w}
MCOwnerOf == [p \in MCPaths |-> IF p = w /\ b \in Nodes THEN b ELSE a]
MCTimeOf == [p \in MCPaths |-> CASE p = w -> 0 [] p = y -> 1 [] OTHER -> 2]

Add(S) == [added |-> S, removed |-> {}]
Rewrite(S, T) == [added |-> T, removed |-> S]

\* One publisher, two snapshots and their compaction.
SoloManifest == [n \in Publishers |-> <<Add({x}), Add({y}), Rewrite({x, y}, {z})>>]
SoloCompactions == [n \in Publishers |-> {3}]

\* Two publishers: one replaces a file, the other adds one.
PairManifest == [n \in Publishers |-> IF n = a THEN <<Add({x}), Rewrite({x}, {y})>>
                                               ELSE <<Add({w})>>]
PairCompactions == [n \in Publishers |-> IF n = a THEN {2} ELSE {}]

\* One publisher, three snapshots.
AddsManifest == [n \in Publishers |-> <<Add({x}), Add({y}), Add({z})>>]
AddsCompactions == [n \in Publishers |-> {}]

\* A compaction of x is recorded while the snapshot before it is in flight.
OvertakeManifest == [n \in Publishers |-> <<Add({x}), Add({y}), Rewrite({x}, {z})>>]
OvertakeCompactions == SoloCompactions

MCDeltas == {Drain(n, K) : <<n, K>> \in
              UNION {{n} \X (SUBSET (DOMAIN Manifest[n]) \ {{}}) : n \in Publishers}}
============================================================================
