------------------------------ MODULE Publisher ------------------------------
(***************************************************************************)
(* The publisher (influxdb3_cluster/src/file_index/publisher.rs) draining  *)
(* a node's snapshot manifests into the shared log: what it appends, and   *)
(* when.  Every step is a step of FileIndexLog, or leaves its state alone. *)
(*                                                                         *)
(* Manifest[n][k] is what snapshot manifest k of node n adds and removes.  *)
(* Manifests are persisted by the node's snapshot task, one at a time and  *)
(* in order, and by its compaction handler, which reserves a number and    *)
(* persists it on its own: Compactions[n] are the numbers so reserved.     *)
(***************************************************************************)
EXTENDS FileIndexLog, FiniteSetsExt, Sequences

CONSTANTS Manifest,         \* [Publishers -> Seq of [added, removed]]
          Compactions,      \* [Publishers -> set of manifest numbers]
          MaxManifests      \* MAX_MANIFESTS_PER_PASS

VARIABLES persisted,        \* [Publishers -> manifests in the object store]
          watermark         \* what publish_pending has read, or Unread

pubVars == <<vars, persisted, watermark>>

Unread == -1
Appender(n) == <<n, "append">>

-----------------------------------------------------------------------------
(* deltas_from_snapshot over the manifests K, oldest first, as one delta.  *)
AllAdded(n, K) == UNION {Manifest[n][k].added : k \in K}

Drain(n, K) ==
  [node |-> n,
   snapshot_sequence |-> Max(K),
   added |-> {p \in AllAdded(n, K) :
                \E k \in K : /\ p \in Manifest[n][k].added
                             /\ \A j \in K : j > k => p \notin Manifest[n][j].removed},
   removed |-> UNION {Manifest[n][k].removed : k \in K},
   max_time |-> IF AllAdded(n, K) = {} THEN NoTime
                ELSE Max({TimeOf[p] : p \in AllAdded(n, K)})]

ASSUME ManifestAssumption ==
  \A n \in Publishers : Manifest[n] \in Seq([added: SUBSET Paths, removed: SUBSET Paths])

ASSUME DrainAssumption ==
  \A n \in Publishers : \A K \in SUBSET (DOMAIN Manifest[n]) :
    K # {} => Drain(n, K) \in Deltas

ASSUME MaxManifestsAssumption == MaxManifests \in Nat \ {0}

(* load_snapshots_after: list the newest manifests up to the limit, then
   keep those above the watermark.  A manifest without files yields no
   delta.                                                                  *)
Newest(S, limit) == {k \in S : Cardinality({j \in S : j > k}) < limit}

\* Mutant of LoadSnapshotsAfter: the first manifest above the watermark is lost.
LoadSnapshotsSkips(n, after) ==
  {k \in Newest(persisted[n], MaxManifests) : k > after + 1}

LoadSnapshotsAfter(n, after) ==
  {k \in Newest(persisted[n], MaxManifests) : k > after}

Pending(n, after) ==
  {k \in LoadSnapshotsAfter(n, after) :
     Manifest[n][k].added # {} \/ Manifest[n][k].removed # {}}

PubInit ==
  /\ Init
  /\ persisted = [n \in Publishers |-> {}]
  /\ watermark = [n \in Publishers |-> Unread]

(* A snapshot manifest waits for the snapshots before it; a compaction
   manifest may overtake the one snapshot in flight.  A compaction rewrites
   files some node's index showed to the compactor.                        *)
PersistManifest(n, k) ==
  LET inFlight == {j \in 1..(k - 1) : j \notin persisted[n] /\ j \notin Compactions[n]}
  IN /\ k \notin persisted[n]
     /\ IF k \in Compactions[n] THEN Cardinality(inFlight) <= 1 ELSE inFlight = {}
     /\ \A p \in Manifest[n][k].removed : \E m \in Nodes : Holds(index[m], p)
     /\ persisted' = [persisted EXCEPT ![n] = @ \cup {k}]
     /\ UNCHANGED <<vars, watermark>>

(* publish_pending: after its sync, read the watermark ...                 *)
PublishRead(n) ==
  /\ pc[Appender(n)] = "synced" /\ watermark[n] = Unread
  /\ watermark' = [watermark EXCEPT ![n] = index[n].watermarks[n]]
  /\ UNCHANGED <<vars, persisted>>

(* ... then load the manifests above it and append what they say.          *)
PublishPending(n) ==
  /\ pc[Appender(n)] = "synced" /\ watermark[n] # Unread
  /\ LET K == Pending(n, watermark[n])
     IN IF K = {} THEN PublishNothing(Appender(n))
                  ELSE AppendCall(Appender(n), Drain(n, K))
  /\ watermark' = [watermark EXCEPT ![n] = Unread]
  /\ UNCHANGED persisted

(* A step that no request of t need have failed for. *)
Succeeds(t) == SyncStep(t) \/ LoadStep(t) \/ AppendStep(t) \/ PublishSync(t)

LogStep(t) ==
  /\ Succeeds(t) \/ StoreFail(t)
  /\ UNCHANGED <<persisted, watermark>>

PubRestart(n) ==
  /\ Restart(n)
  /\ watermark' = [m \in Publishers |-> IF m = n THEN Unread ELSE watermark[m]]
  /\ UNCHANGED persisted

PubNext ==
  \/ \E t \in Tasks : LogStep(t)
  \/ \E n \in Publishers :
       \/ \E k \in DOMAIN Manifest[n] : PersistManifest(n, k)
       \/ PublishRead(n) \/ PublishPending(n)
  \/ \E n \in Nodes : PubRestart(n)

PubSpec == PubInit /\ [][PubNext]_pubVars

(* tokio schedules every spawned task, its timer keeps ticking, and the object
   store fails a finite number of requests.                                *)
Fairness ==
  /\ \A t \in Tasks : WF_pubVars(LogStep(t))
  /\ \A n \in Publishers : WF_pubVars(PublishRead(n) \/ PublishPending(n))
  /\ <>[][\A t \in Tasks : StoreFail(t) => Succeeds(t)]_pubVars

FairSpec == PubSpec /\ Fairness
-----------------------------------------------------------------------------
(* Properties                                                              *)

(* Until the first rollup a node's manifests are published in order and each
   once, although a PUT that failed may have landed and a restart forgets
   the watermark: publish_pending re-reads the log before it resumes.      *)
PublishedOnce ==
  snapshot = {} =>
    \A e, f \in created :
      e.sequence < f.sequence /\ e.delta.node = f.delta.node =>
        e.delta.snapshot_sequence < f.delta.snapshot_sequence

(* The files manifest k of n adds that no manifest removes. *)
Lasting(n, k) ==
  Manifest[n][k].added \ UNION {Manifest[n][j].removed : j \in DOMAIN Manifest[n]}

(* The log has taken note of manifest k of n: of what it removes, and of what
   it adds unless the same entry removed that again.                       *)
Noted(n, k) ==
  /\ \A p \in Manifest[n][k].removed : \E e \in created : p \in e.delta.removed
  /\ \A p \in Manifest[n][k].added :
       \E e \in created : p \in e.delta.added \cup e.delta.removed

(* Every manifest a publisher persists is drained into the log: again and again
   none is left over.                                                      *)
Drained ==
  []<>(\A n \in Publishers : \A k \in persisted[n] : Noted(n, k))

(* A file in a persisted manifest reaches every node's index for good, and a
   file a persisted manifest removes leaves every querier's for good.      *)
FilesArrive ==
  \A n \in Publishers : \A k \in {j \in DOMAIN Manifest[n] : Lasting(n, j) # {}} :
    k \in persisted[n] ~> [](\A m \in Nodes : \A p \in Lasting(n, k) : Holds(index[m], p))

FilesLeave ==
  \A n \in Publishers : \A k \in {j \in DOMAIN Manifest[n] : Manifest[n][j].removed # {}} :
    k \in persisted[n] ~>
      [](\A m \in Nodes \ Publishers : \A p \in Manifest[n][k].removed : ~Holds(index[m], p))
=============================================================================
