SPECIFICATION FairSpec
CONSTANTS
  a = a b = b q = q x = x y = y z = z w = w
  Nodes = {a, q}
  Publishers = {a}
  Paths <- MCPaths
  OwnerOf <- MCOwnerOf
  TimeOf <- MCTimeOf
  Manifest <- SoloManifest
  Compactions <- SoloCompactions
  Deltas <- MCDeltas
  MaxManifests = 2
  SnapshotInterval = 0
  MaxAttempts = 2
  MaxRestarts = 1
  MayRestart = {a, q}
  Faults = {"store"}
INVARIANTS TypeOK TimesCoverFiles ReplayComplete ReplayExact PublishedOnce
PROPERTIES Drained FilesArrive FilesLeave
