SPECIFICATION PubSpec
CONSTANTS
  a = a b = b q = q x = x y = y z = z w = w
  Nodes = {a, q}
  Publishers = {a}
  Paths <- MCPaths
  OwnerOf <- MCOwnerOf
  TimeOf <- MCTimeOf
  Manifest <- SoloManifest
  Compactions <- SoloCompactions
  Deltas <- MCDeltas
  MaxManifests = 2
  SnapshotInterval = 2
  MaxAttempts = 2
  MaxRestarts = 1
  MayRestart = {q}
  Faults = {}
INVARIANTS TimesCoverFiles RollupComplete
