SPECIFICATION PubSpec
CONSTANTS
  a = a b = b q = q x = x y = y z = z w = w
  Nodes = {a, b}
  Publishers = {a, b}
  Paths <- MCPaths
  OwnerOf <- MCOwnerOf
  TimeOf <- MCTimeOf
  Manifest <- PairManifest
  Compactions <- PairCompactions
  Deltas <- MCDeltas
  MaxManifests = 2
  SnapshotInterval = 0
  MaxAttempts = 2
  MaxRestarts = 0
  MayRestart = {}
  Faults = {}
INVARIANTS ReplayComplete CreatedOnce
