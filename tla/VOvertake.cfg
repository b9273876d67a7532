SPECIFICATION FairSpec
CONSTANTS
  a = a b = b q = q x = x y = y z = z w = w
  Nodes = {a, q}
  Publishers = {a}
  Paths <- MCPaths
  OwnerOf <- MCOwnerOf
  TimeOf <- MCTimeOf
  Manifest <- OvertakeManifest
  Compactions <- OvertakeCompactions
  Deltas <- MCDeltas
  MaxManifests = 2
  SnapshotInterval = 0
  MaxAttempts = 2
  MaxRestarts = 0
  MayRestart = {}
  Faults = {}
PROPERTIES Drained
