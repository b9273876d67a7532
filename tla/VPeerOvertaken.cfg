SPECIFICATION Spec
CONSTANTS
  Times = {1, 2}
  ChunkSize = 2
  MaxRows = 3
  MaxCompactions = 1
INVARIANTS Complete
