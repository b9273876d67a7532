SPECIFICATION Spec
CONSTANTS
  r1 = r1 r2 = r2 r3 = r3 r4 = r4
  Rows = {r1, r2, r3}
  TimeOf <- MCTimeOf
  Gen1 = 2
  SnapshotSize = 1
  Flushers = {"background", "forced"}
  NoopTime = 3
  Keep = 0
  MaxWal = 3
  MaxCrashes = 0
  MaxCompactions = 0
  Faults = {}
INVARIANTS Durable
CHECK_DEADLOCK FALSE
