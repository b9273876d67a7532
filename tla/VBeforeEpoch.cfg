SPECIFICATION Spec
CONSTANTS
  r1 = r1 r2 = r2 r3 = r3 r4 = r4
  Rows = {r1, r2}
  TimeOf <- BeforeEpoch
  Gen1 = 2
  SnapshotSize = 1
  Flushers = {"background"}
  NoopTime = 3
  Keep = 0
  MaxWal = 4
  MaxCrashes = 1
  MaxCompactions = 0
  Faults = {}
INVARIANT Durable
CHECK_DEADLOCK FALSE
