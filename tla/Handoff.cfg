SPECIFICATION FairSpec
CONSTANTS
  TargetSize = 3
  MaxInputSize = 3
  MaxInputs = 2
  Times = {1, 2, 3}
  SizesOf <- MCSizesOf
  Grace = 1
  MaxCrashes = 1
  Faults = {"save", "delete", "load", "merge", "persist", "drop"}
INVARIANTS TypeOK OnlyRetired Recoverable Served
PROPERTIES PlanSound Reclaimed
