INIT OvertakenInit
NEXT OvertakenNext
CONSTANTS
  TargetSize = 3
  MaxInputSize = 3
  MaxInputs = 2
  Times = {1, 2, 3, 4, 5, 6, 7}
  SizesOf <- Small
  Grace = 6
  MaxCrashes = 0
  Faults = {"merge"}
INVARIANT OnlyRetired
CHECK_DEADLOCK FALSE
