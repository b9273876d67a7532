SPECIFICATION Spec
CONSTANTS
  TargetSize = 3
  MaxInputSize = 3
  MaxInputs = 2
  Times = {1, 2, 3}
  SizesOf <- MCSizesOf
  Grace = 1
  MaxCrashes = 0
  Faults = {"persist"}
INVARIANT Recoverable
