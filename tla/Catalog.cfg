SPECIFICATION FairSpec
CONSTANTS
  Names = {"a"}
  Nodes = {"n1", "n2"}
  MaxCalls = 3
  MaxFaults = 1
  Faults = {"stop", "put", "follow", "checkpoint"}
INVARIANTS TypeOK CopiesExact IdsOnce
PROPERTIES Implements CaughtUp
CHECK_DEADLOCK FALSE
