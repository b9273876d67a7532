SPECIFICATION FaultySpec
CONSTANTS
  Names = {"a"}
  Nodes = {"n1", "n2"}
  MaxCalls = 4
  MaxFaults = 1
  Faults = {}
PROPERTY SequenceMonotone
CHECK_DEADLOCK FALSE
