SPECIFICATION Spec
CONSTANTS
  ChunkUnits = 2
  Limit = 3
  MaxTakes = 2
  MaxPauses = 1
  MaxFaults = 1
CHECK_DEADLOCK FALSE
INVARIANT DoneMeansStopped
