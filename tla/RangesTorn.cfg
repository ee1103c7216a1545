\* The balancer meets a worker between two accesses to its offsets.
SPECIFICATION Spec
CONSTANTS
  w1 = w1
  w2 = w2
  Workers = {w1, w2}
  Size = 4
  ChunkSize = 3
  Buffer = 2
  TailChunk = 2
  MinChunk = 1
  MaxHedge = 3
  MaxRetries = 2
  MaxHedges = 1
  MaxFaults = 0
  MaxDrains = 0
  MaxSaves = 0
  LeaveOne = TRUE
  Torn = TRUE
INVARIANTS SuccessIsWhole
CHECK_DEADLOCK FALSE
