\* Two workers, a file of four bytes in two chunks.
SPECIFICATION Spec
CONSTANTS
  w1 = w1
  w2 = w2
  Workers = {w1, w2}
  Size = 4
  ChunkSize = 3
  Buffer = 2
  TailChunk = 2
  MinChunk = 1
  MaxHedge = 3
  MaxRetries = 2
  MaxHedges = 1
  MaxFaults = 2
  MaxDrains = 1
  MaxSaves = 1
  LeaveOne = TRUE
  Torn = FALSE
INVARIANTS NoByteLost VerifiedIsOnDisk SuccessIsWhole NoSilentHang
CHECK_DEADLOCK FALSE
SYMMETRY Symmetry
