\* Up to three workers, one buffered segment, the rest spills.
SPECIFICATION Spec
CONSTANTS
  w1 = w1
  w2 = w2
  w3 = w3
  Workers = {w1, w2, w3}
  NSeg = 6
  PendingMax = 1
  MaxRetries = 1
  Scenarios <- Late
  LateEvents = TRUE
SYMMETRY Symmetry
INVARIANTS CheckpointIsTrue
CHECK_DEADLOCK FALSE
