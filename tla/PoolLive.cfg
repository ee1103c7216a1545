SPECIFICATION FairSpec
CONSTANTS
  id1 = id1
  id2 = id2
  w1 = w1
  w2 = w2
  c1 = c1
  c2 = c2
  shut = shut
  Ids = {id1}
  Hls = {id1}
  Workers = {w1}
  Callers = {c1, shut}
  Shut = shut
  Ops = {"shutdown", "pause", "cancel", "resume", "fill"}
  Managed = FALSE
  MaxRetries = 1
  MaxToken = 2
INVARIANTS ShutdownQuiescent HlsFence
PROPERTIES
  CancelReturns
  ShutdownCompletes
CHECK_DEADLOCK FALSE
