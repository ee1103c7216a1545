SPECIFICATION Spec
CONSTANTS
  id1 = id1
  id2 = id2
  w1 = w1
  w2 = w2
  c1 = c1
  c2 = c2
  shut = shut
  Ids = {id1}
  Hls = {}
  Workers = {w1, w2}
  Callers = {c1, shut}
  Shut = shut
  Ops = {"pause","resume"}
  Managed = FALSE
  MaxRetries = 1
  MaxToken = 3
SYMMETRY Symmetry
INVARIANTS
  OneLiveRun
CHECK_DEADLOCK FALSE
