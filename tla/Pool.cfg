SPECIFICATION Spec
CONSTANTS
  id1 = id1
  id2 = id2
  w1 = w1
  w2 = w2
  c1 = c1
  c2 = c2
  shut = shut
  Ids = {id1, id2}
  Hls = {}
  Workers = {w1, w2}
  Callers = {c1, shut}
  Shut = shut
  Ops = {"cancel", "pause"}
  Managed = TRUE
  MaxRetries = 1
  MaxToken = 3
CONSTRAINT FewTokensWhenPausing
SYMMETRY SymmetryOfIds
INVARIANTS
  SoleOwner
  ClaimsSettledOnce
  WgBalance
  OneLiveRun
PROPERTIES
  ImplementsAdmittedPool
CHECK_DEADLOCK FALSE
