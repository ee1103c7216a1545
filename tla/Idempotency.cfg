SPECIFICATION Spec
CONSTANTS
  c1 = c1
  c2 = c2
  f1 = f1
  f2 = f2
  f3 = f3
  r1 = r1
  r2 = r2
  d1 = d1
  d2 = d2
  Conns = {c1, c2}
  Frames = {f1, f2, f3}
  RequestIds = {r1, r2}
  Digests = {d1, d2}
  MaxEntries = 2
  MaxWaiters = 1
  GateLimit = 2
  PerConn = 1
  MaxChanges = 1
  NoReply = NoReply
  Refusal = Refusal
  Silence = Silence
SYMMETRY Symmetry
INVARIANTS
  WaitersParked
  OneLiveHandler
  OwnAnswer
CHECK_DEADLOCK FALSE
