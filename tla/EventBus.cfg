SPECIFICATION FairSpec
CONSTANTS
  p1 = p1
  w1 = w1
  o1 = o1
  Store = Store
  Publishers = {p1}
  Workers = {w1}
  Observers = {o1}
  InCap = 1
  CritCap = 1
  MaxEvents = 3
INVARIANTS
  StoreMissesNothing
  ObserverSeesNoGap
  NoStaleProgress
  NoSendOnClosed
PROPERTIES
  ShutdownEnds
CHECK_DEADLOCK FALSE
