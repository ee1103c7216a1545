SPECIFICATION FairSpec
CONSTANTS
  e1 = e1
  b1 = b1
  b2 = b2
  u1 = u1
  k1 = k1
  Extensions = {e1}
  Candidates = {b1, b2}
  Urls = {u1}
  DedupKeys = {k1}
  MaxTokens = 3
  None = None
INVARIANTS
  SingleFlight
  
  NoSecondExtensionAdd
PROPERTIES
  EveryCallerAnswered
CHECK_DEADLOCK FALSE
