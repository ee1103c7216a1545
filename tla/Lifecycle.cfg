\* One HLS and one byte-range download, two users, one crash.
SPECIFICATION Spec
CONSTANTS
  h = h
  n = n
  u1 = u1
  u2 = u2
  Ids = {h, n}
  Hls = {h}
  Dests = 2
  Users = {u1, u2}
  Scenarios <- MCScenarios
  MaxLevel = 1
  MaxBus = 1
  LateResume = FALSE
  MaxCancels = 1
  MaxCrashes = 1
INVARIANTS AcceptedSurvives RemovedStaysGone CheckpointSettles
PROPERTIES CompletionWins
CHECK_DEADLOCK FALSE
