SPECIFICATION FairSpec
CONSTANTS
  a = a
  b = b
  Ids = {a, b}
  Record = {a, b}
  Small = {b}
  Capacity = 2
  UserMax = 1
  Budget = 1
  MaxToken = 2
  Modes = {TRUE, FALSE}
INVARIANTS SlotCapHolds OneMeasurement DeadReservesNothing
PROPERTIES LiveTicketKept EveryWaiterAdmitted
CHECK_DEADLOCK FALSE
