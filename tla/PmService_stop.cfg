SPECIFICATION FairServiceSpec
CONSTANTS
  User = {u1, u2}
  Requester = {r1, r2}
  MaxDumps = 1
  QmiComesUp = TRUE
CHECK_DEADLOCK FALSE
INVARIANTS
  QmiStopsFirst
  ReturnsAfterExit
PROPERTIES
  RequestReturns
