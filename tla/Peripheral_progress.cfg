SPECIFICATION FairSpec
CONSTANTS
  Client = {a1, a2}
  CrashingClients = {}
  QmiClient = {q1, q2}
  NULL = NULL
  OffTimeout = 500
  AckTimeout = 200
  DeviceFaults = {"close"}
  MaxTimeouts = 2
INVARIANTS
  RestartNotForgotten
PROPERTIES
  TransitionCompletes
  ShutdownCompletes
CHECK_DEADLOCK FALSE
