SPECIFICATION FairSpec
CONSTANTS
  Client = {a1, a2}
  CrashingClients = {a1, a2}
  QmiClient = {}
  NULL = NULL
  OffTimeout = 500
  AckTimeout = 200
  DeviceFaults = {}
  MaxTimeouts = 2
PROPERTIES
  TransitionCompletes
CHECK_DEADLOCK FALSE
