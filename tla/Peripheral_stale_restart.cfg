SPECIFICATION Spec
CONSTANTS
  Client = {a1, a2}
  CrashingClients = {}
  QmiClient = {q1}
  NULL = NULL
  OffTimeout = 500
  AckTimeout = 200
  DeviceFaults = {}
  MaxTimeouts = 2
INVARIANTS
  RestartMeansRestarting
SYMMETRY Symmetry
CHECK_DEADLOCK FALSE
