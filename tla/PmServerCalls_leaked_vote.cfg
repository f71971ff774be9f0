SPECIFICATION CallsSpec
CONSTANTS
  Client = {a1, a2}
  CrashingClients = {a1, a2}
  QmiClient = {}
  NULL = NULL
  OffTimeout = 500
  AckTimeout = 200
  DeviceFaults = {}
  MaxTimeouts = 1
SYMMETRY Symmetry
CHECK_DEADLOCK FALSE
INVARIANTS
  VotersCounted
