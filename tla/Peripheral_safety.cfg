SPECIFICATION Spec
CONSTANTS
  Client = {a1, a2, a3}
  CrashingClients = {a1, a2, a3}
  QmiClient = {q1, q2}
  NULL = NULL
  OffTimeout = 500
  AckTimeout = 200
  DeviceFaults = {"open", "close"}
  MaxTimeouts = 2
INVARIANTS
  VotersCounted
  PowerMatchesState
  AcksForCurrentState
  ExitPoweredOff
PROPERTIES
  DeviceClosedOnlyIfUnwanted
  KeepsPromise
SYMMETRY Symmetry
CHECK_DEADLOCK FALSE
