SPECIFICATION FairCallsSpec
CONSTANTS
  Client = {a1, a2}
  CrashingClients = {a1}
  QmiClient = {q1}
  NULL = NULL
  OffTimeout = 500
  AckTimeout = 200
  DeviceFaults = {}
  MaxTimeouts = 1
CHECK_DEADLOCK FALSE
INVARIANTS
  ListedObjectsAlive
  CountCoversVoters
  MisusedOnlyInDeath
  LeakedOnlyInDeath
PROPERTIES
  DeadLeave
