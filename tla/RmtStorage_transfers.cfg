SPECIFICATION FairStorageSpec
CONSTANTS
  Partition = {fs1, fs2, gone}
  Absent = {gone}
  Shared = {fs1}
  Fs1 = fs1
  MaxClients = 2
  Nothing = nothing
  EmptyTransfers = FALSE
  MaxThreads = 2
  MaxReqs = 2
CHECK_DEADLOCK FALSE
INVARIANTS
  CallerIdUnique
  WakeLockMatches
PROPERTIES
  TransferAnswered
