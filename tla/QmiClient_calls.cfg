SPECIFICATION FairClientSpec
CONSTANTS
  Caller = {t1, t2}
  Opener = t1
  Reader = reader
  MaxTxns = 2
  MaxBusy = 1
  MaxCalls = 2
CHECK_DEADLOCK FALSE
INVARIANTS
  RefsMatch
  NoUseAfterFree
  NoSendOnClosed
  WaiterIsOwedSignal
  LossTold
PROPERTIES
  BufferOnlyWhileLent
  ConcludedOnce
  Concluded
  CallsReturn
