SPECIFICATION FairQmiServiceSpec
CONSTANTS
  Addr = {a, b}
  Nobody = nobody
  Handler = handler
  Worker = {w}
  QueueSize = 1
  TxnAllocFails = FALSE
  MaxReqs = 2
  MaxSends = 2
  MaxFull = 1
CHECK_DEADLOCK FALSE
INVARIANTS
  PointersValid
  NoDanglingQueue
  InOrder
  AnsweredOnce
PROPERTIES
  ResumeTold
  HandlerReturns
