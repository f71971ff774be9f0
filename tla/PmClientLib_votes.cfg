SPECIFICATION FairLibSpec
CONSTANTS
  Handle = {h1}
  Retries = 2
  MaxDeaths = 2
  MaxCalls = 2
  DiesWhileRegistering = FALSE
CHECK_DEADLOCK FALSE
INVARIANTS
  ConnectedMatchesVote
  NoStaleStruct
  LockOrder
PROPERTIES
  CallsReturn
  VoteRestored
