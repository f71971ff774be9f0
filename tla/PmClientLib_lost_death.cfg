SPECIFICATION FairLibSpec
CONSTANTS
  Handle = {h1}
  Retries = 2
  MaxDeaths = 1
  MaxCalls = 2
  DiesWhileRegistering = TRUE
CHECK_DEADLOCK FALSE
PROPERTIES
  VoteRestored
