SPECIFICATION FairSpec
CONSTANTS
  NumServers = 2
  NumChecks = 2
  MaxAttempts = 2
  MaxFailures = 2
  MaxPoolSize = 1
  MaxThreads = 2
  MaxTokens = 1
  RefillAmount = 1
  QueryInterval = 0
INVARIANTS
  NoServerLost
PROPERTIES
  Termination
  KeepsPromiseInTheEnd
