SPECIFICATION Spec
CONSTANTS
  NumServers = 1
  NumChecks = 2
  MaxAttempts = 1
  MaxFailures = 1
  MaxPoolSize = 1
  MaxThreads = 2
  MaxTokens = 2
  RefillAmount = 2
  QueryInterval = 0
INVARIANTS
  DroppedOnlyBeyondLimit
