SPECIFICATION Spec
CONSTANTS
  NumServers = 1
  NumChecks = 3
  MaxAttempts = 2
  MaxFailures = 2
  MaxPoolSize = 1
  MaxThreads = 2
  MaxTokens = 2
  RefillAmount = 2
  QueryInterval = 1
INVARIANTS
  ChecksConserved
  CountersAgreeWithAnswers
  ProgressExact
  ReportedOnce
PROPERTIES
  ProgressNeverRegresses
  KeepsPromise
