SPECIFICATION Spec
CONSTANTS
  NumServers = 2
  NumChecks = 3
  MaxAttempts = 1
  MaxFailures = 1
  MaxPoolSize = 2
  MaxThreads = 2
  MaxTokens = 1
  RefillAmount = 1
  QueryInterval = 0
INVARIANTS
  TypeOK
  InFlightExact
  CancelledNeverCounts
  VerdictSound
  RoomForLateResults
  OrphansOnlyOfDropped
  BurstBounded
PROPERTIES
  ReportIsFinal
  BusyOnlyWhenPoolCannotGrow
