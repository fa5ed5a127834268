SPECIFICATION Spec
CONSTANTS
  MaxTokens = 1
  RefillAmount = 1
  Second = 2
  Interval = 3
  MaxTime = 6
  BarTime = 4
INVARIANTS
  ServerRateKept
  AverageRateKept
  PeakBounded
PROPERTIES
  WindowExact
