SPECIFICATION FairSpec
CONSTANTS
  Servers = {s1, s2}
  BarHeight = 3
  OutputOnTTY = TRUE
  VerboseOnTTY = TRUE
INVARIANTS
  NothingLost
PROPERTIES
  LinesSurvive
  LoopReturns
