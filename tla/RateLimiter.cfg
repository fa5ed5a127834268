SPECIFICATION FairSpec
CONSTANTS
  Callers = {p1, p2}
  MaxSpins = 2
  MaxTokens = 2
  RefillAmount = 2
INVARIANTS
  TypeOK
PROPERTIES
  Linearizable
  LockFree
  RefillerExits
