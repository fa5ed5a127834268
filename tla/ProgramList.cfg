SPECIFICATION Spec
CONSTANTS
  MaxInt = 131071
  TotalChrs = 3
  DefaultTemplate <- MCDefaultTemplate
  Invocations <- MCLists
  Forbidden = {}
INVARIANT
  WholeListTested
