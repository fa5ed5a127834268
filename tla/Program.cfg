SPECIFICATION FairSpec
CONSTANTS
  MaxInt = 131071
  TotalChrs = 3
  DefaultTemplate <- MCDefaultTemplate
  Invocations <- MCInvocations
  Forbidden = {"locked"}
INVARIANTS
  CleanTemplateFirst
  OutputExact
  InputsAsGiven
  EngineReady
  BarFits
PROPERTY
  EveryRunEnds
