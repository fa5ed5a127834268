SPECIFICATION Spec
CONSTANTS
  Servers = {s1}
  BarHeight = 3
  OutputOnTTY = TRUE
  VerboseOnTTY = TRUE
PROPERTIES
  FinalBarStays
