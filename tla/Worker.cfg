SPECIFICATION Spec
CONSTANT
  Letters = {"a", "b", "A", "B"}
  Inputs <- MCInputs
INVARIANTS
  DecidesTheMatch
  NoCutRegretted
  AssignmentKept
  NoReplyNoPass
