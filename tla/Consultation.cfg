CONSTANTS
  Callers = {p1, p2}
  MaxCalls = 1
  MaxTokens = 1
  MaxConsecutive = 2
  MaxEvents = 6
SPECIFICATION Spec
CHECK_DEADLOCK FALSE
SYMMETRY MCSymmetry
INVARIANTS
  OverrunIsBounded
  EveryDecisionConsulted
  AdviceIsCurrent
  AnsweredOnce
  WaiversAreEarned
