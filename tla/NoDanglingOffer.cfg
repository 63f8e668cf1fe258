CONSTANTS
  Callers = {p1, p2}
  MaxCalls = 2
  MaxTokens = 1
  MaxConsecutive = 1
  MaxEvents = 5
SPECIFICATION Spec
CHECK_DEADLOCK FALSE
SYMMETRY MCSymmetry
INVARIANTS
  NoDanglingOffer
