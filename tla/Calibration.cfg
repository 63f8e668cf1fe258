CONSTANTS
  Asserted = {a, b}
  Rivals = {}
  MaxEvents = 3
  Histories <- MCHistories
SPECIFICATION Spec
INVARIANTS
  TypeOK
  FailureNeverSupports
  TestimonyStaysTestimony
  SearchIsALead
  ClosureIsEarned
CHECK_DEADLOCK FALSE
SYMMETRY MCSymmetry
