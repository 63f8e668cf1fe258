CONSTANTS
  Cases = {c1, c2}
  Sessions = {s1, s2}
  NoSession = NoSession
  Procs = {p1, p2}
  Fragile = {c1}
  FailingReads = TRUE
  MaxSignature = 3
SPECIFICATION Spec
INVARIANTS
  OneActivePerSession
  BlocksOnlyNamed
PROPERTIES
  KnownOwnersStayProtected
CHECK_DEADLOCK FALSE
SYMMETRY MCSymmetry
