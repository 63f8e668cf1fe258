CONSTANTS
  Cases = {c1}
  Sessions = {s1}
  NoSession = NoSession
  Procs = {p1}
  Fragile = {}
  FailingReads = TRUE
  MaxSignature = 2
SPECIFICATION Spec
INVARIANTS
  ReadableIsIndexed
CHECK_DEADLOCK FALSE
