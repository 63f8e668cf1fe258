CONSTANTS
  Cases = {c1}
  Sessions = {s1, s2}
  NoSession = NoSession
  Root = s1
  MaxRevision = 4
SPECIFICATION BoundarySpec
PROPERTIES
  AbortRestoresParent
CHECK_DEADLOCK FALSE
