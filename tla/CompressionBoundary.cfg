CONSTANTS
  Cases = {c1, c2}
  Sessions = {s1, s2, s3}
  NoSession = NoSession
  Root = s1
  MaxRevision = 3
SPECIFICATION FairBoundarySpec
INVARIANTS
  ExecutesRecovered
  OneValidMarkerPerSession
  RefusedOnlyIfCaseLeft
PROPERTIES
  PromiseIsKept
  ChildIsServed
  StaleMarkerStaysStale
  AbortReturnsTheCase
CHECK_DEADLOCK FALSE
