\* A claim, two plan steps, two texts.
CONSTANTS
  m1 = m1
  m2 = m2
  p1 = p1
  p2 = p2
  Claims = {m1}
  Steps = {p1, p2}
  Texts = {t, u}
  Lists <- MCLists
  None = None
SPECIFICATION Spec
INVARIANTS
  TypeOK
  SnapshotHolds
PROPERTIES
  DependentsAreReconsidered
  BlameStaysLocal
CHECK_DEADLOCK FALSE
