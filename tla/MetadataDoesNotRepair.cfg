\* A claim, a plan step; one dependency list names its item twice.
CONSTANTS
  m1 = m1
  m2 = m2
  p1 = p1
  p2 = p2
  Claims = {m1}
  Steps = {p1}
  Texts = {t}
  Lists <- MCListsTwice
  None = None
SPECIFICATION Spec
PROPERTY MetadataDoesNotRepair
CHECK_DEADLOCK FALSE
