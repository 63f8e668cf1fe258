\* Two claims, one plan step.
CONSTANTS
  m1 = m1
  m2 = m2
  p1 = p1
  p2 = p2
  Claims = {m1, m2}
  Steps = {p1}
  Texts = {t}
  Lists <- MCListsTwice
  None = None
SPECIFICATION Spec
PROPERTY RelabellingDoesNotRepair
CHECK_DEADLOCK FALSE
