CONSTANTS
  s1 = s1
  s2 = s2
  s3 = s3
  Cases = {c1, c2}
  Sessions = {s1, s2, s3}
  NoSession = NoSession
  Lineage <- MCLineage3
  Procs = {}
  MaxEvents = 4
  MaxSeq = 4
SPECIFICATION Spec
PROPERTIES
  ProofOfLifeIsUndisputed
CHECK_DEADLOCK FALSE
SYMMETRY MCSymmetry
