CONSTANTS
  s1 = s1
  s2 = s2
  s3 = s3
  Cases = {c1, c2}
  Sessions = {s1, s2}
  NoSession = NoSession
  Lineage <- MCLineage2
  Procs = {p1}
  MaxEvents = 3
  MaxSeq = 3
SPECIFICATION FairSpec
INVARIANTS
  OneActivePerSession
  DispositionSeqsUnique
  NeverWedged
PROPERTIES
  ImplementsLedger
  JournalDrains
CHECK_DEADLOCK FALSE
