\* Four cases: a pattern over two candidates, and a pattern over a pattern.
CONSTANTS
  Cases = {c1, c2, c3, c4}
  Lessons = {l1, l2}
  NoLesson = NoLesson
SPECIFICATION Spec
INVARIANTS
  NeverStronger
  PatternIsRepeated
SYMMETRY MCSymmetry
CHECK_DEADLOCK FALSE
