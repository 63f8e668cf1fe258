-------------------------- MODULE MCLessonTransfer --------------------------
(* LessonTransfer up to the renaming of cases and of lessons.              *)
EXTENDS LessonTransfer, TLC

MCSymmetry == Permutations(Cases) \cup Permutations(Lessons)
=============================================================================
