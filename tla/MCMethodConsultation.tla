------------------------ MODULE MCMethodConsultation ------------------------
(***************************************************************************)
(* Small instances of MethodConsultation for TLC.                          *)
(***************************************************************************)
EXTENDS MethodConsultation

MCSymmetry == Permutations(Callers)
=============================================================================
