----------------------------- MODULE MCCaseIndex -----------------------------
(***************************************************************************)
(* A small instance of CaseIndex for TLC: sessions and processes are       *)
(* interchangeable; the cases are not, only one has a Timeline that can be *)
(* damaged.                                                                *)
(***************************************************************************)
EXTENDS CaseIndex, TLC

MCSymmetry == Permutations(Sessions) \cup Permutations(Procs)
=============================================================================
