---------------------------- MODULE MCProbeCycle ----------------------------
(***************************************************************************)
(* Small instances of ProbeCycle for TLC.                                  *)
(***************************************************************************)
EXTENDS ProbeCycle, TLC

MCSymmetry == Permutations(Dispatches)
=============================================================================
