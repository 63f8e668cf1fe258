----------------------------- MODULE MCCaseStore -----------------------------
(***************************************************************************)
(* Small instances of CaseStore for TLC.  A lineage is an ordered list of  *)
(* sessions, so its sessions are named; the cases are interchangeable, and *)
(* no property of the runs that use the symmetry is a liveness property.   *)
(***************************************************************************)
EXTENDS CaseStore, TLC

CONSTANTS s1, s2, s3

MCLineage2 == <<s1, s2>>
MCLineage3 == <<s1, s2, s3>>

MCSymmetry == Permutations(Cases)
=============================================================================
