-------------------------- MODULE MCFakePrAdapter --------------------------
(***************************************************************************)
(* Instance of FakePrAdapter for TLC.                                      *)
(***************************************************************************)
EXTENDS FakePrAdapter, TLC

FakePrSymmetry == Permutations(ApprovalIds)
=============================================================================
