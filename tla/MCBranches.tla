------------------------------ MODULE MCBranches -----------------------------
(* Instances of Branches for TLC.                                          *)
EXTENDS Branches, TLC

RowSymmetry == Permutations(BranchIds) \cup Permutations(Names)
==============================================================================
