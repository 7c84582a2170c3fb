----------------------------- MODULE MCAccounts ------------------------------
(* Instances of Accounts for TLC.  Companies that are there from the       *)
(* beginning differ in nothing, and neither do the handlers.               *)
EXTENDS Accounts, TLC

CONSTANTS c1, c2, c3

Symmetry == Permutations(Handlers) \cup Permutations(Founded)
==============================================================================
