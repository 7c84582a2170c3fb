-------------------------- MODULE MCOrderLifecycle ---------------------------
(* Instances of OrderLifecycle for TLC.                                    *)
EXTENDS OrderLifecycle, TLC

CONSTANTS o1, s1, s2

(* Everybody works on every order.                                         *)
Shared == [s \in Staff |-> Orders]

ClientSymmetry == Permutations(Staff)
==============================================================================
