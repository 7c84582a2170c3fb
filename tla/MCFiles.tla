------------------------------- MODULE MCFiles -------------------------------
(* Instances of Files for TLC.                                             *)
EXTENDS Files

(* All files belong to one resource.                                       *)
OneResource == [k \in Keys |-> CHOOSE r \in Resources : TRUE]
==============================================================================
