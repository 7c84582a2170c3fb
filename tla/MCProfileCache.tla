--------------------------- MODULE MCProfileCache ----------------------------
(* Instances of ProfileCache for TLC.                                      *)
EXTENDS ProfileCache
==============================================================================
