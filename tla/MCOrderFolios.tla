---------------------------- MODULE MCOrderFolios ----------------------------
(* Instances of OrderFolios for TLC.                                       *)
EXTENDS OrderFolios, TLC

CONSTANTS c1, c2, r1, r2, r3, r4

(* The first request belongs to another tenant than the others.            *)
TwoCompanies == [r \in Requests |-> IF r = r1 THEN c2 ELSE c1]
==============================================================================
