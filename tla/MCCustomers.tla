----------------------------- MODULE MCCustomers -----------------------------
(* Instances of DeskReports, with Customers in it, for TLC.                *)
EXTENDS DeskReports

RowSymmetry == Permutations(CustomerIds) \cup Permutations(Phones)
               \cup Permutations(Orders) \cup Permutations(Clients)
==============================================================================
