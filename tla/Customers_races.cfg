\* Two clients edit customers with a shared phone and their orders; one reads.
CONSTANTS
  CustomerIds = {k1, k2, k3}
  Phones = {p1, p2}
  Clients = {c1, c2}
  Orders = {o1, o2}
  Limit = 1
SPECIFICATION DeskSpec
SYMMETRY RowSymmetry
INVARIANTS EveryOrderHasItsCustomer DuplicatesBoundedByClients PagesMissNothing
PROPERTY RevenueCountsOnce
CHECK_DEADLOCK FALSE
