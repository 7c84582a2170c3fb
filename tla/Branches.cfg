\* Two clients create, update and remove three branches, one with an order.
CONSTANTS
  BranchIds = {b1, b2, b3}
  Names = {n1, n2, n3}
  Clients = {c1, c2}
  Orders = {o1}
SPECIFICATION Spec
SYMMETRY RowSymmetry
INVARIANTS MainsAreBounded NoOrderLeftBehind
CHECK_DEADLOCK FALSE
