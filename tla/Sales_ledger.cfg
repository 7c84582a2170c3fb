\* Two clerks sell, one of them cancels, a stock keeper edits the products.
CONSTANTS
  a = a  b = b  c1 = c1  c2 = c2  keeper = keeper
  Products = {a, b}
  Clients = {c1, c2, keeper}
  SalesClerks = {c1, c2}
  Cancellers = {c1}
  StockKeepers = {keeper}
  SaleIds = {1, 2}
  Carts <- CrossedCarts
  MaxQuantity = 1
  StockLevels = {0, 1}
  InitialStock <- OneOfEach
SPECIFICATION Spec
INVARIANTS StockMatchesSales OversellIsBounded
PROPERTY EveryRequestEnds
CHECK_DEADLOCK FALSE
