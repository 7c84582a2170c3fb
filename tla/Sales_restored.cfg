\* Two clients cancel the same sale.
CONSTANTS
  a = a  b = b  c1 = c1  c2 = c2  keeper = keeper
  Products = {a, b}
  Clients = {c1, c2}
  SalesClerks = {c1, c2}
  Cancellers = {c1, c2}
  StockKeepers = {}
  SaleIds = {1, 2}
  Carts <- CrossedCarts
  MaxQuantity = 1
  StockLevels = {}
  InitialStock <- OneOfEach
SPECIFICATION Spec
INVARIANT StockMatchesSales
CHECK_DEADLOCK FALSE
