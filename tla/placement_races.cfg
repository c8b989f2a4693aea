SPECIFICATION PurchaseSpec
CONSTANTS
  c1 = c1
  c2 = c2
  r1 = r1
  r2 = r2
  Customers = {c1, c2}
  Requests = {r1, r2}
  Stock = 1
  MaxUses = 1
  MaxKeys = 1
  v1 = v1
  v2 = v2
  format = format
  j1 = j1
  j2 = j2
  q1 = q1
  q2 = q2
  m1 = m1
  m2 = m2
  l1 = l1
  Variants = {v1, v2}
  Amounts = {1, 2, 3}
  Basket <- MCBasket
  Discounts <- MCDiscounts
  SiteRemises = {0, 2}
  MaxPriceEdits = 3
  Formats = {format}
  Stocks = {0, 1, 3}
  MAX_QUANTITY_PER_LINE = 2
  MaxPresses = 4
  Instances = {j1, j2}
  Demands = {q1, q2}
  textOf <- MCtextOf
  gridOf <- MCgridOf
  MethodCodes = {"wave"}
  Numbers = {1, 2}
  Managers = {m1, m2}
  Buyers = {l1}
  MaxWrites = 3
SYMMETRY SymmetricContexts
INVARIANT UndisturbedSaleKeepsItsGoods
INVARIANT UsesAreSales
 
INVARIANT CartIsKept
INVARIANT GridIsKept
INVARIANT NumbersAreOfficial
CHECK_DEADLOCK FALSE
