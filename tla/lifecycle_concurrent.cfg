CONSTANTS
  o1 = o1
  o2 = o2
  r1 = r1
  r2 = r2
  r3 = r3
  Orders = {o1}
  Requests = {r1, r2, r3}
  Advancers = {r1, r2, r3}
  MaxReturns = 2
SPECIFICATION Spec
SYMMETRY SymmetricContexts
INVARIANT StockReturnedOncePerCancellation
INVARIANT ReleaseFollowsCancellation
CHECK_DEADLOCK FALSE
