CONSTANTS
  o1 = o1
  r1 = r1
  t1 = t1
  t2 = t2
  c1 = c1
  c2 = c2
  sweep = sweep
  Orders = {o1}
  Requests <- NoRequest
  Advancers <- NoRequest
  MaxReturns = 2
  Transactions = {t1}
  Callers = {c1, sweep}
  Sweeper = sweep
SPECIFICATION FairPaymentSpec
PROPERTY AwaitedPaymentMoves
CHECK_DEADLOCK FALSE
