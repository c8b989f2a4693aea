CONSTANTS
  o1 = o1
  o2 = o2
  r1 = r1
  r2 = r2
  r3 = r3
  Orders = {o1, o2}
  Requests = {r1}
  Advancers = {r1}
  MaxReturns = 2
SPECIFICATION Spec
PROPERTY ImplementsOrderContract
CHECK_DEADLOCK FALSE
