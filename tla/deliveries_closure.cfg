CONSTANTS
  o1 = o1
  r1 = r1
  k1 = k1
  k2 = k2
  h1 = h1
  h2 = h2
  Orders = {o1}
  Requests = {r1}
  Advancers = {}
  MaxReturns = 1
  Couriers = {k1}
  Hands = {h1, h2}
  MaxAttempts = 1
  MaxResends = 1
  MaxCodes = 2
SPECIFICATION ReadySpec
SYMMETRY SymmetricHands
INVARIANT DeliveredOnlyByCodeOrManager
INVARIANT CodesHoldTheirLimits
CHECK_DEADLOCK FALSE
