CONSTANTS
  o1 = o1
  o2 = o2
  r1 = r1
  d1 = d1
  d2 = d2
  ref1 = ref1
  ref1typed = ref1typed
  ref2 = ref2
  Orders = {o1, o2}
  Requests = {r1}
  Advancers = {}
  MaxReturns = 1
  Desks = {d1, d2}
  Spellings = {ref1, ref1typed, ref2}
  Transfer <- TwoSpellingsOfOne
  maxPerOrder = 1
  MaxConfirmed = 2
SPECIFICATION DirectSpec
SYMMETRY SymmetricDesks
INVARIANT WaitingPaymentIsQueued
INVARIANT TransferPaysOneOrder
PROPERTY ImplementsPaymentContract
CHECK_DEADLOCK FALSE
