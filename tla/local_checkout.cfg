CONSTANTS
  k1 = k1
  k2 = k2
  k3 = k3
  w1 = w1
  w2 = w2
  w3 = w3
  Variants = {1, 2}
  Keys = {k1, k2, k3}
  Cart <- Carts
  InitialStock <- TwoAndOne
  Workers = {w1, w2}
  MaxAdjustments = 1
SPECIFICATION LocalSpec
INVARIANT GoodsConserved
PROPERTY ImplementsShelfContract
PROPERTY EveryCheckoutEnds
