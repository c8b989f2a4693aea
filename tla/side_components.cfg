CONSTANTS
  g1 = g1
  g2 = g2
  r1 = r1
  r2 = r2
  gamme = gamme
  s1 = s1
  s2 = s2
  timer = timer
  c1 = c1
  c2 = c2
  t1 = t1
  a1 = a1
  f1 = f1
  p1 = p1
  h1 = h1
  h2 = h2
  n1 = n1
  phone1 = phone1
  phone2 = phone2
  d1 = d1
  d2 = d2
  u1 = u1
  u2 = u2
  u3 = u3
  o1 = o1
  o2 = o2
  o3 = o3
  x1 = x1
  x2 = x2
  e1 = e1
  e2 = e2
  k1 = k1
  k2 = k2
  b1 = b1
  b2 = b2
  w1 = w1
  w2 = w2
  i1 = i1
  i2 = i2
  y1 = y1
  y2 = y2
  Guessers = {g1, g2}
  MaxWrongCodes = 3
  MaxCodes = 2
  offlineQueueMaxPoints = 3
  BatchSize = 2
  MaxPoints = 5
  MaxStarts = 2
  Refs = {r1, r2}
  Gammes = {gamme}
  gammeOf <- MCgammeOf
  Shelves = {s1, s2}
  shelfOf <- MCshelfOf
  Syncs = {timer}
  Prices = {1, 2}
  MaxEdits = 1
  Couriers = {c1, c2}
  Declarations = {t1}
  ScreenNames = {"commande", "paiement", "file", "gestion", "paiements", "course"}
  Accounts = {a1}
  queriesOf <- MCqueriesOf
  MaxVersions = 1
  Farms = {f1}
  Harvests = {p1}
  Quantities = {1, 2}
  Visits = {h1, h2}
  Customers = {"awa", "koffi"}
  Telephones = {phone1, phone2}
  Notices = {n1}
  MaxMoves = 2
  Admins = {d1, d2}
  Discount = {1, 2}
  MaxPercent = 1
  MaxSaves = 2
  Users = {u1, u2, u3}
  Orders = {o1, o2, o3}
  buyerOf <- MCbuyerOf
  Closers = {x1, x2}
  Attempts = {e1, e2}
  Purchases = {k1, k2}
  Riders = {c1, c2}
  MaxFixes = 2
  MaxAttempts = 2
  Addresses = {b1, b2}
  Writers = {w1, w2}
  Sales = {i1, i2}
  Courses = {y1, y2}
  closureOf <- MCclosureOf
  rangeOf <- MCrangeOf
  totalOf <- MCtotalOf
  SALES_HISTORY_MONTHS = 2
  LastMonth = 3
  MaxUpsets = 1
SPECIFICATION SideSpec
INVARIANT GuessesBounded
INVARIANT RoadIsKept
INVARIANT ShopSaysWhatTheSiteSaid
INVARIANT ScreensAndRowsAgree
INVARIANT AnsweredMutationIsShown
INVARIANT ExaminedIsKept
INVARIANT CriticalNoticeIsHeard
INVARIANT CodeGivesWhatWasDecided
INVARIANT RewardFollowsDelivery
INVARIANT GuestPurchaseIsKept
INVARIANT CustomerSeesTheRun
INVARIANT OneDefaultAddress
INVARIANT DashboardAddsUp
CHECK_DEADLOCK FALSE
