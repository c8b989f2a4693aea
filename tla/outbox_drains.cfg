CONSTANTS
  Runs = {c1, c2}
  TTL = 2
  Kicks = {p1}
  Events = {1}
  Channels = {email, whatsapp}
  Keyed = {whatsapp}
  MaxAttempts = 2
SPECIFICATION FairOutboxSpec
INVARIANT ExclusiveUnlessOverrun
INVARIANT NoDoubleDelivery
PROPERTY EventSettles
