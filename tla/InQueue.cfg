CONSTANTS
  e1 = e1
  e2 = e2
  Null = Null
  p1 = p1
  p2 = p2
  c1 = c1
  c2 = c2
  Elements = {e1, e2}
  Producers = {p1, p2}
  Consumers = {c1, c2}
  MaxSpin = 1
  MaxPushes = 4
SPECIFICATION FairSpec
INVARIANTS InOrder NoLostWakeup
PROPERTY EveryElementPopped
