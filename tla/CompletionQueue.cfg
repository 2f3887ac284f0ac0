CONSTANTS
  w1 = w1
  w2 = w2
  w3 = w3
  a = a
  b = b
  Workers = {w1, w2, w3}
  Events = {a, b}
  MaxEvents = 4
SPECIFICATION CompletionFairSpec
INVARIANTS OneProcessor
PROPERTIES DeliveryImplemented EveryEventDelivered
\* The Wakeup calls end at MaxEvents.
CHECK_DEADLOCK FALSE
