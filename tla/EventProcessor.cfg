CONSTANTS
  t1 = t1
  t2 = t2
  h1 = h1
  h2 = h2
  Nobody = Nobody
  Threads = {t1, t2}
  Handlers = {h1, h2}
  MaxEvents = 2
SPECIFICATION FairSpec
INVARIANT EventsAccounted
PROPERTIES StopEnds EveryEventHandled
\* The Pushes are bounded, the program may be aborted, and a mutex that died
\* with its thread stops everyone who needs it.
CHECK_DEADLOCK FALSE
