CONSTANTS
  o1 = o1
  o2 = o2
  o3 = o3
  t1 = t1
  t2 = t2
  Null = Null
  Elements = {o1, o2, o3}
  SyncOps = {o1}
  Threads = {t1, t2}
SPECIFICATION AioFairSpec
INVARIANTS DestructionClean
PROPERTIES QueueImplemented EveryOpAnswered
\* After Join the processor is gone, and a synchronous Write whose submission
\* failed waits for ever.
CHECK_DEADLOCK FALSE
