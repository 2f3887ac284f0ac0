CONSTANTS
  t1 = t1
  t2 = t2
  t3 = t3
  NoThread = NoThread
  stale = stale
  Threads = {t1, t2, t3}
  InitialOwners = {NoThread, stale}
SPECIFICATION FairSpec
INVARIANTS OnlyRelockAborts OwnerIsHolder
PROPERTIES MutexImplemented SomeoneAcquires
\* A relock aborts the process, so a behaviour may end.
CHECK_DEADLOCK FALSE
