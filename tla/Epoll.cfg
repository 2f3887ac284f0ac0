CONSTANTS
  f1 = f1
  f2 = f2
  c1 = c1
  c2 = c2
  None = None
  in = in
  Fds = {f1, f2}
  Callers = {c1, c2}
  Events = {in}
  MaxRecords = 2
SPECIFICATION FairSpec
INVARIANTS NoUseAfterFree RecordsAccounted KernelAgrees
PROPERTY EveryEventReported
\* The Adds are bounded.
CHECK_DEADLOCK FALSE
