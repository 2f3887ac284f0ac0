CONSTANTS
  None = None
  SendBuffer = 2
  MaxSize = 2
  MaxWrites = 2
  MaxReads = 2
  MaxArrivals = 2
  MaxFailures = 1
SPECIFICATION FairSpec
INVARIANTS OnlyFailuresAbort AnsweredOnce StreamPreserved
PROPERTY EveryReadServed
\* The program may be aborted, and the calls of the clients are bounded.
CHECK_DEADLOCK FALSE
