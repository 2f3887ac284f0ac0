CONSTANTS
  f1 = f1
  f2 = f2
  f3 = f3
  p1 = p1
  None = None
  Fds = {f1, f2, f3}
  Pollers = {p1}
  MaxBacklog = 1
  MaxAccepts = 2
SPECIFICATION FairSpec
INVARIANTS OnlyLateEventHarms AnsweredOnce DescriptorsAccounted
  
\* The program may be aborted, and Stop is the last call.
CHECK_DEADLOCK FALSE
