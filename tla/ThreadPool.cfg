CONSTANTS
  t1 = t1
  t2 = t2
  t3 = t3
  Nobody = Nobody
  Threads = {t1, t2, t3}
  MaxRoutines = 4
  Calls = 1
SPECIFICATION FairSpec
INVARIANTS ShutdownClean
PROPERTIES EveryRoutineRuns ProgramEnds
\* The program ends, or waits for ever.
CHECK_DEADLOCK FALSE
