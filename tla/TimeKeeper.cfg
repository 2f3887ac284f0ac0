CONSTANTS
  MaxTimers = 4
  MaxDelay = 2
  MaxTime = 4
SPECIFICATION FairSpec
INVARIANTS NoInvariantFails ArmedForFirst ShutdownNeverBlocksKeeper
PROPERTIES TimersImplemented EveryTimerFires
\* The clock and the ScheduleIn calls are bounded.
CHECK_DEADLOCK FALSE
