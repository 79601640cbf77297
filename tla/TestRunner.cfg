SPECIFICATION FairSpec
CONSTANTS
  MaxWorkers = 3
  Total = 3
INVARIANTS Bookkeeping
PROPERTIES ImplementsPool CrashEndsRun RunEnds
CHECK_DEADLOCK FALSE
