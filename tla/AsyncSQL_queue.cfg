SPECIFICATION FairSpec
CONSTANTS
  MaxQueries = 4
  MaxFails = 2
INVARIANTS TypeOK StrandedByFailure
PROPERTIES Implements AllFinished
CHECK_DEADLOCK FALSE
