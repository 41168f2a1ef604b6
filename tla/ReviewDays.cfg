SPECIFICATION FairSpec
CONSTANTS
  Worker = {w1, w2}
  Source <- Short
  MaxDay = 2
  MaxAttempts = 1
  MaxRestarts = 0
  MaxFaults = 1
INVARIANTS
  CorpusOfOneCohort
  HandedOff
PROPERTIES
  JobsEnd
CHECK_DEADLOCK FALSE
