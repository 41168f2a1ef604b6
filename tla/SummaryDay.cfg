SPECIFICATION FairSpec
CONSTANTS
  Worker = {w1, w2}
  Job = {1, 2}
  Cost <- JobCost
  MaxAttempts = 2
  Window <- Windows
  Day = 2
  Lease = 1
  MaxFaults = 1
INVARIANTS
  QuotaKept
  OpenIsCurrent
  PublishedIsEarned
PROPERTIES
  JobsSettle
CHECK_DEADLOCK FALSE
