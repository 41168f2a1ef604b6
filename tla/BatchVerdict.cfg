SPECIFICATION Spec
CONSTANTS
  Worker = {w1}
  Run = {r1, r2, r3}
  Game = {"g1", "g2", "g3"}
  NewReleases <- Releases
  Pages <- SeeAll
  Excluded = {"g2", "g3"}
  Ingested = {}
  Limit = 1
  MaxAttempts = 2
  MaxGrants = 4
  MaxFaults = 1
PROPERTIES
  SucceededIsProcessed
CHECK_DEADLOCK FALSE
