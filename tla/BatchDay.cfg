SPECIFICATION Spec
CONSTANTS
  Worker = {w1, w2}
  Run = {r1, r2}
  Game = {"g1", "g2", "g3"}
  NewReleases <- Releases
  Pages <- SeeAll
  Excluded = {}
  Ingested = {"g2"}
  Limit = 2
  MaxAttempts = 2
  MaxGrants = 3
  MaxFaults = 1
SYMMETRY Names
INVARIANTS
  AttemptBudget
  OncePerRun
  NothingStranded
  CursorKeepsUp
  SuccessIsFinal
PROPERTIES
  BatchStaysFrozen
  SucceededIsDone
CHECK_DEADLOCK FALSE
