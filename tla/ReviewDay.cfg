SPECIFICATION Spec
CONSTANTS
  Worker = {w1, w2}
  Source <- Moving
  MaxDay = 1
  MaxAttempts = 2
  MaxRestarts = 1
  MaxFaults = 1
SYMMETRY Names
INVARIANTS
  PagesInOrder
  PageAttemptsBounded
  StartedIsCurrent
  CompleteIsClean
PROPERTIES
  TerminalStays
CHECK_DEADLOCK FALSE
