SPECIFICATION Spec
CONSTANTS
  Process <- One
  Ticker <- One
  Dispatcher <- One
  MaxSlot = 2
  SlotLen = 1
  TTL = 1
  MaxLag = 0
  NumRequests = 1
  Item = {1}
  MaxGrants = 8
  MaxCrashes = 1
  MaxFaults = 0
INVARIANTS
  CountersMatchOutcomes
  RequestTellsItsRun
PROPERTIES
  FinishedStaysFinished
CHECK_DEADLOCK FALSE
