SPECIFICATION Spec
CONSTANTS
  Process <- Two
  Ticker <- Two
  Dispatcher <- Nobody
  MaxSlot = 1
  SlotLen = 1
  TTL = 2
  MaxLag = 1
  NumRequests = 0
  Item = {1}
  MaxGrants = 3
  MaxCrashes = 0
  MaxFaults = 0
PROPERTIES
  FinishedStaysFinished
CHECK_DEADLOCK FALSE
