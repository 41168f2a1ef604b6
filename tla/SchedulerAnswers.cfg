SPECIFICATION FairSpec
CONSTANTS
  Process <- One
  Ticker <- One
  Dispatcher <- One
  MaxSlot = 1
  SlotLen = 1
  TTL = 1
  MaxLag = 0
  NumRequests = 1
  Item = {1}
  MaxGrants = 8
  MaxCrashes = 1
  MaxFaults = 0
PROPERTIES
  RequestSettles
CHECK_DEADLOCK FALSE
