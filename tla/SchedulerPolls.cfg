SPECIFICATION FairSpec
CONSTANTS
  Process <- One
  Ticker <- Nobody
  Dispatcher <- One
  MaxSlot = 1
  SlotLen = 1
  TTL = 1
  MaxLag = 0
  NumRequests = 1
  Item = {1}
  MaxGrants = 3
  MaxCrashes = 0
  MaxFaults = 1
PROPERTIES
  DispatcherPolls
CHECK_DEADLOCK FALSE
