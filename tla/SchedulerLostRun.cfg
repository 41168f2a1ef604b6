SPECIFICATION Spec
CONSTANTS
  Process <- One
  Ticker <- One
  Dispatcher <- Nobody
  MaxSlot = 2
  SlotLen = 1
  TTL = 1
  MaxLag = 0
  NumRequests = 0
  Item = {1}
  MaxGrants = 3
  MaxCrashes = 1
  MaxFaults = 0
INVARIANTS
  LostRunIsClosed
CHECK_DEADLOCK FALSE
