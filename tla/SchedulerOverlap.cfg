SPECIFICATION Spec
CONSTANTS
  Process <- Two
  Ticker <- Two
  Dispatcher <- One
  MaxSlot = 1
  SlotLen = 1
  TTL = 2
  MaxLag = 1
  NumRequests = 1
  Item = {1}
  MaxGrants = 2
  MaxCrashes = 0
  MaxFaults = 1
INVARIANTS
  TypeOK
  TokensAreUnique
  DecidedOnce
PROPERTIES
  Fenced
  FencedOrder
CHECK_DEADLOCK FALSE
