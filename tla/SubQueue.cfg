CONSTANTS
  Data = {d1, d2}
  NoData = NoData
  Raw = Raw
  Requested = 2
  StaleLoads = TRUE
  MaxPushes = 4
SPECIFICATION SubQueueFairSpec
INVARIANTS StatsTypeOK SlotRaceFree SlotLifetime NoLeak Accounting SizeInRange
PROPERTIES ImplementsFifo EmplaceReturns PopReturns
