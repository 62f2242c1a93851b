CONSTANTS
  Data = {d1}
  NoData = NoData
  Raw = Raw
  Requested = 2
  StaleLoads = FALSE
  MaxPushes = 3
SPECIFICATION SubQueueSpec
PROPERTY SizeIsQueued
